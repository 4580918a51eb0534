--------------------------- MODULE ServiceAdapter ---------------------------
(***************************************************************************)
(* api/src/procedures/services.ts: the gateway's client of one service.    *)
(*                                                                         *)
(* makeWsAdapter keeps one socket to the service, shares one connection    *)
(* attempt among all who need it, and re-connects by itself after a close. *)
(* A forwarded call waits for the connection, is sent, and is bounded by a *)
(* timeout.  Everything runs in one event loop and is cut at each await:   *)
(* the opening of the socket, the subscription, the call.                  *)
(*                                                                         *)
(* The library's socket (rpc-websockets) is modelled as the code uses it:  *)
(* connect() does nothing while a socket exists, "close" is emitted a turn *)
(* after the socket is gone and only if it had been open, and a call on a  *)
(* socket that is lost is never answered.  The delay of the back-off is    *)
(* left out: a timer that is set fires in the end.                         *)
(***************************************************************************)
EXTENDS Naturals

CONSTANTS
    Caller,             \* forwarded calls at one time
    MaxAttempts,        \* bound on the connection attempts at one time
    MaxLosses,          \* bound on the failures of the service and the network
    SlowOpen,           \* whether an open may take longer than its timeout
    SubscribeFails      \* whether the service may refuse the subscription

AdapterAssumption ==
    /\ MaxAttempts \in Nat \ {0} /\ MaxLosses \in Nat
    /\ SlowOpen \in BOOLEAN /\ SubscribeFails \in BOOLEAN

VARIABLES
    socket,             \* the library's socket: "none", "opening" or "open"
    closing,            \* a "close" event still to be emitted
    subscribed,         \* the service pushes data_changed on this socket
    connected, connectPromise, reconnectTimer, disposed,    \* the adapter's state
    attempt,            \* [Attempt -> what an execution of connectClient awaits]
    background,         \* the attempts whose failure schedules a reconnect
    forward,            \* [Caller -> where a forwarded call is]
    losses              \* failures so far

adapterVars == <<connected, connectPromise, reconnectTimer, disposed>>
socketVars  == <<socket, closing, subscribed>>
vars == <<socket, closing, subscribed, connected, connectPromise, reconnectTimer,
          disposed, attempt, background, forward, losses>>

Attempt == 1 .. MaxAttempts
NoPromise == 0
Settled == MaxAttempts + 1      \* the promise of an attempt that succeeded

Idle == [pc |-> "idle", on |-> 0]
\* A call that waits for what will never come, until its timeout.
Stuck == [pc |-> "stuck", on |-> 0]

TypeOK ==
    /\ socket \in {"none", "opening", "open"}
    /\ closing \in BOOLEAN /\ subscribed \in BOOLEAN
    /\ connected \in BOOLEAN /\ connectPromise \in 0 .. Settled
    /\ connectPromise \in Attempt => attempt[connectPromise] # "none" \/ closing
    /\ reconnectTimer \in BOOLEAN /\ disposed \in BOOLEAN
    /\ attempt \in [Attempt -> {"none", "opening", "subscribing"}]
    /\ background \subseteq Attempt
    /\ forward \in [Caller -> [pc : {"idle", "connecting", "called", "stuck"}, on : 0 .. MaxAttempts]]
    /\ losses \in 0 .. MaxLosses

\* makeWsAdapter connects at once.
Init ==
    /\ socket = "opening" /\ closing = FALSE /\ subscribed = FALSE
    /\ connected = FALSE /\ connectPromise = 1
    /\ reconnectTimer = FALSE /\ disposed = FALSE
    /\ attempt = [a \in Attempt |-> IF a = 1 THEN "opening" ELSE "none"]
    /\ background = {1}
    /\ forward = [c \in Caller |-> Idle]
    /\ losses = 0

Lose == losses < MaxLosses /\ losses' = losses + 1

\* A call on the socket: refused unless it is open.
Called == IF socket = "open" THEN [pc |-> "called", on |-> 0] ELSE Idle

\* Mutant: every caller opens a connection of its own.
JoinOrStartAlways(a) ==
    /\ attempt[a] = "none"
    /\ attempt' = [attempt EXCEPT ![a] = "opening"]
    /\ connectPromise' = a
    /\ socket' = IF socket = "none" THEN "opening" ELSE socket

\* connectClient where there is no connection: the attempt of connectPromise
\* is shared, and a new one made where there is none.
JoinOrStart(a) ==
    \/ /\ connectPromise = a
       /\ UNCHANGED <<attempt, connectPromise, socket>>
    \/ /\ connectPromise = NoPromise /\ attempt[a] = "none"
       /\ attempt' = [attempt EXCEPT ![a] = "opening"]
       /\ connectPromise' = a
       /\ socket' = IF socket = "none" THEN "opening" ELSE socket

\* Mutant: the rejected promise is kept.
RejectKeepingPromise(failed) ==
    /\ attempt' = [a \in Attempt |-> IF a \in failed THEN "none" ELSE attempt[a]]
    /\ forward' = [c \in Caller |-> IF forward[c].pc = "connecting" /\ forward[c].on \in failed
                                    THEN Idle ELSE forward[c]]
    /\ reconnectTimer' = (reconnectTimer \/ (~ disposed /\ background \cap failed # {}))
    /\ background' = background \ failed
    /\ UNCHANGED connectPromise

\* An attempt is rejected: connectPromise is cleared, those who waited for it
\* are told, and the background ones schedule a reconnect.
Reject(failed) ==
    /\ attempt' = [a \in Attempt |-> IF a \in failed THEN "none" ELSE attempt[a]]
    /\ connectPromise' = NoPromise
    /\ forward' = [c \in Caller |-> IF forward[c].pc = "connecting" /\ forward[c].on \in failed
                                    THEN Idle ELSE forward[c]]
    /\ reconnectTimer' = (reconnectTimer \/ (~ disposed /\ background \cap failed # {}))
    /\ background' = background \ failed

-----------------------------------------------------------------------------
(* Calls *)

\* Mutant: a disposed adapter connects again when it is called.
ForwardDisposed(c) ==
    /\ forward[c] = Idle
    /\ \/ /\ connected
          /\ forward' = [forward EXCEPT ![c] = Called]
          /\ UNCHANGED <<attempt, connectPromise, socket>>
       \/ /\ ~ connected /\ connectPromise # Settled
          /\ \E a \in Attempt :
                 JoinOrStart(a) /\ forward' = [forward EXCEPT ![c] = [pc |-> "connecting", on |-> a]]
    /\ UNCHANGED <<closing, subscribed, connected, reconnectTimer, disposed, background, losses>>

\* forwardTo: callMethod connects if it must, or calls at once.  A disposed
\* adapter refuses.
Forward(c) ==
    /\ forward[c] = Idle /\ ~ disposed
    /\ \/ /\ connected
          /\ forward' = [forward EXCEPT ![c] = Called]
          /\ UNCHANGED <<attempt, connectPromise, socket>>
       \/ /\ ~ connected /\ connectPromise # Settled
          /\ \E a \in Attempt :
                 JoinOrStart(a) /\ forward' = [forward EXCEPT ![c] = [pc |-> "connecting", on |-> a]]
    /\ UNCHANGED <<closing, subscribed, connected, reconnectTimer, disposed, background, losses>>

\* The service answers, or throws.
AnswerCall(c) ==
    /\ forward[c].pc = "called" /\ socket = "open"
    /\ forward' = [forward EXCEPT ![c] = Idle]
    /\ UNCHANGED <<socketVars, adapterVars, attempt, background, losses>>

\* Mutant: only a call that was sent is bounded.
TimeOutCallSent(c) ==
    /\ forward[c].pc = "called"
    /\ forward' = [forward EXCEPT ![c] = Idle]
    /\ UNCHANGED <<socketVars, adapterVars, attempt, background, losses>>

\* withTimeout: the caller is told; what the call waited for goes on.
TimeOutCall(c) ==
    /\ forward[c].pc # "idle"
    /\ forward' = [forward EXCEPT ![c] = Idle]
    /\ UNCHANGED <<socketVars, adapterVars, attempt, background, losses>>

-----------------------------------------------------------------------------
(* Connection *)

\* The socket opens: every attempt that waits for it goes on to subscribe.
\* An open that comes after its timeout finds no attempt.
Open ==
    /\ socket = "opening"
    /\ socket' = "open"
    /\ attempt' = [a \in Attempt |-> IF attempt[a] = "opening" THEN "subscribing" ELSE attempt[a]]
    /\ connected' = (connected \/ \E a \in Attempt : attempt[a] = "opening")
    /\ UNCHANGED <<closing, subscribed, connectPromise, reconnectTimer, disposed, background,
                   forward, losses>>

\* The socket is refused.
Refuse ==
    /\ socket = "opening"
    /\ Lose \/ (disposed /\ UNCHANGED losses)
    /\ socket' = "none"
    /\ Reject({a \in Attempt : attempt[a] = "opening"})
    /\ UNCHANGED <<closing, subscribed, connected, disposed>>

\* An attempt waited SERVICE_WS_CONNECT_TIMEOUT_MS: the socket is left as it is.
TimeOutConnect(a) ==
    /\ SlowOpen /\ attempt[a] = "opening"
    /\ Reject({a})
    /\ UNCHANGED <<socketVars, connected, disposed, losses>>

\* subscribe(data_changed) is answered: the attempt succeeds, and the calls
\* that waited for it are sent.
Subscribed(a) ==
    /\ attempt[a] = "subscribing" /\ socket = "open"
    /\ subscribed' = TRUE
    /\ attempt' = [attempt EXCEPT ![a] = "none"]
    /\ connectPromise' = IF connectPromise = a THEN Settled ELSE connectPromise
    /\ background' = background \ {a}
    /\ forward' = [c \in Caller |-> IF forward[c] = [pc |-> "connecting", on |-> a]
                                    THEN Called ELSE forward[c]]
    /\ UNCHANGED <<socket, closing, connected, reconnectTimer, disposed, losses>>

\* It is refused: the attempt fails, the connection stays.
FailToSubscribe(a) ==
    /\ SubscribeFails /\ Lose
    /\ attempt[a] = "subscribing" /\ socket = "open"
    /\ Reject({a})
    /\ UNCHANGED <<socketVars, connected, disposed>>

\* The socket is lost or closed: what was asked on it is never answered.
CloseSocket ==
    /\ socket = "open" /\ ~ closing
    /\ Lose \/ (disposed /\ UNCHANGED losses)
    /\ socket' = "none" /\ closing' = TRUE /\ subscribed' = FALSE
    /\ attempt' = [a \in Attempt |-> IF attempt[a] = "subscribing" THEN "none" ELSE attempt[a]]
    /\ background' = {a \in background : attempt[a] # "subscribing"}
    /\ forward' = [c \in Caller |->
                      IF \/ forward[c].pc = "called"
                         \/ forward[c].pc = "connecting" /\ attempt[forward[c].on] = "subscribing"
                      THEN Stuck ELSE forward[c]]
    /\ UNCHANGED adapterVars

\* Mutant: no reconnect after a close.
CloseEventWithoutReconnect ==
    /\ closing /\ closing' = FALSE
    /\ connected' = FALSE /\ connectPromise' = NoPromise
    /\ UNCHANGED <<socket, subscribed, reconnectTimer, disposed, attempt, background, forward, losses>>

\* client.on("close").
CloseEvent ==
    /\ closing /\ closing' = FALSE
    /\ connected' = FALSE /\ connectPromise' = NoPromise
    /\ reconnectTimer' = (reconnectTimer \/ ~ disposed)
    /\ UNCHANGED <<socket, subscribed, disposed, attempt, background, forward, losses>>

\* Mutant: the failure of a background attempt is swallowed.
TimerFiresOnce ==
    /\ reconnectTimer /\ reconnectTimer' = FALSE
    /\ \/ (connected \/ connectPromise = Settled) /\ UNCHANGED <<attempt, connectPromise, socket>>
       \/ ~ connected /\ connectPromise # Settled /\ \E a \in Attempt : JoinOrStart(a)
    /\ UNCHANGED <<closing, subscribed, connected, disposed, background, forward, losses>>

\* The timer of scheduleReconnect: connectClient, whose failure schedules again.
TimerFires ==
    /\ reconnectTimer /\ reconnectTimer' = FALSE
    /\ \/ (connected \/ connectPromise = Settled) /\ UNCHANGED <<attempt, connectPromise, socket, background>>
       \/ /\ ~ connected /\ connectPromise # Settled
          /\ \E a \in Attempt : JoinOrStart(a) /\ background' = background \cup {a}
    /\ UNCHANGED <<closing, subscribed, connected, disposed, forward, losses>>

\* dispose(), when the adapters are replaced: the socket is closed in the end.
Dispose ==
    /\ ~ disposed /\ disposed' = TRUE
    /\ reconnectTimer' = FALSE
    /\ connected' = FALSE /\ connectPromise' = NoPromise
    /\ UNCHANGED <<socketVars, attempt, background, forward, losses>>

-----------------------------------------------------------------------------
Next ==
    \/ \E c \in Caller : Forward(c) \/ AnswerCall(c) \/ TimeOutCall(c)
    \/ \E a \in Attempt : TimeOutConnect(a) \/ Subscribed(a) \/ FailToSubscribe(a)
    \/ Open \/ Refuse \/ CloseSocket \/ CloseEvent \/ TimerFires \/ Dispose

Spec == Init /\ [][Next]_vars

\* The event loop runs timers and events; an open service opens what is asked
\* of it, answers a subscription, and closes what a disposed adapter closed.
Fairness ==
    /\ WF_vars(Open) /\ WF_vars(CloseEvent) /\ WF_vars(TimerFires)
    /\ WF_vars(disposed /\ (CloseSocket \/ Refuse))
    /\ \A a \in Attempt : WF_vars(Subscribed(a)) /\ WF_vars(TimeOutConnect(a))
    /\ \A c \in Caller : WF_vars(TimeOutCall(c))

FairSpec == Spec /\ Fairness

-----------------------------------------------------------------------------
(* Properties *)

\* A disposed adapter never opens a socket again, whoever still calls it and
\* whatever timers were set: it would push its service's events beside the
\* adapter that replaced it.
DisposedStaysClosed == [][disposed /\ socket = "none" => socket' = "none"]_vars

\* The adapter never gives up on its service: without a socket, a "close" to
\* come or an attempt at work, a reconnect is scheduled.
NeverGivesUp ==
    ~ disposed /\ socket = "none" =>
        closing \/ reconnectTimer \/ \E a \in background : attempt[a] = "opening"

\* One attempt opens the socket, and all who need a connection share it, as
\* long as opening it does not outlast an attempt.
SharedAttempt ==
    \A a, b \in Attempt : attempt[a] = "opening" /\ attempt[b] = "opening" => a = b

\* Every forwarded call ends (api/README.md:148), whatever it waits for.
EveryForwardEnds == \A c \in Caller : forward[c].pc # "idle" ~> forward[c].pc = "idle"

\* The adapter comes back after its service does, as the comment on its own
\* reconnect says: with no more failures it is connected in the end, and stays.
AdapterComesBack == <>[](disposed \/ (connected /\ socket = "open"))

\* data_changed events of a service the gateway is connected to are forwarded
\* (api/README.md:84): a connection that stays is subscribed in the end.
ConnectedIsSubscribed == <>[](disposed \/ ~ connected \/ subscribed)

=============================================================================
