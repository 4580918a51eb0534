--------------------------- MODULE ServiceRegistry ---------------------------
(***************************************************************************)
(* api/src/procedures/services.ts: the table of service adapters.          *)
(*                                                                         *)
(* A request for a service the table does not know reads the registered    *)
(* services again and replaces the whole table.  Requests overlap at the   *)
(* query, so several replacements may be under way, and their answers may  *)
(* come in another order than they were asked.  An adapter is live from    *)
(* makeWsAdapter until dispose(): it keeps a socket to its service (module *)
(* ServiceAdapter) and broadcasts the events of that service.              *)
(***************************************************************************)
EXTENDS Naturals

CONSTANTS
    Request,        \* the requests forwarded at one time
    Service,        \* services that may be registered
    Misconfigured,  \* those whose endpoint cannot be resolved
    MaxTables       \* bound on the tables built

RegistryAssumption == MaxTables \in Nat \ {0} /\ Misconfigured \subseteq Service

VARIABLES
    rows,           \* the registered services
    adapters,       \* serviceAdapters: [generation |-> the table's, services |-> its keys]
    live,           \* adapters not disposed, as <<generation, service>>
    generations,    \* tables built so far
    req             \* [Request -> where it is]

vars == <<rows, adapters, live, generations, req>>

Idle == [pc |-> "idle", service |-> "", listed |-> {}, registered |-> FALSE]

TypeOK ==
    /\ rows \subseteq Service
    /\ adapters \in [generation : 0 .. MaxTables, services : SUBSET rows]
    /\ live \subseteq (0 .. MaxTables) \X Service
    /\ generations \in 0 .. MaxTables
    /\ req \in [Request -> [pc : {"idle", "list", "listed", "reached", "refused"},
                            service : Service \cup {""}, listed : SUBSET Service,
                            registered : BOOLEAN]]

\* startServer makes the adapters of the services registered by then.
Init ==
    /\ rows \in SUBSET (Service \ Misconfigured)
    /\ adapters = [generation |-> 0, services |-> rows]
    /\ live = {0} \X rows
    /\ generations = 0
    /\ req = [r \in Request |-> Idle]

\* A service is registered: a create of its row.
Register(s) ==
    /\ s \notin rows
    /\ rows' = rows \cup {s}
    /\ UNCHANGED <<adapters, live, generations, req>>

\* Mutant: a service the table does not know is refused.
GetServiceAdapterFromTable(r, s) ==
    /\ req[r] = Idle
    /\ req' = [req EXCEPT ![r] = [Idle EXCEPT
                  !.pc = IF s \in adapters.services THEN "reached" ELSE "refused",
                  !.service = s, !.registered = (s \in rows)]]
    /\ UNCHANGED <<rows, adapters, live, generations>>

\* getServiceAdapter: from the table, or the services are listed again.
GetServiceAdapter(r, s) ==
    /\ req[r] = Idle
    /\ req' = [req EXCEPT ![r] = [Idle EXCEPT
                  !.pc = IF s \in adapters.services THEN "reached" ELSE "list",
                  !.service = s, !.registered = (s \in rows)]]
    /\ UNCHANGED <<rows, adapters, live, generations>>

\* The database answers listExternalServices.
ListExternalServices(r) ==
    /\ req[r].pc = "list"
    /\ req' = [req EXCEPT ![r].pc = "listed", ![r].listed = rows]
    /\ UNCHANGED <<rows, adapters, live, generations>>

\* Mutant: the service that is asked for gets an adapter, registered or not.
InitServiceAdaptersForAny(r) ==
    LET listed == req[r].listed \cup {req[r].service}
    IN  /\ req[r].pc = "listed" /\ generations < MaxTables
        /\ generations' = generations + 1
        /\ adapters' = [generation |-> generations', services |-> listed]
        /\ live' = (live \ ({adapters.generation} \X adapters.services))
                       \cup ({generations'} \X listed)
        /\ req' = [req EXCEPT ![r].pc = "reached"]
        /\ UNCHANGED rows

\* Mutant: a table that was replaced is not disposed of.
InitServiceAdaptersKeepingPrevious(r) ==
    LET listed == req[r].listed
    IN  /\ req[r].pc = "listed" /\ generations < MaxTables
        /\ generations' = generations + 1
        /\ listed \cap Misconfigured = {}
        /\ adapters' = [generation |-> generations', services |-> listed]
        /\ live' = live \cup ({generations'} \X listed)
        /\ req' = [req EXCEPT ![r].pc = IF req[r].service \in listed THEN "reached" ELSE "refused"]
        /\ UNCHANGED rows

\* Mutant: the previous table is disposed of before the next one is made.
InitServiceAdaptersDisposingFirst(r) ==
    LET listed == req[r].listed
        rest   == live \ ({adapters.generation} \X adapters.services)
    IN  /\ req[r].pc = "listed" /\ generations < MaxTables
        /\ generations' = generations + 1
        /\ \/ /\ listed \cap Misconfigured = {}
              /\ adapters' = [generation |-> generations', services |-> listed]
              /\ live' = rest \cup ({generations'} \X listed)
           \/ /\ listed \cap Misconfigured # {}
              /\ live' = rest
              /\ UNCHANGED adapters
        /\ req' = [req EXCEPT ![r].pc = "refused"]
        /\ UNCHANGED rows

\* initServiceAdapters with the rows listed: an adapter per row, then the
\* table is replaced and the previous one disposed of.  A row without an
\* endpoint throws, after the adapters of the rows before it were made.
InitServiceAdapters(r) ==
    LET listed == req[r].listed
    IN  /\ req[r].pc = "listed" /\ generations < MaxTables
        /\ generations' = generations + 1
        /\ \/ /\ listed \cap Misconfigured = {}
              /\ adapters' = [generation |-> generations', services |-> listed]
              /\ live' = (live \ ({adapters.generation} \X adapters.services))
                             \cup ({generations'} \X listed)
              /\ req' = [req EXCEPT ![r].pc = IF req[r].service \in listed THEN "reached"
                                              ELSE "refused"]
           \/ /\ listed \cap Misconfigured # {}
              /\ \E made \in SUBSET (listed \ Misconfigured) :
                     live' = live \cup ({generations'} \X made)
              /\ req' = [req EXCEPT ![r].pc = "refused"]
              /\ UNCHANGED adapters
        /\ UNCHANGED rows

End(r) ==
    /\ req[r].pc \in {"reached", "refused"}
    /\ req' = [req EXCEPT ![r] = Idle]
    /\ UNCHANGED <<rows, adapters, live, generations>>

Next ==
    \/ \E s \in Service : Register(s) \/ \E r \in Request : GetServiceAdapter(r, s)
    \/ \E r \in Request : ListExternalServices(r) \/ InitServiceAdapters(r) \/ End(r)

Spec == Init /\ [][Next]_vars

-----------------------------------------------------------------------------
(* Properties *)

\* Replacements that overlap leave no adapter behind that nobody will dispose
\* of: every live adapter is in the table.  And every one in the table is live,
\* also when it could not be replaced for a row without an endpoint (whose
\* replacement does leave adapters behind: OneListenerPerService).
TableIsWhatIsLive ==
    LET table == {adapters.generation} \X adapters.services
    IN  /\ table \subseteq live
        /\ Misconfigured = {} => live \subseteq table

\* A service that was registered when a request for it came is reached, even
\* when tables listed before and after replace each other meanwhile.
RegisteredIsReached ==
    \A r \in Request : req[r].pc = "refused" => ~ req[r].registered

\* An event of a service is forwarded once per create (services.test.ts:178):
\* one live adapter at most listens to a service.
OneListenerPerService ==
    \A a, b \in live : a[2] = b[2] => a = b

=============================================================================
