------------------------------- MODULE MCGateway -------------------------------
(* The gateway's own machines for TLC, one at a time: `part` chooses at the    *)
(* start which of them runs, and under which bounds.  They share no state, so  *)
(* interleaving them would show nothing more.                                  *)
EXTENDS Naturals

CONSTANTS
    Caller, MaxAttempts, MaxLosses, FewLosses,  \* of a service adapter
    Request, Lookup, Service, Misconfigured, MaxTables,     \* of the table of adapters
    File, Writer, Size, MaxChunks, MaxFaults    \* of the files

VARIABLES
    part,
    socket, closing, subscribed, connected, connectPromise, reconnectTimer, disposed,
    attempt, background, forward, losses,
    rows, adapters, live, generations, lookup,
    session, tmp, binary, row, req, upload, unlinked, shortened, faults

adapter  == <<socket, closing, subscribed, connected, connectPromise, reconnectTimer,
              disposed, attempt, background, forward, losses>>
registry == <<rows, adapters, live, generations, lookup>>
files    == <<session, tmp, binary, row, req, upload, unlinked, shortened, faults>>
vars     == <<part, adapter, registry, files>>

\* The service and the network fail as they may; and an adapter whose service
\* opens and subscribes in time once it is up, for what must happen in the end.
Failing    == INSTANCE ServiceAdapter WITH SlowOpen <- TRUE, SubscribeFails <- TRUE
Recovering == INSTANCE ServiceAdapter
                  WITH MaxLosses <- FewLosses, SlowOpen <- FALSE, SubscribeFails <- FALSE

\* Every registered service has an endpoint; or one of them has none.
Sound  == INSTANCE ServiceRegistry WITH Misconfigured <- {}, req <- lookup
Faulty == INSTANCE ServiceRegistry WITH Request <- Lookup, req <- lookup

\* Faults may happen; or none does, and another client creates the same ids.
Alone  == INSTANCE Files WITH Request <- Writer, Shared <- FALSE
Shared == INSTANCE Files WITH Request <- Writer, MaxFaults <- 0, Shared <- TRUE

ASSUME GatewayAssumption ==
    /\ Failing!AdapterAssumption /\ Recovering!AdapterAssumption /\ FewLosses <= MaxLosses
    /\ Sound!RegistryAssumption /\ Faulty!RegistryAssumption /\ Lookup \subseteq Request
    /\ Alone!FilesAssumption /\ Shared!FilesAssumption

\* For the cfg: one of the files exceeds the limit.
Sizes == [f \in File |-> IF f = "large" THEN 3 ELSE 2]

Init ==
    /\ part \in {"failing", "recovering", "sound", "faulty", "alone", "shared"}
    /\ Failing!Init /\ Alone!Init
    /\ IF part = "faulty" THEN Faulty!Init ELSE Sound!Init
    /\ part \notin {"sound", "faulty"} => rows = {}

Rest(running) == UNCHANGED part /\ UNCHANGED running

FailingNext    == part = "failing"    /\ Failing!Next    /\ Rest(<<registry, files>>)
RecoveringNext == part = "recovering" /\ Recovering!Next /\ Rest(<<registry, files>>)
SoundNext      == part = "sound"      /\ Sound!Next      /\ Rest(<<adapter, files>>)
FaultyNext     == part = "faulty"     /\ Faulty!Next     /\ Rest(<<adapter, files>>)
AloneNext      == part = "alone"      /\ Alone!Next      /\ Rest(<<adapter, registry>>)
SharedNext     == part = "shared"     /\ Shared!Next     /\ Rest(<<adapter, registry>>)

Next ==
    \/ FailingNext \/ RecoveringNext \/ SoundNext \/ FaultyNext
    \/ AloneNext \/ SharedNext

Spec ==
    /\ Init /\ [][Next]_vars
    /\ part = "recovering" => Recovering!Fairness

-----------------------------------------------------------------------------
(* The properties of the parts, each in the parts it is about: see there. *)

NeverGivesUp        == Failing!NeverGivesUp
DisposedStaysClosed == Failing!DisposedStaysClosed
AdapterComesBack    == part = "recovering" => Recovering!AdapterComesBack

TableIsWhatIsLive ==
    /\ part = "faulty" => Faulty!TableIsWhatIsLive
    /\ part = "sound" => Sound!TableIsWhatIsLive /\ Sound!RegisteredIsReached

RowsAndBinariesAgree ==
    /\ part = "alone" => Alone!LiveFileHasItsBinary
    /\ part = "shared" => Shared!NoOrphanBinary
StoredAsSent == part = "alone" => Alone!StoredAsSent

=============================================================================
