------------------------------- MODULE Clock -------------------------------
(***************************************************************************)
(* types/clock.ts: the server clock.  nowIso() turns a monotonic           *)
(* nanosecond counter and a millisecond wall clock into a timestamp that   *)
(* is at once a row's version token and a sync cursor.  A timestamp is a   *)
(* pair of a millisecond and of the nanoseconds inside it; the text the    *)
(* program writes has a fixed width, so the order of texts is the          *)
(* lexicographic order of these pairs as long as the second component      *)
(* stays below NanosPerMs.                                                 *)
(*                                                                         *)
(* The two clocks are the environment's: the counter never goes back, the  *)
(* wall clock may be stepped either way.  They advance independently, so   *)
(* that the two reads nowParts makes one after the other see every pair    *)
(* of values they can see in the program.                                  *)
(***************************************************************************)
EXTENDS Integers

CONSTANTS
    NanosPerMs,     \* NANOS_PER_MILLISECOND (1000000)
    MaxWall,        \* bound on the wall clock, for TLC
    MaxMono,        \* bound on the monotonic counter, for TLC
    MaxMs           \* bound on the timestamps issued, for TLC

ASSUME ClockAssumption ==
    /\ NanosPerMs \in Nat \ {0}
    /\ MaxWall \in Nat /\ MaxMono \in Nat /\ MaxMs \in Nat

VARIABLES
    wall,           \* Date.now(), milliseconds since the epoch
    mono,           \* Bun.nanoseconds()
    wallAnchorMs, monoAnchorNs, lastMs, lastFracNs,     \* the module's state
    high,           \* the last timestamp issued by this or an earlier process
    skewed,         \* some process started with its wall clock not past high
    parity          \* flips at each timestamp, so that none is issued unseen

envVars   == <<wall, mono>>
clockVars == <<wallAnchorMs, monoAnchorNs, lastMs, lastFracNs>>
vars      == <<wall, mono, wallAnchorMs, monoAnchorNs, lastMs, lastFracNs, high,
              skewed, parity>>

Timestamp == [ms : Nat, fracNs : 0 .. NanosPerMs - 1]

\* The order of the texts nowIso() writes.
Before(s, t) == \/ s.ms < t.ms
                \/ s.ms = t.ms /\ s.fracNs < t.fracNs

LastTimestamp == [ms |-> lastMs, fracNs |-> lastFracNs]

TypeOK ==
    /\ wall \in Nat /\ mono \in Nat
    /\ wallAnchorMs \in Nat /\ monoAnchorNs \in 0 .. mono
    /\ lastMs \in Nat /\ lastFracNs \in 0 .. NanosPerMs - 1
    /\ high \in Timestamp
    /\ skewed \in BOOLEAN /\ parity \in BOOLEAN

\* The module is loaded once per process: the anchors are read, and the last
\* timestamp is forgotten.
LoadModule ==
    /\ wallAnchorMs' = wall
    /\ monoAnchorNs' = mono
    /\ lastMs' = 0
    /\ lastFracNs' = 0

Init ==
    /\ wall \in 1 .. MaxWall
    /\ mono \in 0 .. MaxMono
    /\ wallAnchorMs = wall /\ monoAnchorNs = mono
    /\ lastMs = 0 /\ lastFracNs = 0
    /\ high = [ms |-> 0, fracNs |-> 0]
    /\ skewed = FALSE /\ parity = FALSE

\* Mutant: a wall clock that is ahead is not followed.
ReadingWithoutReanchor ==
    LET elapsedNs == mono - monoAnchorNs
    IN  [ms |-> wallAnchorMs + (elapsedNs \div NanosPerMs),
         fracNs |-> elapsedNs % NanosPerMs, reanchor |-> FALSE]

\* What the two clocks say before the sequence is forced upward: the time the
\* counter gives from the anchors, or the wall clock where it is ahead.
Reading ==
    LET elapsedNs == mono - monoAnchorNs
        ms        == wallAnchorMs + (elapsedNs \div NanosPerMs)
    IN  IF wall > ms
        THEN [ms |-> wall, fracNs |-> 0, reanchor |-> TRUE]
        ELSE [ms |-> ms, fracNs |-> elapsedNs % NanosPerMs, reanchor |-> FALSE]

\* Mutant: no carry at the end of the millisecond.
SuccessorWithoutCarry(t) == [ms |-> t.ms, fracNs |-> (t.fracNs + 1) % NanosPerMs]

\* Mutant: the carry comes one nanosecond late.
SuccessorLateCarry(t) ==
    IF t.fracNs = NanosPerMs
    THEN [ms |-> t.ms + 1, fracNs |-> 0]
    ELSE [ms |-> t.ms, fracNs |-> t.fracNs + 1]

\* One nanosecond after t, carried into the millisecond.
Successor(t) ==
    IF t.fracNs + 1 = NanosPerMs
    THEN [ms |-> t.ms + 1, fracNs |-> 0]
    ELSE [ms |-> t.ms, fracNs |-> t.fracNs + 1]

\* Mutant: a reading equal to the last timestamp is let through.
ForcedUnlessEarlier(r) ==
    IF r.ms < lastMs \/ (r.ms = lastMs /\ r.fracNs < lastFracNs)
    THEN Successor(LastTimestamp)
    ELSE [ms |-> r.ms, fracNs |-> r.fracNs]

\* The reading, unless it is not past the last timestamp.
Forced(r) ==
    IF r.ms < lastMs \/ (r.ms = lastMs /\ r.fracNs <= lastFracNs)
    THEN Successor(LastTimestamp)
    ELSE [ms |-> r.ms, fracNs |-> r.fracNs]

\* One call of nowIso().
NowIso ==
    LET r == Reading
        t == Forced(r)
    IN  /\ lastMs < MaxMs
        /\ lastMs' = t.ms
        /\ lastFracNs' = t.fracNs
        /\ IF r.reanchor
           THEN wallAnchorMs' = wall /\ monoAnchorNs' = mono
           ELSE UNCHANGED <<wallAnchorMs, monoAnchorNs>>
        /\ high' = t
        /\ parity' = ~ parity
        /\ UNCHANGED <<envVars, skewed>>

\* The process restarts: nothing of the clock is persisted.
Restart ==
    /\ LoadModule
    /\ skewed' = (skewed \/ wall <= high.ms)
    /\ UNCHANGED <<envVars, high, parity>>

AdvanceMono ==
    /\ mono < MaxMono
    /\ \E m \in mono + 1 .. MaxMono : mono' = m
    /\ UNCHANGED <<wall, clockVars, high, skewed, parity>>

\* The wall clock ticks, or is stepped forwards or backwards.
StepWall ==
    /\ \E w \in 1 .. MaxWall : wall' = w
    /\ UNCHANGED <<mono, clockVars, high, skewed, parity>>

Next == NowIso \/ Restart \/ AdvanceMono \/ StepWall

Spec == Init /\ [][Next]_vars

-----------------------------------------------------------------------------
(* Properties *)

\* Every timestamp a process issues is later than all it issued before, and
\* later than those of the processes before it as long as each process found
\* the wall clock past the last timestamp issued when it started: this is
\* what makes a timestamp usable as a version token and as a cursor.
StrictlyIncreasing == [][parity' # parity /\ ~ skewed => Before(high, high')]_vars

\* Within one process the order holds whatever the wall clock does, a
\* restart with a wall clock that went back included.
IncreasingInProcess ==
    [][parity' # parity => Before(LastTimestamp, LastTimestamp')]_vars

\* A timestamp is never behind the wall clock read for it: the re-anchoring
\* of nowParts, which the forcing upward must not undo.
NeverBehindWall == [][parity' # parity => lastMs' >= wall]_vars

=============================================================================
