---------------------------- MODULE ClockProofs ----------------------------
(***************************************************************************)
(* The server clock, for every NanosPerMs: each timestamp is later than    *)
(* the ones before it.                                                     *)
(***************************************************************************)
EXTENDS Clock, TLAPS

\* Division by a positive number leaves a remainder below it: what keeps the
\* nanoseconds of a timestamp within their fixed width.
LEMMA Division ==
    ASSUME NEW n \in Nat
    PROVE  /\ n \div NanosPerMs \in Nat
           /\ n % NanosPerMs \in 0 .. NanosPerMs - 1
  BY ClockAssumption

\* A reading is a timestamp, at or past the anchor and the wall clock.
LEMMA ReadingType ==
    ASSUME TypeOK
    PROVE  /\ Reading.ms \in Nat
           /\ Reading.fracNs \in 0 .. NanosPerMs - 1
           /\ Reading.ms >= wallAnchorMs
           /\ Reading.ms >= wall
           /\ Reading.reanchor \in BOOLEAN
  <1> DEFINE elapsedNs == mono - monoAnchorNs
             q == elapsedNs \div NanosPerMs
             r == elapsedNs % NanosPerMs
  <1>1. elapsedNs \in Nat
    BY DEF TypeOK
  <1>2. q \in Nat /\ r \in 0 .. NanosPerMs - 1
    BY <1>1, Division
  <1>3. Reading = IF wall > wallAnchorMs + q
                  THEN [ms |-> wall, fracNs |-> 0, reanchor |-> TRUE]
                  ELSE [ms |-> wallAnchorMs + q, fracNs |-> r, reanchor |-> FALSE]
    BY DEF Reading
  <1> HIDE DEF q, r
  <1>4. CASE wall > wallAnchorMs + q
    <2>1. Reading = [ms |-> wall, fracNs |-> 0, reanchor |-> TRUE]
      BY <1>3, <1>4
    <2>2. QED
      BY <2>1, <1>2, <1>4, ClockAssumption DEF TypeOK
  <1>5. CASE ~(wall > wallAnchorMs + q)
    <2>1. Reading = [ms |-> wallAnchorMs + q, fracNs |-> r, reanchor |-> FALSE]
      BY <1>3, <1>5
    <2>2. QED
      BY <2>1, <1>2, <1>5 DEF TypeOK
  <1>6. QED
    BY <1>4, <1>5

\* What nowParts returns: a timestamp, later than the last one, and not
\* before the reading.
LEMMA ForcedLater ==
    ASSUME TypeOK
    PROVE  /\ Forced(Reading) \in Timestamp
           /\ Before(LastTimestamp, Forced(Reading))
           /\ Forced(Reading).ms >= Reading.ms
  <1>1. /\ Reading.ms \in Nat
        /\ Reading.fracNs \in 0 .. NanosPerMs - 1
    BY ReadingType
  <1>2. CASE Reading.ms < lastMs \/ (Reading.ms = lastMs /\ Reading.fracNs <= lastFracNs)
    <2>1. Forced(Reading) = Successor(LastTimestamp)
      BY <1>2 DEF Forced
    <2>2. CASE lastFracNs + 1 = NanosPerMs
      <3>1. Forced(Reading) = [ms |-> lastMs + 1, fracNs |-> 0]
        BY <2>1, <2>2 DEF Successor, LastTimestamp
      <3>2. QED
        BY <3>1, <1>1, <1>2, ClockAssumption DEF TypeOK, Timestamp, Before, LastTimestamp
    <2>3. CASE lastFracNs + 1 # NanosPerMs
      <3>1. Forced(Reading) = [ms |-> lastMs, fracNs |-> lastFracNs + 1]
        BY <2>1, <2>3 DEF Successor, LastTimestamp
      <3>2. lastFracNs + 1 \in 0 .. NanosPerMs - 1
        BY <2>3, ClockAssumption DEF TypeOK
      <3>3. QED
        BY <3>1, <3>2, <1>1, <1>2 DEF TypeOK, Timestamp, Before, LastTimestamp
    <2>4. QED
      BY <2>2, <2>3
  <1>3. CASE ~(Reading.ms < lastMs \/ (Reading.ms = lastMs /\ Reading.fracNs <= lastFracNs))
    <2>1. Forced(Reading) = [ms |-> Reading.ms, fracNs |-> Reading.fracNs]
      BY <1>3 DEF Forced
    <2>2. QED
      BY <2>1, <1>1, <1>3, ClockAssumption DEF TypeOK, Timestamp, Before, LastTimestamp
  <1>4. QED
    BY <1>2, <1>3

\* The state of the clock is well typed: a fraction never needs a tenth digit.
THEOREM TypeCorrect == Spec => []TypeOK
  <1>1. Init => TypeOK
    <2> SUFFICES ASSUME Init
                 PROVE  TypeOK
      OBVIOUS
    <2>1. 0 \in 0 .. NanosPerMs - 1
      BY ClockAssumption
    <2>2. high \in Timestamp /\ skewed \in BOOLEAN /\ parity \in BOOLEAN
      BY <2>1 DEF Init, Timestamp
    <2>3. wall \in Nat /\ mono \in Nat
      BY ClockAssumption DEF Init
    <2>4. QED
      BY <2>1, <2>2, <2>3 DEF Init, TypeOK
  <1>2. TypeOK /\ [Next]_vars => TypeOK'
    <2> SUFFICES ASSUME TypeOK, [Next]_vars
                 PROVE  TypeOK'
      OBVIOUS
    <2>1. CASE NowIso
      <3> DEFINE t == Forced(Reading)
      <3>1. t \in Timestamp
        BY ForcedLater
      <3> HIDE DEF t
      <3>2. t.ms \in Nat /\ t.fracNs \in 0 .. NanosPerMs - 1
        BY <3>1 DEF Timestamp
      <3>3. /\ lastMs' = t.ms /\ lastFracNs' = t.fracNs /\ high' = t
            /\ UNCHANGED <<wall, mono, skewed>> /\ parity' = ~ parity
            /\ \/ wallAnchorMs' = wall /\ monoAnchorNs' = mono
               \/ UNCHANGED <<wallAnchorMs, monoAnchorNs>>
        BY <2>1 DEF NowIso, envVars, t
      <3>4. QED
        BY <3>1, <3>2, <3>3 DEF TypeOK
    <2>2. CASE Restart
      BY <2>2, ClockAssumption DEF Restart, LoadModule, envVars, TypeOK
    <2>3. CASE AdvanceMono
      BY <2>3, ClockAssumption DEF AdvanceMono, clockVars, TypeOK
    <2>4. CASE StepWall
      BY <2>4, ClockAssumption DEF StepWall, clockVars, TypeOK
    <2>5. CASE UNCHANGED vars
      BY <2>5 DEF vars, TypeOK
    <2>6. QED
      BY <2>1, <2>2, <2>3, <2>4, <2>5 DEF Next
  <1>3. QED
    BY <1>1, <1>2, PTL DEF Spec

\* What relates the state of the running process to the timestamps of its
\* predecessors: the process has issued the last one itself, or it has issued
\* none yet and its anchor is past it.
HighInv ==
    ~skewed => \/ high = LastTimestamp
               \/ lastMs = 0 /\ lastFracNs = 0 /\ wallAnchorMs > high.ms

IInv == TypeOK /\ HighInv

\* A process that issues a timestamp issues one later than high.
LEMMA NowIsoLater ==
    ASSUME IInv, NowIso, ~skewed
    PROVE  Before(high, high')
  <1> DEFINE t == Forced(Reading)
  <1>1. /\ t \in Timestamp
        /\ Before(LastTimestamp, t)
        /\ t.ms >= Reading.ms
    BY ForcedLater DEF IInv
  <1>2. Reading.ms \in Nat /\ Reading.ms >= wallAnchorMs
    BY ReadingType DEF IInv
  <1>3. high' = t
    BY DEF NowIso
  <1> HIDE DEF t
  <1>4. CASE high = LastTimestamp
    BY <1>1, <1>3, <1>4
  <1>5. CASE wallAnchorMs > high.ms
    BY <1>1, <1>2, <1>3, <1>5 DEF Before, Timestamp, IInv, TypeOK
  <1>6. QED
    BY <1>4, <1>5 DEF IInv, HighInv

\* The invariant is inductive.
LEMMA Invariance == Spec => []IInv
  <1>1. Init => HighInv
    BY DEF Init, HighInv, LastTimestamp
  <1>2. TypeOK /\ HighInv /\ [Next]_vars => HighInv'
    <2> SUFFICES ASSUME IInv, [Next]_vars
                 PROVE  HighInv'
      BY DEF IInv
    <2>1. CASE NowIso
      <3> DEFINE t == Forced(Reading)
      <3>1. t \in Timestamp
        BY ForcedLater DEF IInv
      <3>2. lastMs' = t.ms /\ lastFracNs' = t.fracNs /\ high' = t
        BY <2>1 DEF NowIso
      <3> HIDE DEF t
      <3>3. QED
        BY <3>1, <3>2 DEF HighInv, LastTimestamp, Timestamp
    <2>2. CASE Restart
      <3> SUFFICES ASSUME ~(skewed')
                   PROVE  lastMs' = 0 /\ lastFracNs' = 0 /\ wallAnchorMs' > high'.ms
        BY DEF HighInv
      <3>1. ~(wall <= high.ms)
        BY <2>2, Zenon DEF Restart
      <3>2. wall > high.ms
        BY <3>1 DEF IInv, TypeOK, Timestamp
      <3>3. QED
        BY <2>2, <3>2 DEF Restart, LoadModule
    <2>3. CASE AdvanceMono
      BY <2>3 DEF AdvanceMono, clockVars, IInv, HighInv, LastTimestamp
    <2>4. CASE StepWall
      BY <2>4 DEF StepWall, clockVars, IInv, HighInv, LastTimestamp
    <2>5. CASE UNCHANGED vars
      BY <2>5 DEF vars, IInv, HighInv, LastTimestamp
    <2>6. QED
      BY <2>1, <2>2, <2>3, <2>4, <2>5 DEF Next
  <1>3. QED
    BY <1>1, <1>2, TypeCorrect, PTL DEF Spec, IInv

\* Timestamps increase, across restarts too as long as no process starts with
\* its wall clock behind the timestamps already issued.
THEOREM TimestampsIncrease == Spec => StrictlyIncreasing
  <1>1. IInv /\ [Next]_vars => [parity' # parity /\ ~ skewed => Before(high, high')]_vars
    <2> SUFFICES ASSUME IInv, Next, parity' # parity, ~ skewed
                 PROVE  Before(high, high')
      OBVIOUS
    <2>1. NowIso
      BY DEF Next, Restart, AdvanceMono, StepWall
    <2>2. QED
      BY <2>1, NowIsoLater
  <1>2. QED
    BY <1>1, Invariance, PTL DEF Spec, StrictlyIncreasing

\* Within a process timestamps increase whatever the wall clock does.
THEOREM ProcessTimestampsIncrease == Spec => IncreasingInProcess
  <1>1. TypeOK /\ [Next]_vars => [parity' # parity => Before(LastTimestamp, LastTimestamp')]_vars
    <2> SUFFICES ASSUME TypeOK, Next, parity' # parity
                 PROVE  Before(LastTimestamp, LastTimestamp')
      OBVIOUS
    <2> NowIso
      BY DEF Next, Restart, AdvanceMono, StepWall
    <2>1. Forced(Reading) \in Timestamp /\ Before(LastTimestamp, Forced(Reading))
      BY ForcedLater
    <2>2. LastTimestamp'.ms = Forced(Reading).ms /\ LastTimestamp'.fracNs = Forced(Reading).fracNs
      BY DEF NowIso, LastTimestamp
    <2>3. QED
      BY <2>1, <2>2 DEF Before
  <1>2. QED
    BY <1>1, TypeCorrect, PTL DEF Spec, IncreasingInProcess

\* A timestamp is never behind the wall clock read for it: forcing the
\* sequence upward does not undo the re-anchoring.
THEOREM TimestampsFollowTheWall == Spec => NeverBehindWall
  <1>1. TypeOK /\ [Next]_vars => [parity' # parity => lastMs' >= wall]_vars
    <2> SUFFICES ASSUME TypeOK, Next, parity' # parity
                 PROVE  lastMs' >= wall
      OBVIOUS
    <2> NowIso
      BY DEF Next, Restart, AdvanceMono, StepWall
    <2>1. /\ Reading.ms \in Nat
          /\ Reading.ms >= wall
          /\ Forced(Reading) \in Timestamp
          /\ Forced(Reading).ms >= Reading.ms
      BY ReadingType, ForcedLater
    <2>2. lastMs' = Forced(Reading).ms
      BY DEF NowIso
    <2>3. QED
      BY <2>1, <2>2 DEF Timestamp, TypeOK
  <1>2. QED
    BY <1>1, TypeCorrect, PTL DEF Spec, NeverBehindWall

=============================================================================
