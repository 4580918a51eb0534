------------------------------- MODULE WebProofs -------------------------------
(***************************************************************************)
(* What is proved of the web builder: of its saves (MCBuilder), of what is *)
(* dragged on its canvas (MCCanvas), and of what it shows (MCSelection).   *)
(*                                                                         *)
(* BuilderInv is the inductive invariant of the saves.  A step of the      *)
(* builder does one of the few things Does lists to what the canvas will   *)
(* show (Seen): the effect, the render and the queue only move what was    *)
(* decided.  The first parts are about Replay, the difference a save is    *)
(* written as, and its order; the next about what each thing done keeps.   *)
(*                                                                         *)
(* CanvasInv is that of the canvas.  The graph is seen as places that hold *)
(* rows (Held): a drop takes a row out of the one place that holds it and  *)
(* puts it in another.                                                     *)
(*                                                                         *)
(* CameraInv and SelectionInv are those of what is shown: the view is in   *)
(* step with what is painted, and the history with what is selected.       *)
(***************************************************************************)
EXTENDS MCBuilder, MCCanvas, MCSelection, FiniteSetTheorems, SequenceTheorems, WellFoundedInduction, TLAPS

-----------------------------------------------------------------------------
(* Counting up, and what is defined by it *)

\* A bounded set of numbers that is not empty has a greatest one.
LEMMA Greatest ==
    ASSUME NEW S \in SUBSET Nat, S # {}, NEW n \in Nat, \A x \in S : x <= n
    PROVE  \E m \in S : \A x \in S : m >= x
  <1> DEFINE above(x) == {y \in 0 .. n : y > x}
             all      == {above(x) : x \in S}
  <1>1. IsFiniteSet(0 .. n)
    BY FS_Interval
  <1>2. all \in SUBSET (SUBSET (0 .. n)) /\ all # {}
    <2>1. \A x \in S : above(x) \in SUBSET (0 .. n)
      OBVIOUS
    <2> HIDE DEF above
    <2>2. QED
      BY <2>1
  <1>3. PICK a \in all : \A b \in all : ~ (<<b, a>> \in StrictSubsetOrdering(0 .. n))
    <2> HIDE DEF all
    <2>1. all \subseteq FiniteSubsetsOf(0 .. n)
      BY <1>1, <1>2, FS_FiniteSubsetsOfFinite
    <2>2. IsWellFoundedOn(StrictSubsetOrdering(0 .. n), FiniteSubsetsOf(0 .. n))
      BY FS_StrictSubsetOrderingWellFounded
    <2>3. QED
      BY <1>2, <2>1, <2>2, WFMin
  <1>4. PICK m \in S : a = above(m)
    OBVIOUS
  <1>5. \A x \in S : m >= x
    <2> SUFFICES ASSUME NEW x \in S, x > m PROVE FALSE
      OBVIOUS
    <2>1. above(x) \subseteq above(m) /\ x \in above(m) /\ x \notin above(x)
      OBVIOUS
    <2>2. above(x) \in all /\ above(x) # above(m)
      BY <2>1
    <2>3. <<above(x), a>> \in StrictSubsetOrdering(0 .. n)
      <3> HIDE DEF above
      <3>1. above(x) \in SUBSET (0 .. n) /\ a \in SUBSET (0 .. n)
        BY <1>2, <2>2
      <3>2. QED
        BY <1>4, <2>1, <2>2, <3>1 DEF StrictSubsetOrdering
    <2>4. QED
      BY <1>3, <2>2, <2>3
  <1>6. QED
    BY <1>5

\* Who starts at 0 and goes on from each number to the next passes them all.
LEMMA CountingUp ==
    ASSUME NEW n \in Nat, NEW S, 0 \in S, \A k \in 0 .. n - 1 : k \in S => k + 1 \in S
    PROVE  0 .. n \subseteq S
  <1> SUFFICES ASSUME NEW x \in 0 .. n, x \notin S PROVE FALSE
    OBVIOUS
  <1> DEFINE below == {y \in 0 .. x : y \in S}
  <1>1. x \in Nat /\ below \in SUBSET Nat /\ below # {} /\ \A y \in below : y <= x
    OBVIOUS
  <1> HIDE DEF below
  <1>2. PICK m \in below : \A y \in below : m >= y
    BY <1>1, Greatest
  <1>3. m \in 0 .. x /\ m \in S /\ m # x
    BY DEF below
  <1>4. m + 1 \in below
    BY <1>3 DEF below
  <1>5. QED
    BY <1>2, <1>3, <1>4

\* What is defined of a number by what it is of the one before: there is such
\* a function, and one only.
LEMMA OneOfThem ==
    ASSUME NEW n \in Nat, NEW f, NEW g,
           f = [k \in 0 .. n |-> f[k]], g = [k \in 0 .. n |-> g[k]],
           f[0] = g[0], \A k \in 0 .. n - 1 : f[k] = g[k] => f[k + 1] = g[k + 1]
    PROVE  f = g
  <1> DEFINE S == {k \in 0 .. n : f[k] = g[k]}
  <1>1. 0 \in S /\ \A k \in 0 .. n - 1 : k \in S => k + 1 \in S
    <2>1. \A k : k \in S <=> k \in 0 .. n /\ f[k] = g[k]
      OBVIOUS
    <2>2. 0 \in 0 .. n /\ \A k \in 0 .. n - 1 : k + 1 \in 0 .. n
      OBVIOUS
    <2> HIDE DEF S
    <2>3. QED
      BY <2>1, <2>2, Zenon
  <1> HIDE DEF S
  <1>2. 0 .. n \subseteq S
    BY <1>1, CountingUp
  <1>3. \A k \in 0 .. n : f[k] = g[k]
    BY <1>2 DEF S
  <1>4. [k \in 0 .. n |-> f[k]] = [k \in 0 .. n |-> g[k]]
    BY <1>3
  <1>5. QED
    BY <1>4

Steps(n, X) == [(1 .. n) \X X -> X]
Goes(f, a, n, step, X) ==
    f \in [0 .. n -> X] /\ f[0] = a /\ \A k \in 1 .. n : f[k] = step[<<k, f[k - 1]>>]

LEMMA Recursion ==
    ASSUME NEW X, NEW a \in X, NEW n \in Nat, NEW step \in Steps(n, X)
    PROVE  \E f : Goes(f, a, n, step, X)
  <1> DEFINE Runs(f, m) == f[0] = a /\ \A k \in 1 .. m : f[k] = step[<<k, f[k - 1]>>]
             S == {m \in 0 .. n : \E f \in [0 .. m -> X] : Runs(f, m)}
  <1>1. 0 \in S
    <2>1. [k \in 0 .. 0 |-> a] \in [0 .. 0 -> X] /\ Runs([k \in 0 .. 0 |-> a], 0)
      OBVIOUS
    <2> HIDE DEF Runs
    <2>2. QED
      BY <2>1
  <1>2. ASSUME NEW m \in 0 .. n - 1, m \in S PROVE m + 1 \in S
    <2>1. PICK f \in [0 .. m -> X] : Runs(f, m)
      BY <1>2
    <2> DEFINE g == [k \in 0 .. m + 1 |-> IF k = m + 1 THEN step[<<m + 1, f[m]>>] ELSE f[k]]
    <2>2. g \in [0 .. m + 1 -> X]
      BY DEF Steps
    <2>3. m \in 0 .. m /\ \A k \in 0 .. m : g[k] = f[k]
      OBVIOUS
    <2>4. g[m + 1] = step[<<m + 1, g[m]>>]
      <3>1. g[m + 1] = step[<<m + 1, f[m]>>]
        OBVIOUS
      <3> HIDE DEF g
      <3>2. QED
        BY <2>3, <3>1
    <2>5. Runs(g, m + 1)
      <3> HIDE DEF g
      <3>1. \A k \in 1 .. m : g[k] = step[<<k, g[k - 1]>>]
        BY <2>1, <2>3
      <3>2. g[0] = a /\ (m + 1) - 1 = m
        BY <2>1, <2>3
      <3>3. \A k \in 1 .. m + 1 : k \in 1 .. m \/ k = m + 1
        OBVIOUS
      <3>4. QED
        BY <2>4, <3>1, <3>2, <3>3
    <2> HIDE DEF Runs, g
    <2>6. QED
      BY <2>2, <2>5
  <1> HIDE DEF S
  <1>3. 0 .. n \subseteq S
    BY <1>1, <1>2, CountingUp
  <1>4. \E f \in [0 .. n -> X] : Runs(f, n)
    BY <1>3 DEF S
  <1>5. QED
    BY <1>4 DEF Goes

-----------------------------------------------------------------------------
(* The maps of the builder *)

Records  == [content : Nat, refs : SUBSET RowRecords, stamp : Nat]
Maps     == [Built!Record -> Records]
Messages == [kind : {"push", "reply", "error"}, id : Built!Record, record : Records]
Writes   == [op : {"create", "update", "delete"}, id : Built!Record, record : Records]
Saves    == [previous : Maps, next : Maps]

LEMMA NoRecord ==
    /\ Built!Absent \in Records /\ Built!Deleted \in Records
    /\ ~ Built!Is(Built!Absent) /\ ~ Built!Is(Built!Deleted)
    /\ Built!Deleted.refs = {} /\ Built!Deleted.stamp = 1 /\ Built!Deleted.content = 0
    /\ Built!Absent.refs = {} /\ Built!Absent.stamp = 0 /\ Built!Absent.content = 0
  BY DEF Records, Built!Absent, Built!Deleted, Built!Is

\* A remote change is about one record: of the others the maps keep theirs.
LEMMA Applying ==
    ASSUME NEW m \in Maps, NEW c \in Messages
    PROVE  /\ Built!ApplyRemoteRecord(m, c) \in Maps
           /\ \A x \in Built!Record : x # c.id => Built!ApplyRemoteRecord(m, c)[x] = m[x]
           /\ Built!ApplyRemoteRecord(m, c)[c.id] =
                 IF ~ Built!Is(c.record) THEN Built!Absent
                 ELSE IF Built!Is(m[c.id]) /\ m[c.id].stamp >= c.record.stamp THEN m[c.id]
                 ELSE c.record
  <1>1. c.id \in Built!Record /\ c.record \in Records
    BY DEF Messages
  <1>2. QED
    BY <1>1, NoRecord DEF Maps, Built!ApplyRemoteRecord

\* What Replay computes, one change after the other.
Replays(f, m, s) ==
    f = [i \in 0 .. Len(s) |-> IF i = 0 THEN m ELSE Built!ApplyRemoteRecord(f[i - 1], s[i])]

LEMMA ReplaysIs ==
    ASSUME NEW m \in Maps, NEW s \in Seq(Messages), NEW f, Replays(f, m, s)
    PROVE  /\ f[0] = m
           /\ \A i \in 1 .. Len(s) : f[i] = Built!ApplyRemoteRecord(f[i - 1], s[i])
           /\ \A i \in 0 .. Len(s) : f[i] \in Maps
           /\ Built!Replay(m, s) = f[Len(s)]
  <1>1. Len(s) \in Nat
    OBVIOUS
  <1> DEFINE n == Len(s)
  <1> HIDE DEF n
  <1>2. f = [i \in 0 .. n |-> IF i = 0 THEN m ELSE Built!ApplyRemoteRecord(f[i - 1], s[i])]
    BY DEF n, Replays
  <1>3. f[0] = m /\ \A i \in 1 .. n : f[i] = Built!ApplyRemoteRecord(f[i - 1], s[i])
    BY <1>1, <1>2 DEF n
  <1>4. \A i \in 0 .. n : f[i] \in Maps
    <2> DEFINE S == {i \in 0 .. n : f[i] \in Maps}
    <2>1. 0 \in S
      BY <1>1, <1>3 DEF n
    <2>2. ASSUME NEW k \in 0 .. n - 1, k \in S PROVE k + 1 \in S
      <3>1. k + 1 \in 1 .. n /\ (k + 1) - 1 = k /\ s[k + 1] \in Messages
        BY <1>1 DEF n
      <3>2. f[k + 1] = Built!ApplyRemoteRecord(f[k], s[k + 1])
        BY <1>3, <3>1
      <3>3. f[k + 1] \in Maps
        BY <2>2, <3>1, <3>2, Applying
      <3>4. QED
        BY <3>1, <3>3
    <2> HIDE DEF S
    <2>3. 0 .. n \subseteq S
      BY <1>1, <2>1, <2>2, CountingUp DEF n
    <2>4. QED
      BY <2>3 DEF S
  <1>5. Built!Replay(m, s) = f[n]
    <2> DEFINE R(g) == g = [i \in 0 .. Len(s) |->
                              IF i = 0 THEN m ELSE Built!ApplyRemoteRecord(g[i - 1], s[i])]
               h == CHOOSE g : R(g)
    <2>1. Built!Replay(m, s) = h[n]
      BY DEF Built!Replay, n
    <2>2. R(f)
      BY DEF Replays
    <2>3. R(h)
      <3> HIDE DEF R
      <3>1. QED
        BY <2>2
    <2> HIDE DEF h
    <2>4. f = h
      <3>1. h = [i \in 0 .. n |-> IF i = 0 THEN m ELSE Built!ApplyRemoteRecord(h[i - 1], s[i])]
        BY <2>3 DEF n
      <3> HIDE DEF R
      <3>2. h[0] = m /\ \A i \in 1 .. n : h[i] = Built!ApplyRemoteRecord(h[i - 1], s[i])
        BY <1>1, <3>1 DEF n
      <3>3. f = [i \in 0 .. n |-> f[i]] /\ h = [i \in 0 .. n |-> h[i]]
        BY <1>2, <3>1
      <3>4. \A i \in 0 .. n - 1 : i + 1 \in 1 .. n /\ (i + 1) - 1 = i
        BY <1>1 DEF n
      <3>5. \A i \in 0 .. n - 1 : f[i] = h[i] => f[i + 1] = h[i + 1]
        BY <1>3, <3>2, <3>4
      <3>6. f[0] = h[0] /\ n \in Nat
        BY <1>1, <1>3, <3>2 DEF n
      <3>7. QED
        BY <3>3, <3>5, <3>6, OneOfThem
    <2>5. QED
      BY <2>1, <2>4
  <1>6. QED
    BY <1>3, <1>4, <1>5 DEF n

LEMMA ReplaysExist ==
    ASSUME NEW m \in Maps, NEW s \in Seq(Messages)
    PROVE  \E f : Replays(f, m, s)
  <1> DEFINE n == Len(s)
             step == [q \in (1 .. n) \X Maps |-> Built!ApplyRemoteRecord(q[2], s[q[1]])]
  <1>1. n \in Nat
    OBVIOUS
  <1> HIDE DEF n
  <1>2. \A i \in 1 .. n, x \in Maps : Built!ApplyRemoteRecord(x, s[i]) \in Maps
    BY Applying DEF n
  <1>3. step \in Steps(n, Maps)
    BY <1>2 DEF Steps
  <1>4. \A i \in 1 .. n, x \in Maps : step[<<i, x>>] = Built!ApplyRemoteRecord(x, s[i])
    OBVIOUS
  <1> HIDE DEF step
  <1>5. PICK f : Goes(f, m, n, step, Maps)
    BY <1>1, <1>3, Recursion
  <1>6. \A k \in 1 .. n : k - 1 \in 0 .. n /\ f[k] = Built!ApplyRemoteRecord(f[k - 1], s[k])
    BY <1>1, <1>4, <1>5 DEF Goes
  <1>7. \A k \in 0 .. n : f[k] = IF k = 0 THEN m ELSE Built!ApplyRemoteRecord(f[k - 1], s[k])
    BY <1>1, <1>5, <1>6 DEF Goes
  <1>8. f = [k \in 0 .. n |-> IF k = 0 THEN m ELSE Built!ApplyRemoteRecord(f[k - 1], s[k])]
    BY <1>5, <1>7 DEF Goes
  <1>9. QED
    BY <1>8 DEF Replays, n

LEMMA ReplayNothing == \A m \in Maps : Built!Replay(m, << >>) = m
  <1> SUFFICES ASSUME NEW m \in Maps PROVE Built!Replay(m, << >>) = m
    OBVIOUS
  <1>1. << >> \in Seq(Messages) /\ Len(<< >>) = 0
    OBVIOUS
  <1>2. PICK f : Replays(f, m, << >>)
    BY <1>1, ReplaysExist
  <1>3. QED
    BY <1>1, <1>2, ReplaysIs

LEMMA ReplayOneMore ==
    ASSUME NEW m \in Maps, NEW s \in Seq(Messages), NEW c \in Messages
    PROVE  /\ Built!Replay(m, s) \in Maps
           /\ Built!Replay(m, Append(s, c)) = Built!ApplyRemoteRecord(Built!Replay(m, s), c)
  <1> DEFINE n == Len(s)
             t == Append(s, c)
  <1>1. PICK f : Replays(f, m, t)
    <2>1. t \in Seq(Messages)
      OBVIOUS
    <2>2. QED
      BY <2>1, ReplaysExist
  <1>2. n \in Nat /\ Len(t) = n + 1 /\ t[n + 1] = c /\ \A i \in 1 .. n : t[i] = s[i]
    OBVIOUS
  <1> HIDE DEF t
  <1>3. /\ f[0] = m /\ f[n + 1] = Built!ApplyRemoteRecord(f[n], c)
        /\ \A i \in 1 .. n : f[i] = Built!ApplyRemoteRecord(f[i - 1], s[i])
        /\ f[n] \in Maps /\ Built!Replay(m, t) = f[n + 1]
    <2>1. t \in Seq(Messages)
      BY DEF t
    <2>2. /\ f[0] = m
          /\ \A i \in 1 .. n + 1 : f[i] = Built!ApplyRemoteRecord(f[i - 1], t[i])
          /\ \A i \in 0 .. n + 1 : f[i] \in Maps
          /\ Built!Replay(m, t) = f[n + 1]
      BY <1>1, <1>2, <2>1, ReplaysIs
    <2>3. n + 1 \in 1 .. n + 1 /\ (n + 1) - 1 = n /\ n \in 0 .. n + 1 /\ 1 .. n \subseteq 1 .. n + 1
      BY <1>2
    <2> HIDE DEF n
    <2>4. QED
      BY <1>2, <2>2, <2>3
  <1> DEFINE g == [i \in 0 .. n |-> f[i]]
  <1>4. Replays(g, m, s)
    <2>1. \A i \in 0 .. n : g[i] = IF i = 0 THEN m ELSE Built!ApplyRemoteRecord(g[i - 1], s[i])
      <3>1. \A i \in 0 .. n : i = 0 \/ (i \in 1 .. n /\ i - 1 \in 0 .. n)
        BY <1>2
      <3> HIDE DEF n
      <3>2. \A i \in 0 .. n : g[i] = f[i]
        OBVIOUS
      <3> HIDE DEF g
      <3>3. QED
        BY <1>3, <3>1, <3>2
    <2>2. QED
      BY <2>1 DEF Replays
  <1>5. Built!Replay(m, s) = g[n] /\ g[n] = f[n]
    BY <1>2, <1>4, ReplaysIs
  <1>6. QED
    BY <1>3, <1>5 DEF t

BuilderTypes ==
    /\ setting \in Built!Setting
    /\ clock \in Nat \ {0} /\ table \in Maps /\ versions \in [Built!Record -> Nat]
    /\ local \in Maps /\ previous \in Maps
    /\ actions \in Seq(Messages) /\ applied \in Seq(Messages) /\ effect \in BOOLEAN
    /\ saves \in Seq(Saves) /\ writes \in Seq(Writes) /\ sent \in BOOLEAN
    /\ inbox \in Seq(Messages) /\ refused \in Nat
    /\ bounds \in [edits : Nat, others : Nat, faults : Nat, losses : Nat]

\* What was written to the api, or edited, by now.
Unapplied == IF sent THEN Tail(writes) ELSE writes

\* The instances' operators on sets are those of the library.
LEMMA SameCounting ==
    \A S : /\ Built!Cardinality(S) = Cardinality(S) /\ Built!IsFiniteSet(S) = IsFiniteSet(S)
  <1> SUFFICES ASSUME NEW S
               PROVE  /\ Built!Cardinality(S) = Cardinality(S) /\ Built!IsFiniteSet(S) = IsFiniteSet(S)
    OBVIOUS
  <1>1. Built!Cardinality(S) = Cardinality(S)
    BY DEF Built!Cardinality, Cardinality
  <1>2. QED
    BY <1>1 DEF Built!IsFiniteSet, IsFiniteSet

LEMMA BuilderConstants ==
    /\ PageRecord \notin RowRecords /\ FirstRecords \subseteq RowRecords /\ IsFiniteSet(RowRecords)
    /\ Settings \subseteq Built!Setting /\ MaxStamps \in 2 .. 1000
    /\ Built!Record = {PageRecord} \cup RowRecords /\ PageRecord \in Built!Record
  BY BuiltAssumption, SameCounting DEF Built!BuilderAssumption, Built!Record, Built!Ahead

\* A finite set as a sequence: each of its elements once.
LEMMA Listing ==
    ASSUME NEW S, IsFiniteSet(S)
    PROVE  /\ Built!SetToSeq(S) \in Seq(S)
           /\ Len(Built!SetToSeq(S)) = Cardinality(S) /\ Cardinality(S) \in Nat
           /\ \A x \in S : \E i \in 1 .. Cardinality(S) : Built!SetToSeq(S)[i] = x
           /\ \A i, j \in 1 .. Cardinality(S) : Built!SetToSeq(S)[i] = Built!SetToSeq(S)[j] => i = j
  <1> DEFINE n == Cardinality(S)
             s == CHOOSE f \in [1 .. n -> S] : Built!IsInjective(f)
  <1>1. n \in Nat /\ ExistsBijection(1 .. n, S)
    BY FS_CardinalityType
  <1>2. Built!SetToSeq(S) = s
    BY SameCounting DEF Built!SetToSeq
  <1> HIDE DEF n
  <1>3. \E f \in [1 .. n -> S] : Built!IsInjective(f)
    <2>1. PICK f \in Bijection(1 .. n, S) : TRUE
      BY <1>1 DEF ExistsBijection
    <2>2. f \in [1 .. n -> S] /\ \A a, b \in 1 .. n : f[a] = f[b] => a = b
      BY <2>1 DEF Bijection, Injection, IsInjective
    <2>3. QED
      BY <2>2 DEF Built!IsInjective
  <1>4. s \in [1 .. n -> S] /\ Built!IsInjective(s)
    BY <1>3
  <1> HIDE DEF s
  <1>5. \A i, j \in 1 .. n : s[i] = s[j] => i = j
    BY <1>4 DEF Built!IsInjective
  <1>6. s \in Surjection(1 .. n, S)
    <2>1. s \in Injection(1 .. n, S)
      BY <1>4, <1>5 DEF Injection, IsInjective
    <2>2. IsFiniteSet(1 .. n) /\ Cardinality(1 .. n) = Cardinality(S)
      BY <1>1, FS_Interval DEF n
    <2>3. QED
      BY <2>1, <2>2, FS_Injection
  <1>7. \A x \in S : \E i \in 1 .. n : s[i] = x
    BY <1>6 DEF Surjection
  <1>8. s \in Seq(S) /\ Len(s) = n
    BY <1>1, <1>4
  <1>9. QED
    BY <1>1, <1>2, <1>5, <1>7, <1>8 DEF n

LEMMA ChangedWrites ==
    ASSUME NEW p \in Maps, NEW n \in Maps, NEW ids \in SUBSET Built!Record
    PROVE  LET s == Built!Changed(p, n, ids)
           IN  /\ s \in Seq(Writes)
               /\ \A i \in 1 .. Len(s) :
                     /\ s[i].op # "delete" /\ s[i].id \in ids /\ s[i].record = n[s[i].id]
                     /\ Built!Is(n[s[i].id]) /\ p[s[i].id].content # n[s[i].id].content
               /\ \A x \in ids : Built!Is(n[x]) /\ p[x].content # n[x].content =>
                     \E i \in 1 .. Len(s) : s[i].id = x
  <1> DEFINE S == {x \in ids : Built!Is(n[x]) /\ p[x].content # n[x].content}
             order == Built!SetToSeq(S)
             k == Cardinality(S)
             s == [i \in 1 .. k |-> Built!Write(p, n, order[i])]
  <1>1. IsFiniteSet(S)
    <2>1. IsFiniteSet(Built!Record)
      BY BuilderConstants, FS_AddElement
    <2>2. S \in SUBSET Built!Record
      OBVIOUS
    <2> HIDE DEF S
    <2>3. QED
      BY <2>1, <2>2, FS_Subset
  <1> HIDE DEF S
  <1>2. /\ order \in Seq(S) /\ Len(order) = k /\ k \in Nat
        /\ \A x \in S : \E i \in 1 .. k : order[i] = x
    BY <1>1, Listing
  <1>3. Built!Changed(p, n, ids) = s
    <2>1. DOMAIN order = 1 .. k
      BY <1>2
    <2>2. Built!Changed(p, n, ids) = [i \in DOMAIN order |-> Built!Write(p, n, order[i])]
      BY DEF Built!Changed, S
    <2>3. QED
      BY <2>1, <2>2
  <1> HIDE DEF order, k
  <1>4. \A x \in S : /\ x \in ids /\ Built!Is(n[x]) /\ p[x].content # n[x].content
                     /\ Built!Write(p, n, x) \in Writes
                     /\ Built!Write(p, n, x).op # "delete" /\ Built!Write(p, n, x).id = x
                     /\ Built!Write(p, n, x).record = n[x]
    BY DEF S, Built!Write, Writes, Maps
  <1>5. \A i \in 1 .. k : order[i] \in S
    BY <1>2
  <1>6. s \in Seq(Writes) /\ Len(s) = k /\ \A i \in 1 .. k : s[i] = Built!Write(p, n, order[i])
    BY <1>2, <1>4, <1>5
  <1> HIDE DEF s
  <1>7. \A i \in 1 .. k : /\ s[i].op # "delete" /\ s[i].id \in ids /\ s[i].record = n[s[i].id]
                          /\ Built!Is(n[s[i].id]) /\ p[s[i].id].content # n[s[i].id].content
    BY <1>4, <1>5, <1>6
  <1>8. ASSUME NEW x \in ids, Built!Is(n[x]), p[x].content # n[x].content
        PROVE  \E i \in 1 .. k : s[i].id = x
    <2>1. x \in S
      BY <1>8 DEF S
    <2>2. QED
      BY <1>2, <1>4, <1>6, <2>1
  <1>9. QED
    BY <1>3, <1>6, <1>7, <1>8

LEMMA MissingWrites ==
    ASSUME NEW p \in Maps, NEW n \in Maps, NEW ids \in SUBSET Built!Record
    PROVE  LET s == Built!Missing(p, n, ids)
           IN  /\ s \in Seq(Writes)
               /\ \A i \in 1 .. Len(s) :
                     /\ s[i].op = "delete" /\ s[i].id \in ids /\ s[i].record = Built!Absent
                     /\ Built!Is(p[s[i].id]) /\ ~ Built!Is(n[s[i].id])
               /\ \A x \in ids : Built!Is(p[x]) /\ ~ Built!Is(n[x]) =>
                     \E i \in 1 .. Len(s) : s[i].id = x
  <1> DEFINE S == {x \in ids : Built!Is(p[x]) /\ ~ Built!Is(n[x])}
             order == Built!SetToSeq(S)
             k == Cardinality(S)
             s == [i \in 1 .. k |-> Built!Delete(order[i])]
  <1>1. IsFiniteSet(S)
    <2>1. IsFiniteSet(Built!Record)
      BY BuilderConstants, FS_AddElement
    <2>2. S \in SUBSET Built!Record
      OBVIOUS
    <2> HIDE DEF S
    <2>3. QED
      BY <2>1, <2>2, FS_Subset
  <1> HIDE DEF S
  <1>2. /\ order \in Seq(S) /\ Len(order) = k /\ k \in Nat
        /\ \A x \in S : \E i \in 1 .. k : order[i] = x
    BY <1>1, Listing
  <1>3. Built!Missing(p, n, ids) = s
    <2>1. DOMAIN order = 1 .. k
      BY <1>2
    <2>2. Built!Missing(p, n, ids) = [i \in DOMAIN order |-> Built!Delete(order[i])]
      BY DEF Built!Missing, S
    <2>3. QED
      BY <2>1, <2>2
  <1> HIDE DEF order, k
  <1>4. \A x \in S : /\ x \in ids /\ Built!Is(p[x]) /\ ~ Built!Is(n[x])
                     /\ Built!Delete(x) \in Writes
                     /\ Built!Delete(x).op = "delete" /\ Built!Delete(x).id = x
                     /\ Built!Delete(x).record = Built!Absent
    BY NoRecord DEF S, Built!Delete, Writes, Maps
  <1>5. \A i \in 1 .. k : order[i] \in S
    BY <1>2
  <1>6. s \in Seq(Writes) /\ Len(s) = k /\ \A i \in 1 .. k : s[i] = Built!Delete(order[i])
    BY <1>2, <1>4, <1>5
  <1> HIDE DEF s
  <1>7. \A i \in 1 .. k : /\ s[i].op = "delete" /\ s[i].id \in ids /\ s[i].record = Built!Absent
                          /\ Built!Is(p[s[i].id]) /\ ~ Built!Is(n[s[i].id])
    BY <1>4, <1>5, <1>6
  <1>8. ASSUME NEW x \in ids, Built!Is(p[x]), ~ Built!Is(n[x])
        PROVE  \E i \in 1 .. k : s[i].id = x
    <2>1. x \in S
      BY <1>8 DEF S
    <2>2. QED
      BY <1>2, <1>4, <1>6, <2>1
  <1>9. QED
    BY <1>3, <1>6, <1>7, <1>8

\* The writes of a save: one of each record that differs, first those of rows,
\* then the only's, then what is gone.
LEMMA WritesOfASave ==
    ASSUME NEW p \in Maps, NEW n \in Maps, NEW w, w = Built!Writes(p, n)
    PROVE  /\ w \in Seq(Writes)
           /\ \A i \in 1 .. Len(w) :
                 LET x == w[i].id
                 IN  IF w[i].op = "delete"
                     THEN w[i].record = Built!Absent /\ Built!Is(p[x]) /\ ~ Built!Is(n[x])
                     ELSE w[i].record = n[x] /\ Built!Is(n[x]) /\ p[x].content # n[x].content
           /\ \A x \in Built!Record : p[x].content # n[x].content =>
                 \E i \in 1 .. Len(w) : w[i].id = x
           /\ \A i, j \in 1 .. Len(w) : i < j =>
                 /\ w[i].op = "delete" => w[j].op = "delete"
                 /\ w[i].id = PageRecord /\ w[j].op # "delete" => w[j].id = PageRecord
  <1> DEFINE A == Built!Changed(p, n, RowRecords)
             B == Built!Changed(p, n, {PageRecord})
             C == Built!Missing(p, n, {PageRecord})
             D == Built!Missing(p, n, RowRecords)
             a == Len(A)
             b == Len(B)
             c == Len(C)
             d == Len(D)
  <1>0. RowRecords \in SUBSET Built!Record /\ {PageRecord} \in SUBSET Built!Record
    BY BuilderConstants
  <1>1. /\ A \in Seq(Writes)
        /\ \A i \in 1 .. a :
              /\ A[i].op # "delete" /\ A[i].id \in RowRecords /\ A[i].record = n[A[i].id]
              /\ Built!Is(n[A[i].id]) /\ p[A[i].id].content # n[A[i].id].content
        /\ \A x \in RowRecords : Built!Is(n[x]) /\ p[x].content # n[x].content =>
              \E i \in 1 .. a : A[i].id = x
    BY <1>0, ChangedWrites
  <1>2. /\ B \in Seq(Writes)
        /\ \A i \in 1 .. b :
              /\ B[i].op # "delete" /\ B[i].id \in {PageRecord} /\ B[i].record = n[B[i].id]
              /\ Built!Is(n[B[i].id]) /\ p[B[i].id].content # n[B[i].id].content
        /\ \A x \in {PageRecord} : Built!Is(n[x]) /\ p[x].content # n[x].content =>
              \E i \in 1 .. b : B[i].id = x
    <2> DEFINE only == {PageRecord}
    <2> HIDE DEF only
    <2>1. B = Built!Changed(p, n, only) /\ only \in SUBSET Built!Record
      BY <1>0 DEF only
    <2> HIDE DEF B, b
    <2>2. /\ B \in Seq(Writes)
          /\ \A i \in 1 .. Len(B) :
                /\ B[i].op # "delete" /\ B[i].id \in only /\ B[i].record = n[B[i].id]
                /\ Built!Is(n[B[i].id]) /\ p[B[i].id].content # n[B[i].id].content
          /\ \A x \in only : Built!Is(n[x]) /\ p[x].content # n[x].content =>
                \E i \in 1 .. Len(B) : B[i].id = x
      BY <2>1, ChangedWrites
    <2>3. QED
      BY <2>2 DEF only, b
  <1>3. /\ C \in Seq(Writes)
        /\ \A i \in 1 .. c :
              /\ C[i].op = "delete" /\ C[i].id \in {PageRecord} /\ C[i].record = Built!Absent
              /\ Built!Is(p[C[i].id]) /\ ~ Built!Is(n[C[i].id])
        /\ \A x \in {PageRecord} : Built!Is(p[x]) /\ ~ Built!Is(n[x]) =>
              \E i \in 1 .. c : C[i].id = x
    BY <1>0, MissingWrites
  <1>4. /\ D \in Seq(Writes)
        /\ \A i \in 1 .. d :
              /\ D[i].op = "delete" /\ D[i].id \in RowRecords /\ D[i].record = Built!Absent
              /\ Built!Is(p[D[i].id]) /\ ~ Built!Is(n[D[i].id])
        /\ \A x \in RowRecords : Built!Is(p[x]) /\ ~ Built!Is(n[x]) =>
              \E i \in 1 .. d : D[i].id = x
    BY <1>0, MissingWrites
  <1>5. w = ((A \o B) \o C) \o D
    BY DEF Built!Writes
  <1> HIDE DEF A, B, C, D
  <1>6. a \in Nat /\ b \in Nat /\ c \in Nat /\ d \in Nat
    BY <1>1, <1>2, <1>3, <1>4
  <1>7. /\ w \in Seq(Writes) /\ Len(w) = a + b + c + d
        /\ \A i \in 1 .. a + b + c + d :
              w[i] = IF i <= a THEN A[i] ELSE IF i <= a + b THEN B[i - a]
                     ELSE IF i <= a + b + c THEN C[i - (a + b)] ELSE D[i - (a + b + c)]
    <2>1. /\ A \o B \in Seq(Writes) /\ Len(A \o B) = a + b
          /\ \A i \in 1 .. a + b : (A \o B)[i] = IF i <= a THEN A[i] ELSE B[i - a]
      BY <1>1, <1>2, ConcatProperties
    <2> DEFINE AB == A \o B
    <2> HIDE DEF AB, a, b, c, d
    <2>2. /\ AB \o C \in Seq(Writes) /\ Len(AB \o C) = a + b + c
          /\ \A i \in 1 .. a + b + c : (AB \o C)[i] = IF i <= a + b THEN AB[i] ELSE C[i - (a + b)]
      BY <1>3, <2>1, ConcatProperties DEF AB, c
    <2> DEFINE ABC == AB \o C
    <2> HIDE DEF ABC
    <2>3. /\ ABC \o D \in Seq(Writes) /\ Len(ABC \o D) = a + b + c + d
          /\ \A i \in 1 .. a + b + c + d :
                (ABC \o D)[i] = IF i <= a + b + c THEN ABC[i] ELSE D[i - (a + b + c)]
      BY <1>4, <2>2, ConcatProperties DEF ABC, d
    <2>4. w = ABC \o D
      BY <1>5 DEF AB, ABC
    <2>5. \A i \in 1 .. a + b + c : ABC[i] = IF i <= a + b THEN AB[i] ELSE C[i - (a + b)]
      BY <2>2 DEF ABC
    <2>6. \A i \in 1 .. a + b : AB[i] = IF i <= a THEN A[i] ELSE B[i - a]
      BY <2>1 DEF AB
    <2>7. ASSUME NEW i \in 1 .. a + b + c + d
          PROVE  w[i] = IF i <= a THEN A[i] ELSE IF i <= a + b THEN B[i - a]
                        ELSE IF i <= a + b + c THEN C[i - (a + b)] ELSE D[i - (a + b + c)]
      <3>1. w[i] = IF i <= a + b + c THEN ABC[i] ELSE D[i - (a + b + c)]
        BY <2>3, <2>4
      <3>2. i <= a + b + c => ABC[i] = IF i <= a + b THEN AB[i] ELSE C[i - (a + b)]
        BY <1>6, <2>5
      <3>3. i <= a + b => AB[i] = IF i <= a THEN A[i] ELSE B[i - a]
        BY <1>6, <2>6
      <3>4. i \in Int /\ (i <= a => i <= a + b) /\ (i <= a + b => i <= a + b + c)
        BY <1>6
      <3>5. QED
        BY <3>1, <3>2, <3>3, <3>4
    <2>8. QED
      BY <2>3, <2>4, <2>7
  <1> HIDE DEF a, b, c, d
  <1>8. \A i \in 1 .. Len(w) :
            \/ i \in 1 .. a /\ w[i] = A[i]
            \/ i > a /\ i - a \in 1 .. b /\ w[i] = B[i - a]
            \/ i > a + b /\ i - (a + b) \in 1 .. c /\ w[i] = C[i - (a + b)]
            \/ i > a + b + c /\ i - (a + b + c) \in 1 .. d /\ w[i] = D[i - (a + b + c)]
    BY <1>6, <1>7
  <1>9. ASSUME NEW i \in 1 .. Len(w)
        PROVE  LET x == w[i].id
               IN  IF w[i].op = "delete"
                   THEN w[i].record = Built!Absent /\ Built!Is(p[x]) /\ ~ Built!Is(n[x])
                   ELSE w[i].record = n[x] /\ Built!Is(n[x]) /\ p[x].content # n[x].content
    <2>1. CASE i \in 1 .. a /\ w[i] = A[i]
      BY <1>1, <2>1
    <2>2. CASE i - a \in 1 .. b /\ w[i] = B[i - a]
      BY <1>2, <2>2
    <2>3. CASE i - (a + b) \in 1 .. c /\ w[i] = C[i - (a + b)]
      BY <1>3, <2>3
    <2>4. CASE i - (a + b + c) \in 1 .. d /\ w[i] = D[i - (a + b + c)]
      BY <1>4, <2>4
    <2>5. QED
      BY <1>8, <2>1, <2>2, <2>3, <2>4
  <1>10. ASSUME NEW x \in Built!Record, p[x].content # n[x].content
         PROVE  \E i \in 1 .. Len(w) : w[i].id = x
    <2>1. Built!Is(n[x]) \/ (Built!Is(p[x]) /\ ~ Built!Is(n[x]))
      BY <1>10 DEF Built!Is
    <2>2. x \in RowRecords \/ x = PageRecord
      BY BuilderConstants
    <2>3. CASE x \in RowRecords /\ Built!Is(n[x])
      <3>1. PICK i \in 1 .. a : A[i].id = x
        BY <1>1, <1>10, <2>3
      <3>2. i \in 1 .. Len(w) /\ w[i] = A[i]
        BY <1>6, <1>7
      <3>3. QED
        BY <3>1, <3>2
    <2>4. CASE x = PageRecord /\ Built!Is(n[x])
      <3>1. PICK i \in 1 .. b : B[i].id = x
        BY <1>2, <1>10, <2>4
      <3>2. a + i \in 1 .. Len(w) /\ w[a + i] = B[i]
        BY <1>6, <1>7
      <3>3. QED
        BY <3>1, <3>2
    <2>5. CASE x = PageRecord /\ Built!Is(p[x]) /\ ~ Built!Is(n[x])
      <3>1. PICK i \in 1 .. c : C[i].id = x
        BY <1>3, <1>10, <2>5
      <3>2. a + b + i \in 1 .. Len(w) /\ w[a + b + i] = C[i]
        BY <1>6, <1>7
      <3>3. QED
        BY <3>1, <3>2
    <2>6. CASE x \in RowRecords /\ Built!Is(p[x]) /\ ~ Built!Is(n[x])
      <3>1. PICK i \in 1 .. d : D[i].id = x
        BY <1>4, <1>10, <2>6
      <3>2. a + b + c + i \in 1 .. Len(w) /\ w[a + b + c + i] = D[i]
        BY <1>6, <1>7
      <3>3. QED
        BY <3>1, <3>2
    <2>7. QED
      BY <2>1, <2>2, <2>3, <2>4, <2>5, <2>6
  <1>11. ASSUME NEW i \in 1 .. Len(w), NEW j \in 1 .. Len(w), i < j
         PROVE  /\ w[i].op = "delete" => w[j].op = "delete"
                /\ w[i].id = PageRecord /\ w[j].op # "delete" => w[j].id = PageRecord
    <2>1. \A x \in 1 .. Len(w) : IF x <= a THEN w[x].op # "delete" /\ w[x].id # PageRecord
                                ELSE IF x <= a + b THEN w[x].op # "delete" /\ w[x].id = PageRecord
                                ELSE w[x].op = "delete"
      <3> SUFFICES ASSUME NEW x \in 1 .. Len(w)
                   PROVE  IF x <= a THEN w[x].op # "delete" /\ w[x].id # PageRecord
                          ELSE IF x <= a + b THEN w[x].op # "delete" /\ w[x].id = PageRecord
                          ELSE w[x].op = "delete"
        OBVIOUS
      <3>1. x <= a => w[x].op # "delete" /\ w[x].id # PageRecord
        BY <1>1, <1>6, <1>7, BuilderConstants
      <3>2. x > a /\ x <= a + b => w[x].op # "delete" /\ w[x].id = PageRecord
        <4>1. x > a /\ x <= a + b => x - a \in 1 .. b /\ w[x] = B[x - a]
          BY <1>6, <1>7
        <4>2. QED
          BY <1>2, <4>1
      <3>3. x > a + b => w[x].op = "delete"
        <4>1. x > a + b => \/ x - (a + b) \in 1 .. c /\ w[x] = C[x - (a + b)]
                           \/ x - (a + b + c) \in 1 .. d /\ w[x] = D[x - (a + b + c)]
          BY <1>6, <1>7
        <4>2. QED
          BY <1>3, <1>4, <4>1
      <3>4. QED
        BY <1>6, <3>1, <3>2, <3>3
    <2>2. a \in Nat /\ b \in Nat /\ i \in Int /\ j \in Int
      BY <1>6
    <2>3. QED
      BY <1>11, <2>1, <2>2
  <1>12. QED
    BY <1>7, <1>9, <1>10, <1>11

\* The builder compares with what it shows: the remote changes that are not
\* rendered yet make of the one what those since its last run make of the other.
Baseline ==
    /\ Built!Replay(previous, applied) = Built!Replay(local, actions)
    /\ effect => actions = << >>

\* What is shown or on its way was made by now.
Made(r) == r.content <= clock /\ (setting.skew # "ahead" => r.stamp <= clock)

NothingIsNewer ==
    /\ \A x \in Built!Record : Made(Built!Seen[x])
    /\ \A x \in Built!Record : table[x].content <= clock /\ table[x].stamp <= clock
    /\ \A i \in DOMAIN inbox : Made(inbox[i].record)
    /\ \A i \in DOMAIN writes : writes[i].record.content <= clock
    /\ \A i \in DOMAIN saves : \A x \in Built!Record : saves[i].next[x].content <= clock

Now == IF setting.skew = "behind" THEN 1 ELSE IF setting.skew = "true" THEN clock + 1 ELSE clock + 1000

\* What an edit makes of what is seen.
Edited(e) ==
    /\ e \in Maps
    /\ \A x \in Built!Record : e[x] # Built!Seen[x] =>
          /\ x \in Built!Reachable(Built!Seen) \cup Built!Reachable(e)
          /\ \/ e[x] = Built!Absent /\ Built!Is(Built!Seen[x]) /\ x \in RowRecords \ e[PageRecord].refs
             \/ e[x].content = clock + 1 /\ e[x].stamp = Now
    /\ \E x \in Built!Record : e[x] # Built!Seen[x]
    /\ Built!Is(Built!Seen[PageRecord]) /\ Built!Is(e[PageRecord])
    /\ \A r \in e[PageRecord].refs \ Built!Seen[PageRecord].refs : e[r].content = clock + 1
    /\ e[PageRecord].refs # Built!Seen[PageRecord].refs => e[PageRecord].content = clock + 1

LEMMA SeenType == BuilderTypes => Built!Seen \in Maps
  <1> SUFFICES ASSUME BuilderTypes PROVE Built!Seen \in Maps
    OBVIOUS
  <1>1. local \in Maps /\ actions \in Seq(Messages)
    BY DEF BuilderTypes
  <1>2. Built!Push(PageRecord, Built!Absent) \in Messages
    BY NoRecord, BuilderConstants DEF Messages, Built!Push
  <1>4. QED
    BY <1>1, <1>2, ReplayOneMore DEF Built!Seen

LEMMA TouchedIs ==
    ASSUME BuilderTypes, NEW r \in Records
    PROVE  /\ Built!Touched(r) \in Records /\ Built!Is(Built!Touched(r))
           /\ Built!Touched(r).content = clock + 1 /\ Built!Touched(r).refs = r.refs
           /\ Built!Touched(r).stamp = Now
  <1>1. clock \in Nat /\ setting.skew \in {"behind", "true", "ahead"}
    BY DEF BuilderTypes, Built!Setting
  <1> DEFINE stamp == CASE setting.skew = "behind" -> 1
                        [] setting.skew = "true"   -> clock + 1
                        [] setting.skew = "ahead"  -> clock + 1000
  <1>2. stamp = Now /\ stamp \in Nat
    BY <1>1 DEF Now
  <1>3. Built!Touched(r) = [r EXCEPT !.content = clock + 1, !.stamp = stamp]
    BY DEF Built!Touched, Built!Ahead
  <1> HIDE DEF stamp
  <1>4. Built!Touched(r) = [content |-> clock + 1, refs |-> r.refs, stamp |-> stamp]
    BY <1>3 DEF Records
  <1>5. QED
    BY <1>1, <1>2, <1>4 DEF Records, Built!Is

LEMMA ReachableIs ==
    ASSUME NEW m \in Maps
    PROVE  /\ Built!Is(m[PageRecord]) => PageRecord \in Built!Reachable(m)
           /\ \A x \in Built!Reachable(m) :
                 x \in Built!Record /\ Built!Is(m[x]) /\ Built!Is(m[PageRecord])
           /\ \A r \in m[PageRecord].refs :
                 Built!Is(m[PageRecord]) /\ Built!Is(m[r]) => r \in Built!Reachable(m)
  BY BuilderConstants DEF Built!Reachable, Maps, Records

LEMMA UpdateEdits ==
    ASSUME BuilderTypes, NothingIsNewer, NEW x \in Built!Record, Built!Update(x)
    PROVE  \E e : Built!Edit(e) /\ Edited(e)
  <1> DEFINE m == Built!Seen
             e == [m EXCEPT ![x] = Built!Touched(@)]
  <1>1. m \in Maps /\ x \in Built!Reachable(m) /\ Built!Edit(e)
    BY SeenType DEF Built!Update
  <1>2. m[x] \in Records /\ m[PageRecord] \in Records
    BY <1>1, BuilderConstants DEF Maps
  <1> DEFINE t == Built!Touched(m[x])
  <1>3. /\ t \in Records /\ Built!Is(t) /\ t.content = clock + 1 /\ t.refs = m[x].refs /\ t.stamp = Now
    BY <1>2, TouchedIs
  <1>4. m[x].content <= clock /\ clock \in Nat /\ m[x].content \in Nat
    BY <1>2 DEF NothingIsNewer, Made, BuilderTypes, Records
  <1> HIDE DEF t, m
  <1>5. e = [y \in Built!Record |-> IF y = x THEN t ELSE m[y]]
    BY <1>1 DEF t, Maps
  <1> HIDE DEF e
  <1>6. /\ e \in Maps /\ e[x] = t /\ e[x] # m[x]
        /\ \A y \in Built!Record : y # x => e[y] = m[y]
    BY <1>1, <1>3, <1>4, <1>5 DEF Maps
  <1>7. Built!Is(m[PageRecord]) /\ Built!Is(e[PageRecord]) /\ e[PageRecord].refs = m[PageRecord].refs
    BY <1>1, <1>3, <1>6, ReachableIs, BuilderConstants
  <1>8. Edited(e)
    BY <1>1, <1>3, <1>6, <1>7 DEF Edited, m
  <1>9. QED
    BY <1>1, <1>8 DEF e

LEMMA AddRowEdits ==
    ASSUME BuilderTypes, NothingIsNewer, NEW r \in RowRecords, Built!AddRow(r)
    PROVE  \E e : Built!Edit(e) /\ Edited(e)
  <1> DEFINE m == Built!Seen
             wider == Built!Referring(m[PageRecord], m[PageRecord].refs \cup {r})
             t == Built!Touched(Built!Absent)
             u == Built!Touched(wider)
             e == [m EXCEPT ![r] = t,
                            ![PageRecord] = u]
  <1>1. m \in Maps /\ Built!Is(m[PageRecord]) /\ Built!Edit(e)
    BY SeenType DEF Built!AddRow
  <1>2. r # PageRecord /\ r \in Built!Record /\ m[r] \in Records /\ m[PageRecord] \in Records
    BY <1>1, BuilderConstants DEF Maps
  <1>3. wider \in Records /\ wider.refs = m[PageRecord].refs \cup {r}
    BY <1>2 DEF Records, Built!Referring
  <1> HIDE DEF wider
  <1>4. /\ t \in Records /\ Built!Is(t) /\ t.content = clock + 1 /\ t.stamp = Now
        /\ u \in Records /\ Built!Is(u) /\ u.content = clock + 1 /\ u.stamp = Now
        /\ u.refs = m[PageRecord].refs \cup {r}
    BY <1>3, NoRecord, TouchedIs
  <1>5. m[PageRecord].content <= clock /\ clock \in Nat /\ m[PageRecord].content \in Nat
    BY <1>2, BuilderConstants DEF NothingIsNewer, Made, BuilderTypes, Records
  <1> HIDE DEF t, u, m
  <1>6. e = [y \in Built!Record |-> IF y = PageRecord THEN u ELSE IF y = r THEN t ELSE m[y]]
    BY <1>1, <1>2, BuilderConstants DEF t, u, wider, Maps
  <1> HIDE DEF e
  <1>7. /\ e \in Maps /\ e[r] = t /\ e[PageRecord] = u /\ e[PageRecord] # m[PageRecord]
        /\ \A y \in Built!Record : y \notin {r, PageRecord} => e[y] = m[y]
    <2>1. \A y \in Built!Record : m[y] \in Records /\ e[y] = IF y = PageRecord THEN u ELSE IF y = r THEN t ELSE m[y]
      BY <1>1, <1>6 DEF Maps
    <2>2. \A y \in Built!Record : e[y] \in Records
      BY <1>4, <2>1
    <2>3. e \in Maps
      BY <1>6, <2>2 DEF Maps
    <2>4. e[r] = t /\ e[PageRecord] = u /\ \A y \in Built!Record : y \notin {r, PageRecord} => e[y] = m[y]
      BY <1>2, <2>1, BuilderConstants
    <2>5. u.content # m[PageRecord].content
      BY <1>4, <1>5
    <2>6. QED
      BY <2>3, <2>4, <2>5
  <1>8. {r, PageRecord} \subseteq Built!Reachable(e)
    BY <1>4, <1>7, ReachableIs
  <1>9. \A q \in e[PageRecord].refs \ m[PageRecord].refs : e[q].content = clock + 1
    BY <1>4, <1>7
  <1>10. \A x \in Built!Record : e[x] # m[x] =>
            /\ x \in Built!Reachable(m) \cup Built!Reachable(e)
            /\ e[x].content = clock + 1 /\ e[x].stamp = Now
    BY <1>4, <1>7, <1>8
  <1>11. Edited(e)
    BY <1>1, <1>4, <1>7, <1>9, <1>10, BuilderConstants DEF Edited, m
  <1>12. QED
    BY <1>1, <1>11 DEF e

LEMMA RemoveRowEdits ==
    ASSUME BuilderTypes, NothingIsNewer, NEW r \in RowRecords, Built!RemoveRow(r)
    PROVE  \E e : Built!Edit(e) /\ Edited(e)
  <1> DEFINE m == Built!Seen
             narrower == Built!Referring(m[PageRecord], m[PageRecord].refs \ {r})
             u == Built!Touched(narrower)
             e == [m EXCEPT ![r] = Built!Absent, ![PageRecord] = u]
  <1>1. m \in Maps /\ r \in Built!Reachable(m) /\ Built!Edit(e)
    BY SeenType DEF Built!RemoveRow
  <1>2. /\ r # PageRecord /\ r \in Built!Record /\ m[r] \in Records /\ m[PageRecord] \in Records
        /\ Built!Is(m[PageRecord]) /\ Built!Is(m[r])
    BY <1>1, BuilderConstants, ReachableIs DEF Maps
  <1>3. narrower \in Records /\ narrower.refs = m[PageRecord].refs \ {r}
    BY <1>2 DEF Records, Built!Referring
  <1> HIDE DEF narrower
  <1>4. /\ u \in Records /\ Built!Is(u) /\ u.content = clock + 1 /\ u.stamp = Now
        /\ u.refs = m[PageRecord].refs \ {r}
    BY <1>3, TouchedIs
  <1>5. m[PageRecord].content <= clock /\ clock \in Nat /\ m[PageRecord].content \in Nat
    BY <1>2, BuilderConstants DEF NothingIsNewer, Made, BuilderTypes, Records
  <1> HIDE DEF u, m
  <1>6. e = [y \in Built!Record |-> IF y = PageRecord THEN u ELSE IF y = r THEN Built!Absent ELSE m[y]]
    BY <1>1, <1>2, BuilderConstants DEF u, narrower, Maps
  <1> HIDE DEF e
  <1>7. /\ e \in Maps /\ e[r] = Built!Absent /\ e[PageRecord] = u /\ e[PageRecord] # m[PageRecord]
        /\ \A y \in Built!Record : y \notin {r, PageRecord} => e[y] = m[y]
    <2>1. \A y \in Built!Record :
              m[y] \in Records /\ e[y] = IF y = PageRecord THEN u ELSE IF y = r THEN Built!Absent ELSE m[y]
      BY <1>1, <1>6 DEF Maps
    <2>2. \A y \in Built!Record : e[y] \in Records
      BY <1>4, <2>1, NoRecord
    <2>3. e \in Maps
      BY <1>6, <2>2 DEF Maps
    <2>4. /\ e[r] = Built!Absent /\ e[PageRecord] = u
          /\ \A y \in Built!Record : y \notin {r, PageRecord} => e[y] = m[y]
      BY <1>2, <2>1, BuilderConstants
    <2>5. u.content # m[PageRecord].content
      BY <1>4, <1>5
    <2>6. QED
      BY <2>3, <2>4, <2>5
  <1>8. PageRecord \in Built!Reachable(e)
    BY <1>4, <1>7, ReachableIs
  <1>9. \A q \in e[PageRecord].refs \ m[PageRecord].refs : e[q].content = clock + 1
    BY <1>4, <1>7
  <1>10. \A x \in Built!Record : e[x] # m[x] =>
            /\ x \in Built!Reachable(m) \cup Built!Reachable(e)
            /\ \/ e[x] = Built!Absent /\ Built!Is(m[x]) /\ x \in RowRecords \ e[PageRecord].refs
               \/ e[x].content = clock + 1 /\ e[x].stamp = Now
    BY <1>1, <1>2, <1>4, <1>7, <1>8
  <1>11. Edited(e)
    BY <1>2, <1>4, <1>7, <1>9, <1>10, BuilderConstants DEF Edited, m
  <1>12. QED
    BY <1>1, <1>11 DEF e

\* An edit is what is seen from then on, and is saved.
LEMMA EditDoes ==
    ASSUME BuilderTypes, Baseline, NothingIsNewer, NEW e, Built!Edit(e), Edited(e)
    PROVE  /\ clock' = clock + 1
           /\ local' = e /\ previous' = e /\ actions' = << >> /\ applied' = << >> /\ effect' = FALSE
           /\ Built!Seen' = e
           /\ UNCHANGED <<table, versions, writes, sent, inbox, refused>>
           /\ bounds' = [bounds EXCEPT !.edits = @ + 1]
           /\ \E save \in Saves :
                 /\ saves' = Append(saves, save)
                 /\ save.previous[PageRecord] = Built!Seen[PageRecord]
                 /\ save.next[PageRecord] = e[PageRecord]
                 /\ \A x \in Built!Record :
                       IF e[x] = Built!Seen[x] THEN save.previous[x] = save.next[x]
                       ELSE save.previous[x] = Built!Seen[x] /\ save.next[x] = e[x]
                 /\ \A x \in Built!Record : save.next[x] \in {e[x], Built!Absent}
  <1> DEFINE m == Built!Seen
             ids == Built!Reachable(m) \cup Built!Reachable(e)
             save == [previous |-> Built!Scoped(m, ids), next |-> Built!Scoped(e, ids)]
  <1>1. m \in Maps /\ e \in Maps
    BY SeenType DEF Edited
  <1>2. /\ clock' = clock + 1 /\ local' = e /\ actions' = << >>
        /\ bounds' = [bounds EXCEPT !.edits = @ + 1]
        /\ UNCHANGED <<table, versions, writes, sent, inbox, refused>>
        /\ Built!Autosave(local')
    BY DEF Built!Edit, Built!Show, Built!Spend
  <1>3. Built!Replay(previous, applied) = m
    BY DEF Baseline, Built!Seen
  <1>4. /\ previous' = e /\ applied' = << >> /\ effect' = FALSE
        /\ saves' = IF \A x \in Built!Record : save.previous[x].content = save.next[x].content
                    THEN saves ELSE Append(saves, save)
    BY <1>2, <1>3 DEF Built!Autosave
  <1>5. Built!Seen' = e
    BY <1>1, <1>2, ReplayNothing DEF Built!Seen
  <1>6. PageRecord \in ids /\ \A x \in Built!Record : e[x] # m[x] => x \in ids
    BY <1>1, ReachableIs DEF Edited
  <1>7. save \in Saves
    BY <1>1, NoRecord DEF Saves, Maps, Built!Scoped
  <1>8. \A x \in Built!Record : /\ save.previous[x] = IF x \in ids THEN m[x] ELSE Built!Absent
                                /\ save.next[x] = IF x \in ids THEN e[x] ELSE Built!Absent
    BY DEF Built!Scoped
  <1> HIDE DEF save, ids, m
  <1>9. PICK x \in Built!Record : e[x] # m[x]
    BY DEF Edited, m
  <1>10. e[x].content # m[x].content
    <2>1. m[x].content <= clock /\ clock \in Nat /\ m[x].content \in Nat
      BY <1>1 DEF NothingIsNewer, Made, BuilderTypes, Maps, Records, m
    <2>2. e[x].content = clock + 1 \/ (e[x] = Built!Absent /\ Built!Is(m[x]))
      BY <1>9 DEF Edited, m
    <2>3. QED
      BY <2>1, <2>2, NoRecord DEF Built!Is
  <1>11. saves' = Append(saves, save)
    BY <1>4, <1>6, <1>8, <1>9, <1>10
  <1>12. \A y \in Built!Record :
             IF e[y] = m[y] THEN save.previous[y] = save.next[y]
             ELSE save.previous[y] = m[y] /\ save.next[y] = e[y]
    BY <1>6, <1>8
  <1>13. save.previous[PageRecord] = m[PageRecord] /\ save.next[PageRecord] = e[PageRecord]
    BY <1>6, <1>8, BuilderConstants
  <1>14. \A y \in Built!Record : save.next[y] \in {e[y], Built!Absent}
    BY <1>8
  <1>15. QED
    BY <1>2, <1>4, <1>5, <1>7, <1>11, <1>12, <1>13, <1>14 DEF m

-----------------------------------------------------------------------------
(* What a step of the builder does to what is seen, and to what is on its way *)

\* The messages of others' writes: one of each record that was stored.
Announces(told) ==
    /\ told \in Seq(Messages)
    /\ \A i \in DOMAIN told : told[i].kind = "push" /\ told[i].record = table'[told[i].id]
    /\ \A i, j \in DOMAIN told : told[i].id = told[j].id => i = j
    /\ table' \in Maps
    /\ \A x \in Built!Record :
          \/ table'[x] = table[x] /\ \A i \in DOMAIN told : told[i].id # x
          \/ /\ \E i \in DOMAIN told : told[i].id = x
             /\ table'[x] = Built!Deleted \/ (table'[x].content = clock + 1 /\ table'[x].stamp = clock + 1)

Saved(save, e) ==
    /\ save.previous[PageRecord] = Built!Seen[PageRecord]
    /\ save.next[PageRecord] = e[PageRecord]
    /\ \A x \in Built!Record :
          IF e[x] = Built!Seen[x] THEN save.previous[x] = save.next[x]
          ELSE save.previous[x] = Built!Seen[x] /\ save.next[x] = e[x]
    /\ \A x \in Built!Record : save.next[x] \in {e[x], Built!Absent}

Edits(e) ==
    /\ Edited(e) /\ Built!Seen' = e /\ clock' = clock + 1
    /\ \E save \in Saves : saves' = Append(saves, save) /\ Saved(save, e)
    /\ bounds' = [bounds EXCEPT !.edits = @ + 1]
    /\ UNCHANGED <<table, versions, writes, sent, inbox, refused>>

Begins ==
    /\ saves # << >> /\ writes = << >>
    /\ writes' = Built!Writes(saves[1].previous, saves[1].next) /\ saves' = Tail(saves)
    /\ UNCHANGED <<Built!Seen, clock, table, versions, sent, inbox, refused, bounds>>

Stores(record) ==
    /\ writes # << >> /\ ~ sent /\ sent' = TRUE /\ Built!Accepts(writes[1]) /\ clock < MaxStamps
    /\ record \in Records
    /\ IF writes[1].op = "delete" THEN record = Built!Deleted
       ELSE record = [writes[1].record EXCEPT !.stamp = clock + 1]
    /\ clock' = clock + 1 /\ table' = [table EXCEPT ![writes[1].id] = record]
    /\ inbox' = inbox \o << Built!Push(writes[1].id, record), Built!Reply(writes[1].id, record) >>
    /\ UNCHANGED <<Built!Seen, versions, saves, writes, refused, bounds>>

Refuses ==
    /\ writes # << >> /\ ~ sent /\ sent' = TRUE
    /\ inbox' = Append(inbox, Built!Error(writes[1].id)) /\ refused' = refused + 1
    /\ IF Built!Accepts(writes[1]) THEN bounds' = [bounds EXCEPT !.faults = @ + 1] ELSE UNCHANGED bounds
    /\ UNCHANGED <<Built!Seen, clock, table, versions, saves, writes>>

Known(c) == IF Built!Is(c.record) THEN c.record.stamp ELSE 0

Hears(c) ==
    /\ inbox # << >> /\ c = inbox[1] /\ c \in Messages /\ c.kind = "push" /\ inbox' = Tail(inbox)
    /\ versions' = [versions EXCEPT ![c.id] = Known(c)]
    /\ Built!Seen' = Built!ApplyRemoteRecord(Built!Seen, c)
    /\ UNCHANGED <<clock, table, saves, writes, sent, refused, bounds>>

Answered(c) ==
    /\ inbox # << >> /\ c = inbox[1] /\ c \in Messages /\ c.kind # "push" /\ inbox' = Tail(inbox)
    /\ IF c.kind = "reply"
       THEN versions' = [versions EXCEPT ![c.id] = Known(c)] /\ writes' = Tail(writes)
       ELSE UNCHANGED versions /\ writes' = << >>
    /\ sent' = FALSE
    /\ UNCHANGED <<Built!Seen, clock, table, saves, refused, bounds>>

Loses ==
    /\ inbox' = << >> /\ bounds' = [bounds EXCEPT !.losses = @ + 1]
    /\ UNCHANGED <<Built!Seen, clock, table, versions, saves, writes, sent, refused>>

Hurries(told) ==
    /\ Announces(told) /\ inbox' = inbox \o told /\ clock' = clock + 1
    /\ bounds' = [bounds EXCEPT !.others = @ + 1]
    /\ UNCHANGED <<Built!Seen, versions, saves, writes, sent, refused>>

Stays == UNCHANGED <<Built!Seen, clock, table, versions, saves, writes, sent, inbox, refused, bounds>>

Does ==
    /\ UNCHANGED setting
    /\ \/ Stays \/ Begins \/ Refuses \/ Loses
       \/ \E e : Edits(e)
       \/ \E record : Stores(record)
       \/ \E c : Hears(c) \/ Answered(c)
       \/ \E told : Hurries(told)

LEMMA Told ==
    ASSUME BuilderTypes, NEW changes, DOMAIN changes \in SUBSET Built!Record,
           \A x \in DOMAIN changes : changes[x] \in Records, Built!OtherStores(changes)
    PROVE  \E told : Hurries(told)
  <1> DEFINE D == DOMAIN changes
             stored == [x \in D |-> IF Built!Is(changes[x])
                          THEN [changes[x] EXCEPT !.content = clock + 1, !.stamp = clock + 1]
                          ELSE Built!Deleted]
             order == Built!SetToSeq(D)
             told == [i \in DOMAIN order |-> Built!Push(order[i], stored[order[i]])]
             k == Cardinality(D)
  <1>0. D \in SUBSET Built!Record
    OBVIOUS
  <1>1. /\ clock' = clock + 1 /\ bounds' = [bounds EXCEPT !.others = @ + 1]
        /\ table' = [x \in Built!Record |-> IF x \in D THEN stored[x] ELSE table[x]]
        /\ inbox' = inbox \o told
        /\ UNCHANGED <<Built!Seen, versions, saves, writes, sent, refused>>
    <2>2. /\ clock' = clock + 1 /\ bounds' = [bounds EXCEPT !["others"] = @ + 1]
          /\ UNCHANGED <<local, actions, versions, saves, writes, sent, refused>>
      BY DEF Built!OtherStores, Built!Spend, Built!maps, Built!queue
    <2>3. UNCHANGED Built!Seen
      BY <2>2 DEF Built!Seen
    <2>4. table' = [x \in Built!Record |-> IF x \in D THEN stored[x] ELSE table[x]]
      BY Zenon DEF Built!OtherStores
    <2>5. inbox' = inbox \o told
      BY Zenon DEF Built!OtherStores
    <2>6. QED
      BY <2>2, <2>3, <2>4, <2>5
  <1>2. /\ order \in Seq(D) /\ Len(order) = k /\ k \in Nat
        /\ \A x \in D : \E i \in 1 .. k : order[i] = x
        /\ \A i, j \in 1 .. k : order[i] = order[j] => i = j
    <2>1. IsFiniteSet(D)
      BY BuilderConstants, FS_AddElement, FS_Subset
    <2>2. QED
      BY <2>1, Listing
  <1>3. /\ clock \in Nat /\ table \in Maps
        /\ \A x \in D : /\ stored[x] \in Records
                        /\ \/ stored[x] = Built!Deleted
                           \/ stored[x].content = clock + 1 /\ stored[x].stamp = clock + 1
    <2>1. clock \in Nat /\ table \in Maps
      BY DEF BuilderTypes
    <2>2. ASSUME NEW x \in D
          PROVE  /\ stored[x] \in Records
                 /\ \/ stored[x] = Built!Deleted
                    \/ stored[x].content = clock + 1 /\ stored[x].stamp = clock + 1
      <3>1. CASE Built!Is(changes[x])
        <4>1. stored[x] = [changes[x] EXCEPT !.content = clock + 1, !.stamp = clock + 1]
          BY <3>1
        <4>2. changes[x] \in Records
          OBVIOUS
        <4>3. stored[x] = [content |-> clock + 1, refs |-> changes[x].refs, stamp |-> clock + 1]
          BY <4>1, <4>2 DEF Records
        <4> HIDE DEF stored
        <4>4. QED
          BY <2>1, <4>2, <4>3 DEF Records
      <3>2. CASE ~ Built!Is(changes[x])
        BY <3>2, NoRecord
      <3>3. QED
        BY <3>1, <3>2
    <2>3. QED
      BY <2>1, <2>2
  <1>4. DOMAIN order = 1 .. k /\ \A i \in 1 .. k : order[i] \in D
    BY <1>2
  <1> HIDE DEF D, stored, order, k
  <1>5. /\ told \in Seq(Messages) /\ DOMAIN told = 1 .. k
        /\ \A i \in 1 .. k : told[i] = Built!Push(order[i], stored[order[i]])
    <2>1. \A x \in D : Built!Push(x, stored[x]) \in Messages
      BY <1>0, <1>3 DEF Messages, Built!Push
    <2>2. QED
      BY <1>2, <1>4, <2>1
  <1> HIDE DEF told
  <1>6. \A i \in 1 .. k : told[i].kind = "push" /\ told[i].id = order[i] /\ told[i].record = stored[order[i]]
    BY <1>5 DEF Built!Push
  <1>7. table' \in Maps
    BY <1>1, <1>3 DEF Maps
  <1>8. \A x \in Built!Record : table'[x] = IF x \in D THEN stored[x] ELSE table[x]
    BY <1>1
  <1>9. Announces(told)
    <2>1. \A i \in DOMAIN told : told[i].kind = "push" /\ told[i].record = table'[told[i].id]
      BY <1>0, <1>4, <1>5, <1>6, <1>8
    <2>2. \A i, j \in DOMAIN told : told[i].id = told[j].id => i = j
      BY <1>2, <1>5, <1>6
    <2>3. ASSUME NEW x \in Built!Record
          PROVE  \/ table'[x] = table[x] /\ \A i \in DOMAIN told : told[i].id # x
                 \/ /\ \E i \in DOMAIN told : told[i].id = x
                    /\ \/ table'[x] = Built!Deleted
                       \/ table'[x].content = clock + 1 /\ table'[x].stamp = clock + 1
      <3>1. CASE x \in D
        BY <1>2, <1>3, <1>5, <1>6, <1>8, <3>1
      <3>2. CASE x \notin D
        BY <1>4, <1>5, <1>6, <1>8, <3>2
      <3>3. QED
        BY <3>1, <3>2
    <2>4. QED
      BY <1>5, <1>7, <2>1, <2>2, <2>3 DEF Announces
  <1>10. QED
    BY <1>1, <1>9 DEF Hurries

LEMMA StepDoes ==
    ASSUME BuilderTypes, Baseline, NothingIsNewer, Built!Next
    PROVE  Does
  <1>0. UNCHANGED setting
    BY DEF Built!Next
  <1>1. CASE Built!Render
    <2>1. local \in Maps /\ actions \in Seq(Messages) /\ Built!Seen \in Maps
      BY SeenType DEF BuilderTypes
    <2>2. Built!Seen' = Built!Seen
      BY <1>1, <2>1, ReplayNothing DEF Built!Render, Built!Show, Built!Seen
    <2>3. Stays
      BY <1>1, <2>2 DEF Built!Render, Built!api, Built!queue, Stays
    <2>4. QED
      BY <1>0, <2>3 DEF Does
  <1>2. CASE Built!Effect
    <2>1. actions = << >> /\ local \in Maps
      BY <1>2 DEF Built!Effect, Baseline, BuilderTypes
    <2>2. Built!Replay(previous, applied) = local
      BY <2>1, ReplayNothing DEF Baseline
    <2>3. UNCHANGED saves
      BY <1>2, <2>2 DEF Built!Effect, Built!Autosave
    <2>4. Stays
      BY <1>2, <2>3 DEF Built!Effect, Built!api, Stays, Built!Seen
    <2>5. QED
      BY <1>0, <2>4 DEF Does
  <1>3. CASE Built!BeginSave
    <2>1. Begins
      BY <1>3 DEF Built!BeginSave, Built!api, Built!maps, Begins, Built!Seen
    <2>2. QED
      BY <1>0, <2>1 DEF Does
  <1>4. CASE Built!SendWrite
    <2> DEFINE w == writes[1]
               record == IF w.op = "delete" THEN Built!Deleted ELSE [w.record EXCEPT !.stamp = clock + 1]
    <2>1. w \in Writes /\ clock \in Nat
      BY <1>4 DEF Built!SendWrite, BuilderTypes
    <2>2. record \in Records
      BY <2>1, NoRecord DEF Records, Writes
    <2>3. Head(writes) = w
      OBVIOUS
    <2>4. /\ writes # << >> /\ ~ sent /\ sent' = TRUE /\ Built!Accepts(w) /\ clock < MaxStamps
          /\ clock' = clock + 1 /\ table' = [table EXCEPT ![w.id] = record]
          /\ inbox' = inbox \o << Built!Push(w.id, record), Built!Reply(w.id, record) >>
          /\ UNCHANGED <<made, Built!maps, versions, saves, writes, refused, bounds>>
      BY <1>4, <2>3, Zenon DEF Built!SendWrite
    <2>5. UNCHANGED Built!Seen
      BY <2>4 DEF Built!maps, Built!Seen
    <2>6. IF w.op = "delete" THEN record = Built!Deleted ELSE record = [w.record EXCEPT !.stamp = clock + 1]
      OBVIOUS
    <2> HIDE DEF record
    <2>7. Stores(record)
      BY <2>2, <2>4, <2>5, <2>6 DEF Stores
    <2>8. QED
      BY <1>0, <2>7 DEF Does
  <1>5. CASE Built!SendRefused
    <2>1. Refuses
      BY <1>5 DEF Built!SendRefused, Built!Spend, Built!api, Built!maps, Refuses, Built!Seen
    <2>2. QED
      BY <1>0, <2>1 DEF Does
  <1>6. CASE Built!ReceivePush
    <2> DEFINE c == inbox[1]
    <2>1. c \in Messages /\ local \in Maps /\ actions \in Seq(Messages)
      BY <1>6 DEF Built!ReceivePush, BuilderTypes
    <2>2. Built!Seen' = Built!ApplyRemoteRecord(Built!Seen, c)
      BY <1>6, <2>1, ReplayOneMore DEF Built!ReceivePush, Built!Seen
    <2>3. Head(inbox) = c
      OBVIOUS
    <2>4. versions' = [versions EXCEPT ![c.id] = Known(c)]
      BY <1>6, <2>3, Zenon DEF Built!ReceivePush, Known
    <2>5. Hears(c)
      BY <1>6, <2>1, <2>2, <2>3, <2>4 DEF Built!ReceivePush, Built!api, Built!queue, Hears
    <2>6. QED
      BY <1>0, <2>5 DEF Does
  <1>7. CASE Built!ReceiveReply
    <2>1. inbox[1] \in Messages
      BY <1>7 DEF Built!ReceiveReply, BuilderTypes
    <2>2. Head(inbox) = inbox[1]
      OBVIOUS
    <2>3. versions' = [versions EXCEPT ![inbox[1].id] = Known(inbox[1])]
      BY <1>7, <2>2, Zenon DEF Built!ReceiveReply, Known
    <2>4. Answered(inbox[1])
      BY <1>7, <2>1, <2>2, <2>3 DEF Built!ReceiveReply, Built!api, Built!maps, Answered, Built!Seen
    <2>5. QED
      BY <1>0, <2>4 DEF Does
  <1>8. CASE Built!ReceiveError
    <2>1. inbox[1] \in Messages
      BY <1>8 DEF Built!ReceiveError, BuilderTypes
    <2>2. Answered(inbox[1])
      BY <1>8, <2>1 DEF Built!ReceiveError, Built!api, Built!maps, Answered, Built!Seen
    <2>3. QED
      BY <1>0, <2>2 DEF Does
  <1>9. CASE Built!LoseSocket
    <2>1. Loses
      BY <1>9 DEF Built!LoseSocket, Built!Spend, Built!api, Built!maps, Built!queue, Loses, Built!Seen
    <2>2. QED
      BY <1>0, <2>1 DEF Does
  <1>10. ASSUME NEW e, Built!Edit(e), Edited(e) PROVE Does
    <2>1. Edits(e)
      BY <1>10, EditDoes DEF Edits, Saved
    <2>2. QED
      BY <1>0, <2>1 DEF Does
  <1>11. ASSUME NEW x \in Built!Record, Built!Update(x) PROVE Does
    BY <1>10, <1>11, UpdateEdits
  <1>12. ASSUME NEW r \in RowRecords, Built!AddRow(r) \/ Built!RemoveRow(r) PROVE Does
    BY <1>10, <1>12, AddRowEdits, RemoveRowEdits
  <1>13. ASSUME NEW x \in Built!Record, Built!OtherUpdate(x) PROVE Does
    <2> DEFINE changes == [y \in {x} |-> table[x]]
    <2>1. DOMAIN changes = {x} /\ {x} \in SUBSET Built!Record /\ \A y \in {x} : changes[y] \in Records
      BY DEF BuilderTypes, Maps
    <2>2. Built!OtherStores(changes)
      BY <1>13 DEF Built!OtherUpdate
    <2> HIDE DEF changes
    <2>3. \E told : Hurries(told)
      BY <2>1, <2>2, Told
    <2>4. QED
      BY <1>0, <2>3 DEF Does
  <1>14. ASSUME NEW r \in RowRecords, Built!OtherAdd(r) PROVE Does
    <2> DEFINE kept == Built!Referring(table[PageRecord], table[PageRecord].refs \cup {r})
               row == [Built!Absent EXCEPT !.content = 1]
               changes == [y \in {r, PageRecord} |-> IF y = r THEN row ELSE kept]
    <2>1. {r, PageRecord} \in SUBSET Built!Record /\ table[PageRecord] \in Records
      BY BuilderConstants DEF BuilderTypes, Maps
    <2>2. kept \in Records /\ row \in Records
      BY <2>1, NoRecord DEF Records, Built!Referring, Built!Absent
    <2>3. DOMAIN changes = {r, PageRecord} /\ \A y \in {r, PageRecord} : changes[y] \in Records
      BY <2>2
    <2>4. Built!OtherStores(changes)
      BY <1>14 DEF Built!OtherAdd
    <2> HIDE DEF changes
    <2>5. \E told : Hurries(told)
      BY <2>1, <2>3, <2>4, Told
    <2>6. QED
      BY <1>0, <2>5 DEF Does
  <1>15. ASSUME NEW r \in RowRecords, Built!OtherRemove(r) PROVE Does
    <2> DEFINE kept == Built!Referring(table[PageRecord], table[PageRecord].refs \ {r})
               changes == [y \in {r, PageRecord} |-> IF y = r THEN Built!Absent ELSE kept]
    <2>1. {r, PageRecord} \in SUBSET Built!Record /\ table[PageRecord] \in Records
      BY BuilderConstants DEF BuilderTypes, Maps
    <2>2. kept \in Records /\ Built!Absent \in Records
      BY <2>1, NoRecord DEF Records, Built!Referring
    <2>3. DOMAIN changes = {r, PageRecord} /\ \A y \in {r, PageRecord} : changes[y] \in Records
      BY <2>2
    <2>4. Built!OtherStores(changes)
      BY <1>15 DEF Built!OtherRemove
    <2> HIDE DEF changes
    <2>5. \E told : Hurries(told)
      BY <2>1, <2>3, <2>4, Told
    <2>6. QED
      BY <1>0, <2>5 DEF Does
  <1>16. QED
    BY <1>1, <1>2, <1>3, <1>4, <1>5, <1>6, <1>7, <1>8, <1>9, <1>11, <1>12, <1>13, <1>14, <1>15
       DEF Built!Next, Built!Work

\* The effect of a render finds nothing to save: what it shows is where the
\* remote changes moved the baseline.
LEMMA BaselineStep ==
    ASSUME BuilderTypes, Baseline, NothingIsNewer, Built!Next
    PROVE  Baseline'
  <1>0. /\ local \in Maps /\ previous \in Maps /\ Built!Seen \in Maps
        /\ actions \in Seq(Messages) /\ applied \in Seq(Messages)
    BY SeenType DEF BuilderTypes
  <1>1. CASE Built!Render
    BY <1>0, <1>1, ReplayNothing DEF Built!Render, Built!Show, Baseline, Built!Seen
  <1>2. CASE Built!Effect
    BY <1>0, <1>2, ReplayNothing DEF Built!Effect, Built!Autosave, Baseline
  <1>3. CASE UNCHANGED <<local, previous, actions, applied, effect>>
    BY <1>3 DEF Baseline
  <1>4. CASE Built!ReceivePush
    <2>1. inbox[1] \in Messages /\ ~ effect
      BY <1>4 DEF Built!ReceivePush, BuilderTypes
    <2>2. QED
      BY <1>0, <1>4, <2>1, ReplayOneMore DEF Built!ReceivePush, Baseline
  <1>5. ASSUME NEW e, Built!Edit(e), Edited(e) PROVE Baseline'
    <2>1. /\ local' = e /\ previous' = e /\ actions' = << >> /\ applied' = << >> /\ effect' = FALSE
      BY <1>5, EditDoes
    <2>2. QED
      BY <2>1 DEF Baseline
  <1>6. ASSUME NEW x \in Built!Record, Built!Update(x) PROVE Baseline'
    BY <1>5, <1>6, UpdateEdits
  <1>7. ASSUME NEW r \in RowRecords, Built!AddRow(r) \/ Built!RemoveRow(r) PROVE Baseline'
    BY <1>5, <1>7, AddRowEdits, RemoveRowEdits
  <1>8. \/ Built!Render \/ Built!Effect \/ Built!ReceivePush
        \/ UNCHANGED <<local, previous, actions, applied, effect>>
        \/ \E x \in Built!Record : Built!Update(x)
        \/ \E r \in RowRecords : Built!AddRow(r) \/ Built!RemoveRow(r)
    BY DEF Built!Next, Built!Work, Built!BeginSave, Built!SendWrite, Built!SendRefused,
           Built!ReceiveReply, Built!ReceiveError, Built!LoseSocket, Built!OtherUpdate,
           Built!OtherAdd, Built!OtherRemove, Built!OtherStores, Built!maps
  <1>9. QED
    BY <1>1, <1>2, <1>3, <1>4, <1>6, <1>7, <1>8

\* A sequence without its first, and one after another.
LEMMA Shorter ==
    ASSUME NEW T, NEW s \in Seq(T), s # << >>
    PROVE  /\ Tail(s) \in Seq(T) /\ Len(Tail(s)) = Len(s) - 1 /\ 1 \in DOMAIN s /\ s[1] \in T
           /\ \A i \in DOMAIN Tail(s) : i \in Nat /\ i + 1 \in DOMAIN s /\ Tail(s)[i] = s[i + 1]
           /\ \A i \in DOMAIN s : i = 1 \/ (i - 1 \in DOMAIN Tail(s) /\ s[i] = Tail(s)[i - 1])
  OBVIOUS

LEMMA Longer ==
    ASSUME NEW T, NEW s \in Seq(T), NEW t \in Seq(T)
    PROVE  /\ s \o t \in Seq(T) /\ Len(s \o t) = Len(s) + Len(t) /\ Len(s) \in Nat /\ Len(t) \in Nat
           /\ \A i \in DOMAIN (s \o t) :
                 \/ i \in DOMAIN s /\ (s \o t)[i] = s[i]
                 \/ i \in Nat /\ i > Len(s) /\ i - Len(s) \in DOMAIN t /\ (s \o t)[i] = t[i - Len(s)]
           /\ \A i \in DOMAIN s : i \in DOMAIN (s \o t) /\ (s \o t)[i] = s[i] /\ i \in Nat /\ i <= Len(s)
           /\ \A i \in DOMAIN t : Len(s) + i \in DOMAIN (s \o t) /\ (s \o t)[Len(s) + i] = t[i]
  <1>1. /\ s \o t \in Seq(T) /\ Len(s \o t) = Len(s) + Len(t)
        /\ \A i \in 1 .. Len(s) + Len(t) : (s \o t)[i] = IF i <= Len(s) THEN s[i] ELSE t[i - Len(s)]
    BY ConcatProperties
  <1> DEFINE u == s \o t
  <1> HIDE DEF u
  <1>2. DOMAIN s = 1 .. Len(s) /\ DOMAIN t = 1 .. Len(t) /\ DOMAIN u = 1 .. Len(u) /\ Len(s) \in Nat /\ Len(t) \in Nat
    BY <1>1 DEF u
  <1>3. Len(u) = Len(s) + Len(t) /\ \A i \in 1 .. Len(s) + Len(t) : u[i] = IF i <= Len(s) THEN s[i] ELSE t[i - Len(s)]
    BY <1>1 DEF u
  <1>4. /\ \A i \in DOMAIN u :
              \/ i \in DOMAIN s /\ u[i] = s[i]
              \/ i \in Nat /\ i > Len(s) /\ i - Len(s) \in DOMAIN t /\ u[i] = t[i - Len(s)]
        /\ \A i \in DOMAIN s : i \in DOMAIN u /\ u[i] = s[i] /\ i \in Nat /\ i <= Len(s)
        /\ \A i \in DOMAIN t : Len(s) + i \in DOMAIN u /\ u[Len(s) + i] = t[i]
    BY <1>2, <1>3
  <1>5. QED
    BY <1>1, <1>2, <1>4 DEF u

LEMMA Elements == \A T : \A s \in Seq(T) : \A i \in DOMAIN s : s[i] \in T
  OBVIOUS

LEMMA Empty == \A T : << >> \in Seq(T)
  OBVIOUS

Counts == [edits : Nat, others : Nat, faults : Nat, losses : Nat]

LEMMA Counting ==
    ASSUME NEW b \in Counts
    PROVE  /\ [b EXCEPT !.edits = @ + 1] \in Counts /\ [b EXCEPT !.others = @ + 1] \in Counts
           /\ [b EXCEPT !.faults = @ + 1] \in Counts /\ [b EXCEPT !.losses = @ + 1] \in Counts
           /\ [b EXCEPT !.edits = @ + 1].edits = b.edits + 1
           /\ [b EXCEPT !.others = @ + 1].others = b.others + 1
           /\ [b EXCEPT !.losses = @ + 1].losses = b.losses + 1
           /\ [b EXCEPT !.edits = @ + 1].others = b.others /\ [b EXCEPT !.edits = @ + 1].losses = b.losses
           /\ [b EXCEPT !.others = @ + 1].edits = b.edits /\ [b EXCEPT !.others = @ + 1].losses = b.losses
           /\ [b EXCEPT !.faults = @ + 1].edits = b.edits /\ [b EXCEPT !.faults = @ + 1].losses = b.losses
           /\ [b EXCEPT !.faults = @ + 1].others = b.others
           /\ [b EXCEPT !.losses = @ + 1].edits = b.edits /\ [b EXCEPT !.losses = @ + 1].others = b.others
           /\ b.edits \in Nat /\ b.others \in Nat /\ b.faults \in Nat /\ b.losses \in Nat
  BY DEF Counts

\* A call is answered once, and last of what the builder's own writes bring.
Answers ==
    /\ sent => writes # << >>
    /\ \A i \in DOMAIN inbox : inbox[i].kind # "push" =>
          sent /\ \A j \in DOMAIN inbox : inbox[j].kind # "push" => i = j
    /\ sent /\ bounds.losses = 0 => \E i \in DOMAIN inbox : inbox[i].kind # "push"
    /\ \A i \in DOMAIN inbox : inbox[i].kind = "error" => refused # 0
    /\ bounds.others = 0 /\ inbox # << >> => inbox[Len(inbox)].kind # "push"

Sound == BuilderTypes /\ Baseline /\ NothingIsNewer /\ Answers

\* The two messages of a write that was accepted.
LEMMA Pair ==
    ASSUME BuilderTypes, NEW record, Stores(record)
    PROVE  LET x == writes[1].id
               told == << Built!Push(x, record), Built!Reply(x, record) >>
           IN  /\ writes[1] \in Writes /\ x \in Built!Record /\ record \in Records
               /\ told \in Seq(Messages) /\ DOMAIN told = {1, 2} /\ Len(told) = 2
               /\ told[1].kind = "push" /\ told[2].kind = "reply"
               /\ \A i \in {1, 2} : told[i].id = x /\ told[i].record = record
               /\ inbox' = inbox \o told
               /\ table' \in Maps /\ table'[x] = record
               /\ \A y \in Built!Record : y # x => table'[y] = table[y]
  <1> DEFINE w == writes[1]
             x == w.id
             a == Built!Push(x, record)
             b == Built!Reply(x, record)
  <1>1. w \in Writes /\ table \in Maps
    BY DEF BuilderTypes, Stores
  <1>2. x \in Built!Record /\ record \in Records /\ inbox' = inbox \o << a, b >>
        /\ table' = [table EXCEPT ![x] = record]
    BY <1>1 DEF Stores, Writes
  <1>3. /\ a \in Messages /\ b \in Messages /\ a.kind = "push" /\ b.kind = "reply"
        /\ a.id = x /\ b.id = x /\ a.record = record /\ b.record = record
    BY <1>2 DEF Messages, Built!Push, Built!Reply
  <1> HIDE DEF a, b, x
  <1>4. /\ << a, b >> \in Seq(Messages) /\ DOMAIN << a, b >> = {1, 2} /\ Len(<< a, b >>) = 2
        /\ << a, b >>[1] = a /\ << a, b >>[2] = b
    BY <1>3
  <1>5. table' \in Maps /\ table'[x] = record /\ \A y \in Built!Record : y # x => table'[y] = table[y]
    BY <1>1, <1>2 DEF Maps
  <1> DEFINE told == << a, b >>
  <1> HIDE DEF told
  <1>6. /\ told \in Seq(Messages) /\ DOMAIN told = {1, 2} /\ Len(told) = 2
        /\ told[1] = a /\ told[2] = b /\ inbox' = inbox \o told
    BY <1>2, <1>4 DEF told
  <1>7. told[1].kind = "push" /\ told[2].kind = "reply" /\ \A i \in {1, 2} : told[i].id = x /\ told[i].record = record
    BY <1>3, <1>6
  <1>8. QED
    BY <1>1, <1>2, <1>5, <1>6, <1>7 DEF told, a, b, x

LEMMA OneError ==
    ASSUME BuilderTypes, Refuses
    PROVE  LET told == << Built!Error(writes[1].id) >>
           IN  /\ inbox' = inbox \o told /\ told \in Seq(Messages) /\ DOMAIN told = {1} /\ Len(told) = 1
               /\ told[1].kind = "error" /\ told[1].record = Built!Absent
  <1> DEFINE a == Built!Error(writes[1].id)
  <1>1. writes[1] \in Writes /\ inbox \in Seq(Messages)
    BY DEF BuilderTypes, Refuses
  <1>2. a \in Messages /\ a.kind = "error" /\ a.record = Built!Absent
    BY <1>1, NoRecord DEF Messages, Writes, Built!Error
  <1>3. inbox' = Append(inbox, a)
    BY DEF Refuses
  <1> HIDE DEF a
  <1>4. inbox' = inbox \o << a >>
    BY <1>1, <1>2, <1>3
  <1>5. /\ << a >> \in Seq(Messages) /\ DOMAIN << a >> = {1} /\ Len(<< a >>) = 1 /\ << a >>[1] = a
    BY <1>2
  <1>6. QED
    BY <1>2, <1>4, <1>5 DEF a

\* The writes of the next save.
LEMMA BeginsWith ==
    ASSUME BuilderTypes, Begins
    PROVE  /\ saves[1] \in Saves /\ saves[1].previous \in Maps /\ saves[1].next \in Maps
           /\ writes' \in Seq(Writes)
           /\ \A i \in DOMAIN writes' :
                 LET x == writes'[i].id
                 IN  /\ x \in Built!Record
                     /\ IF writes'[i].op = "delete"
                        THEN /\ writes'[i].record = Built!Absent
                             /\ Built!Is(saves[1].previous[x]) /\ ~ Built!Is(saves[1].next[x])
                        ELSE /\ writes'[i].record = saves[1].next[x] /\ Built!Is(saves[1].next[x])
                             /\ saves[1].previous[x].content # saves[1].next[x].content
           /\ \A x \in Built!Record : saves[1].previous[x].content # saves[1].next[x].content =>
                 \E i \in DOMAIN writes' : writes'[i].id = x
           /\ \A i, j \in DOMAIN writes' : i < j =>
                 /\ writes'[i].op = "delete" => writes'[j].op = "delete"
                 /\ writes'[i].id = PageRecord /\ writes'[j].op # "delete" => writes'[j].id = PageRecord
  <1> DEFINE p == saves[1].previous
             n == saves[1].next
  <1>1. saves[1] \in Saves
    BY DEF BuilderTypes, Begins
  <1>2. p \in Maps /\ n \in Maps
    BY <1>1 DEF Saves
  <1>3. writes' = Built!Writes(p, n)
    BY DEF Begins
  <1> DEFINE v == writes'
  <1> HIDE DEF p, n, v
  <1>a. v = Built!Writes(p, n)
    BY <1>3 DEF v
  <1>4. /\ v \in Seq(Writes)
        /\ \A i \in 1 .. Len(v) :
              LET x == v[i].id
              IN  IF v[i].op = "delete"
                  THEN v[i].record = Built!Absent /\ Built!Is(p[x]) /\ ~ Built!Is(n[x])
                  ELSE v[i].record = n[x] /\ Built!Is(n[x]) /\ p[x].content # n[x].content
        /\ \A x \in Built!Record : p[x].content # n[x].content =>
              \E i \in 1 .. Len(v) : v[i].id = x
        /\ \A i, j \in 1 .. Len(v) : i < j =>
              /\ v[i].op = "delete" => v[j].op = "delete"
              /\ v[i].id = PageRecord /\ v[j].op # "delete" => v[j].id = PageRecord
    BY <1>2, <1>a, WritesOfASave
  <1>5. DOMAIN v = 1 .. Len(v) /\ \A i \in DOMAIN v : v[i].id \in Built!Record
    <2>1. v \in Seq(Writes)
      BY <1>4
    <2>2. DOMAIN v = 1 .. Len(v) /\ \A i \in DOMAIN v : v[i] \in Writes
      BY <2>1
    <2>3. QED
      BY <2>2 DEF Writes
  <1>6. QED
    BY <1>1, <1>2, <1>4, <1>5 DEF p, n, v

\* What the maps of the builder are made of, whatever the step.
LEMMA MapsStep ==
    ASSUME BuilderTypes, Baseline, NothingIsNewer, Built!Next
    PROVE  /\ local' \in Maps /\ previous' \in Maps
           /\ actions' \in Seq(Messages) /\ applied' \in Seq(Messages) /\ effect' \in BOOLEAN
  <1>0. /\ local \in Maps /\ previous \in Maps /\ Built!Seen \in Maps
        /\ actions \in Seq(Messages) /\ applied \in Seq(Messages) /\ effect \in BOOLEAN
    BY SeenType DEF BuilderTypes
  <1>1. CASE Built!Render
    BY <1>0, <1>1 DEF Built!Render, Built!Show, Built!Seen
  <1>2. CASE Built!Effect
    BY <1>0, <1>2, Empty DEF Built!Effect, Built!Autosave
  <1>3. CASE UNCHANGED <<local, previous, actions, applied, effect>>
    BY <1>0, <1>3
  <1>4. CASE Built!ReceivePush
    <2>1. inbox[1] \in Messages /\ Head(inbox) = inbox[1]
      BY <1>4 DEF Built!ReceivePush, BuilderTypes
    <2>2. QED
      BY <1>0, <1>4, <2>1 DEF Built!ReceivePush
  <1>5. ASSUME NEW e, Built!Edit(e), Edited(e)
        PROVE  /\ local' \in Maps /\ previous' \in Maps
               /\ actions' \in Seq(Messages) /\ applied' \in Seq(Messages) /\ effect' \in BOOLEAN
    <2>1. /\ local' = e /\ previous' = e /\ actions' = << >> /\ applied' = << >> /\ effect' = FALSE
      BY <1>5, EditDoes
    <2>2. QED
      BY <1>5, <2>1, Empty DEF Edited
  <1>6. ASSUME NEW x \in Built!Record, Built!Update(x)
        PROVE  /\ local' \in Maps /\ previous' \in Maps
               /\ actions' \in Seq(Messages) /\ applied' \in Seq(Messages) /\ effect' \in BOOLEAN
    BY <1>5, <1>6, UpdateEdits
  <1>7. ASSUME NEW r \in RowRecords, Built!AddRow(r) \/ Built!RemoveRow(r)
        PROVE  /\ local' \in Maps /\ previous' \in Maps
               /\ actions' \in Seq(Messages) /\ applied' \in Seq(Messages) /\ effect' \in BOOLEAN
    BY <1>5, <1>7, AddRowEdits, RemoveRowEdits
  <1>8. \/ Built!Render \/ Built!Effect \/ Built!ReceivePush
        \/ UNCHANGED <<local, previous, actions, applied, effect>>
        \/ \E x \in Built!Record : Built!Update(x)
        \/ \E r \in RowRecords : Built!AddRow(r) \/ Built!RemoveRow(r)
    BY DEF Built!Next, Built!Work, Built!BeginSave, Built!SendWrite, Built!SendRefused,
           Built!ReceiveReply, Built!ReceiveError, Built!LoseSocket, Built!OtherUpdate,
           Built!OtherAdd, Built!OtherRemove, Built!OtherStores, Built!maps
  <1>9. QED
    BY <1>1, <1>2, <1>3, <1>4, <1>6, <1>7, <1>8

\* The rest of the state.
Rest ==
    /\ setting \in Built!Setting
    /\ clock \in Nat \ {0} /\ table \in Maps /\ versions \in [Built!Record -> Nat]
    /\ saves \in Seq(Saves) /\ writes \in Seq(Writes) /\ sent \in BOOLEAN
    /\ inbox \in Seq(Messages) /\ refused \in Nat
    /\ bounds \in Counts

LEMMA RestStep ==
    ASSUME BuilderTypes, Answers, Does
    PROVE  Rest'
  <1>0. Rest /\ UNCHANGED setting
    BY DEF BuilderTypes, Rest, Does, Counts
  <1>1. CASE Stays
    BY <1>0, <1>1 DEF Stays, Rest
  <1>2. CASE Begins
    <2>1. saves' \in Seq(Saves)
      BY <1>2, Shorter DEF BuilderTypes, Begins
    <2>2. writes' \in Seq(Writes)
      BY <1>2, BeginsWith
    <2>3. QED
      BY <1>0, <1>2, <2>1, <2>2 DEF Begins, Rest
  <1>3. CASE Refuses
    <2> DEFINE told == << Built!Error(writes[1].id) >>
    <2>1. inbox' = inbox \o told /\ told \in Seq(Messages)
      BY <1>3, OneError
    <2> HIDE DEF told
    <2>2. inbox' \in Seq(Messages)
      BY <2>1, Longer DEF BuilderTypes
    <2>3. bounds' \in Counts
      BY <1>0, <1>3, Counting DEF Refuses, Rest
    <2>4. QED
      BY <1>0, <1>3, <2>2, <2>3 DEF Refuses, Rest
  <1>4. CASE Loses
    BY <1>0, <1>4, Counting, Empty DEF Loses, Rest
  <1>5. ASSUME NEW e, Edits(e) PROVE Rest'
    <2>1. PICK save \in Saves : saves' = Append(saves, save)
      BY <1>5 DEF Edits
    <2>2. saves' \in Seq(Saves)
      BY <2>1 DEF BuilderTypes
    <2>3. bounds' \in Counts
      BY <1>0, <1>5, Counting DEF Edits, Rest
    <2>4. QED
      BY <1>0, <1>5, <2>2, <2>3 DEF Edits, Rest
  <1>6. ASSUME NEW record, Stores(record) PROVE Rest'
    <2> DEFINE told == << Built!Push(writes[1].id, record), Built!Reply(writes[1].id, record) >>
    <2>1. inbox' = inbox \o told /\ told \in Seq(Messages) /\ table' \in Maps
      BY <1>6, Pair
    <2> HIDE DEF told
    <2>2. inbox' \in Seq(Messages)
      BY <2>1, Longer DEF BuilderTypes
    <2>3. QED
      BY <1>0, <1>6, <2>1, <2>2 DEF Stores, Rest
  <1>7. ASSUME NEW c, Hears(c) \/ Answered(c) PROVE Rest'
    <2>1. inbox' \in Seq(Messages) /\ c \in Messages /\ inbox # << >> /\ c = inbox[1]
      <3>1. inbox # << >> /\ inbox' = Tail(inbox) /\ c \in Messages /\ c = inbox[1]
        BY <1>7 DEF Hears, Answered
      <3>2. QED
        BY <3>1, Shorter DEF BuilderTypes
    <2>2. Known(c) \in Nat /\ c.id \in Built!Record
      BY <2>1 DEF Known, Messages, Records
    <2>3. versions' \in [Built!Record -> Nat]
      BY <1>0, <1>7, <2>2 DEF Hears, Answered, Rest
    <2>4. CASE Hears(c)
      BY <1>0, <2>1, <2>3, <2>4 DEF Hears, Rest
    <2>5. CASE Answered(c)
      <3>1. 1 \in DOMAIN inbox
        BY <2>1, Shorter DEF BuilderTypes
      <3>2. writes # << >>
        BY <2>1, <2>5, <3>1 DEF Answers, Answered
      <3>3. Tail(writes) \in Seq(Writes)
        BY <3>2, Shorter DEF BuilderTypes
      <3>4. writes' \in Seq(Writes)
        BY <2>5, <3>3, Empty DEF Answered
      <3>5. QED
        BY <1>0, <2>1, <2>3, <2>5, <3>4 DEF Answered, Rest
    <2>6. QED
      BY <1>7, <2>4, <2>5
  <1>8. ASSUME NEW told, Hurries(told) PROVE Rest'
    <2>1. inbox' \in Seq(Messages) /\ table' \in Maps
      BY <1>8, Longer DEF Hurries, Announces, BuilderTypes
    <2>2. bounds' \in Counts
      BY <1>0, <1>8, Counting DEF Hurries, Rest
    <2>3. QED
      BY <1>0, <1>8, <2>1, <2>2 DEF Hurries, Rest
  <1>9. QED
    BY <1>1, <1>2, <1>3, <1>4, <1>5, <1>6, <1>7, <1>8 DEF Does

\* Applying a change leaves each record as it was, without, or as the change says.
LEMMA AppliedIs ==
    ASSUME BuilderTypes, NEW c, Hears(c), NEW x \in Built!Record
    PROVE  Built!Seen'[x] \in {Built!Seen[x], Built!Absent, c.record}
  <1>1. Built!Seen \in Maps /\ c \in Messages /\ Built!Seen' = Built!ApplyRemoteRecord(Built!Seen, c)
    BY SeenType DEF Hears
  <1> DEFINE m == Built!Seen
             n == Built!ApplyRemoteRecord(m, c)
  <1> HIDE DEF m, n
  <1>2. /\ m \in Maps /\ Built!Seen' = n
    BY <1>1 DEF m, n
  <1>3. /\ x # c.id => n[x] = m[x]
        /\ n[c.id] = IF ~ Built!Is(c.record) THEN Built!Absent
                     ELSE IF Built!Is(m[c.id]) /\ m[c.id].stamp >= c.record.stamp THEN m[c.id]
                     ELSE c.record
    BY <1>1, <1>2, Applying DEF n
  <1>4. n[x] \in {m[x], Built!Absent, c.record}
    BY <1>3
  <1>5. QED
    BY <1>2, <1>4 DEF m

LEMMA NewerStep ==
    ASSUME BuilderTypes, NothingIsNewer, Answers, Does, Rest'
    PROVE  NothingIsNewer'
  <1> DEFINE m == Built!Seen
             N(n, t, i, w, q, k) ==
                /\ \A x \in Built!Record : n[x].content <= k /\ (setting.skew # "ahead" => n[x].stamp <= k)
                /\ \A x \in Built!Record : t[x].content <= k /\ t[x].stamp <= k
                /\ \A j \in DOMAIN i : i[j].record.content <= k /\ (setting.skew # "ahead" => i[j].record.stamp <= k)
                /\ \A j \in DOMAIN w : w[j].record.content <= k
                /\ \A j \in DOMAIN q : \A x \in Built!Record : q[j].next[x].content <= k
  <1>0. /\ UNCHANGED setting /\ m \in Maps /\ clock \in Nat /\ clock >= 1 /\ table \in Maps
        /\ saves \in Seq(Saves) /\ writes \in Seq(Writes) /\ inbox \in Seq(Messages)
        /\ setting.skew \in {"behind", "true", "ahead"}
    BY SeenType DEF BuilderTypes, Does, Built!Setting
  <1>1. N(m, table, inbox, writes, saves, clock)
    BY DEF NothingIsNewer, Made
  <1>2. N(Built!Seen', table', inbox', writes', saves', clock') => NothingIsNewer'
    BY <1>0 DEF NothingIsNewer, Made
  <1>3. \A x \in Built!Record : m[x].content \in Nat /\ m[x].stamp \in Nat /\ table[x].content \in Nat /\ table[x].stamp \in Nat
    BY <1>0 DEF Maps, Records
  <1>a. /\ \A j \in DOMAIN inbox : inbox[j] \in Messages
        /\ \A j \in DOMAIN writes : writes[j] \in Writes
        /\ \A j \in DOMAIN saves : saves[j] \in Saves
    BY <1>0, Elements
  <1>4. \A j \in DOMAIN inbox : inbox[j].record.content \in Nat /\ inbox[j].record.stamp \in Nat
    BY <1>a DEF Messages, Records
  <1>5. \A j \in DOMAIN writes : writes[j].record \in Records /\ writes[j].record.content \in Nat
    BY <1>a DEF Writes, Records
  <1>6. \A j \in DOMAIN saves : \A x \in Built!Record : saves[j].next[x].content \in Nat
    BY <1>a DEF Saves, Maps, Records
  <1>7. N(m, table, inbox, writes, saves, clock + 1)
    BY <1>0, <1>1, <1>3, <1>4, <1>5, <1>6
  <1>8. CASE Stays
    BY <1>1, <1>2, <1>8 DEF Stays
  <1>9. CASE Begins
    <2>1. \A j \in DOMAIN saves' : j + 1 \in DOMAIN saves /\ saves'[j] = saves[j + 1]
      BY <1>0, <1>9, Shorter DEF Begins
    <2>2. 1 \in DOMAIN saves
      BY <1>0, <1>9, Shorter DEF Begins
    <2>3. \A j \in DOMAIN writes' : writes'[j].record.content <= clock
      <3> SUFFICES ASSUME NEW j \in DOMAIN writes' PROVE writes'[j].record.content <= clock
        OBVIOUS
      <3>1. /\ writes'[j].id \in Built!Record
            /\ writes'[j].record = Built!Absent \/ writes'[j].record = saves[1].next[writes'[j].id]
        BY <1>9, BeginsWith
      <3>2. QED
        BY <1>0, <1>1, <2>2, <3>1, NoRecord
    <2>4. \A j \in DOMAIN saves' : \A x \in Built!Record : saves'[j].next[x].content <= clock
      BY <1>1, <2>1
    <2> HIDE DEF m
    <2>5. N(m, table, inbox, writes', saves', clock)
      BY <1>1, <2>3, <2>4
    <2>6. QED
      BY <1>2, <1>9, <2>5 DEF Begins, m
  <1>10. CASE Refuses
    <2> DEFINE told == << Built!Error(writes[1].id) >>
    <2>1. inbox' = inbox \o told /\ told \in Seq(Messages) /\ DOMAIN told = {1} /\ told[1].record = Built!Absent
      BY <1>10, OneError
    <2> HIDE DEF told, m
    <2>2. \A j \in DOMAIN inbox' : \/ j \in DOMAIN inbox /\ inbox'[j] = inbox[j]
                                   \/ inbox'[j].record = Built!Absent
      BY <1>0, <2>1, Longer
    <2>3. \A j \in DOMAIN inbox' : inbox'[j].record.content <= clock /\ (setting.skew # "ahead" => inbox'[j].record.stamp <= clock)
      BY <1>0, <1>1, <2>2, NoRecord
    <2>4. N(m, table, inbox', writes, saves, clock)
      BY <1>1, <2>3
    <2>5. QED
      BY <1>2, <1>10, <2>4 DEF Refuses, m
  <1>11. CASE Loses
    <2>1. inbox' = << >> /\ DOMAIN << >> = {}
      BY <1>11 DEF Loses
    <2> HIDE DEF m
    <2>2. N(m, table, inbox', writes, saves, clock)
      BY <1>1, <2>1
    <2>3. QED
      BY <1>2, <1>11, <2>2 DEF Loses, m
  <1>12. ASSUME NEW e, Edits(e) PROVE NothingIsNewer'
    <2>1. PICK save \in Saves : saves' = Append(saves, save) /\ Saved(save, e)
      BY <1>12 DEF Edits
    <2>2. /\ Edited(e) /\ Built!Seen' = e /\ clock' = clock + 1
          /\ UNCHANGED <<table, writes, inbox>>
      BY <1>12 DEF Edits
    <2>3. Now <= clock + 1 \/ setting.skew = "ahead"
      BY <1>0 DEF Now
    <2>4. \A x \in Built!Record : \/ e[x] = m[x] \/ e[x] = Built!Absent
                                  \/ e[x].content = clock + 1 /\ e[x].stamp = Now
      BY <2>2 DEF Edited
    <2> HIDE DEF m
    <2>5. \A x \in Built!Record : e[x].content <= clock + 1 /\ (setting.skew # "ahead" => e[x].stamp <= clock + 1)
      BY <1>0, <1>7, <2>3, <2>4, NoRecord
    <2>6. \A x \in Built!Record : save.next[x].content <= clock + 1
      BY <1>0, <2>1, <2>5, NoRecord DEF Saved
    <2>7. \A j \in DOMAIN saves' : (j \in DOMAIN saves /\ saves'[j] = saves[j]) \/ saves'[j] = save
      BY <1>0, <2>1
    <2>8. \A j \in DOMAIN saves' : \A x \in Built!Record : saves'[j].next[x].content <= clock + 1
      BY <1>7, <2>6, <2>7
    <2>9. N(e, table, inbox, writes, saves', clock + 1)
      BY <1>7, <2>5, <2>8
    <2>10. QED
      BY <1>2, <2>2, <2>9
  <1>13. ASSUME NEW record, Stores(record) PROVE NothingIsNewer'
    <2> DEFINE told == << Built!Push(writes[1].id, record), Built!Reply(writes[1].id, record) >>
               x == writes[1].id
    <2>1. /\ inbox' = inbox \o told /\ told \in Seq(Messages) /\ DOMAIN told = {1, 2}
          /\ \A i \in {1, 2} : told[i].record = record
          /\ table'[x] = record /\ \A y \in Built!Record : y # x => table'[y] = table[y]
      BY <1>13, Pair
    <2>2. 1 \in DOMAIN writes /\ clock' = clock + 1 /\ UNCHANGED <<Built!Seen, writes, saves>>
      BY <1>0, <1>13 DEF Stores
    <2>3. record.content <= clock + 1 /\ record.stamp <= clock + 1
      <3>1. CASE writes[1].op = "delete"
        BY <1>0, <1>13, <3>1, NoRecord DEF Stores
      <3>2. CASE writes[1].op # "delete"
        <4>1. record = [writes[1].record EXCEPT !.stamp = clock + 1] /\ writes[1].record \in Records
          BY <1>5, <1>13, <2>2, <3>2 DEF Stores
        <4>2. record.content = writes[1].record.content /\ record.stamp = clock + 1
          BY <4>1 DEF Records
        <4>3. QED
          BY <1>0, <1>7, <2>2, <4>2
      <3>3. QED
        BY <3>1, <3>2
    <2> HIDE DEF told, x, m
    <2>4. \A j \in DOMAIN inbox' : (j \in DOMAIN inbox /\ inbox'[j] = inbox[j]) \/ inbox'[j].record = record
      BY <1>0, <2>1, Longer
    <2>5. \A j \in DOMAIN inbox' : inbox'[j].record.content <= clock + 1 /\ (setting.skew # "ahead" => inbox'[j].record.stamp <= clock + 1)
      BY <1>7, <2>3, <2>4
    <2>6. \A y \in Built!Record : table'[y].content <= clock + 1 /\ table'[y].stamp <= clock + 1
      BY <1>7, <2>1, <2>3
    <2>7. N(m, table', inbox', writes, saves, clock + 1)
      BY <1>7, <2>5, <2>6
    <2>8. QED
      BY <1>2, <2>2, <2>7 DEF m
  <1>14. ASSUME NEW c, Hears(c) \/ Answered(c) PROVE NothingIsNewer'
    <2>1. /\ inbox # << >> /\ inbox' = Tail(inbox) /\ c = inbox[1] /\ c \in Messages
          /\ UNCHANGED <<clock, table, saves>>
      BY <1>14 DEF Hears, Answered
    <2>2. 1 \in DOMAIN inbox /\ \A j \in DOMAIN inbox' : j + 1 \in DOMAIN inbox /\ inbox'[j] = inbox[j + 1]
      BY <1>0, <2>1, Shorter
    <2>3. \A j \in DOMAIN inbox' : inbox'[j].record.content <= clock /\ (setting.skew # "ahead" => inbox'[j].record.stamp <= clock)
      BY <1>1, <2>2
    <2>4. CASE Hears(c)
      <3>1. UNCHANGED writes /\ \A x \in Built!Record : Built!Seen'[x] \in {m[x], Built!Absent, c.record}
        BY <2>4, AppliedIs DEF Hears
      <3>2. \A x \in Built!Record : Built!Seen'[x].content <= clock /\ (setting.skew # "ahead" => Built!Seen'[x].stamp <= clock)
        <4> HIDE DEF m
        <4>1. QED
          BY <1>0, <1>1, <2>1, <2>2, <3>1, NoRecord
      <3>3. QED
        BY <1>1, <1>2, <2>1, <2>3, <3>1, <3>2
    <2>5. CASE Answered(c)
      <3>1. UNCHANGED Built!Seen /\ (writes' = Tail(writes) \/ writes' = << >>)
        BY <2>5 DEF Answered
      <3>2. writes # << >>
        BY <2>1, <2>2, <2>5 DEF Answers, Answered
      <3>3. \A j \in DOMAIN writes' : j + 1 \in DOMAIN writes /\ writes'[j] = writes[j + 1]
        <4>1. CASE writes' = << >>
          BY <4>1
        <4>2. CASE writes' = Tail(writes)
          BY <1>0, <3>2, <4>2, Shorter
        <4>3. QED
          BY <3>1, <4>1, <4>2
      <3>4. \A j \in DOMAIN writes' : writes'[j].record.content <= clock
        BY <1>1, <3>3
      <3> HIDE DEF m
      <3>5. N(m, table, inbox', writes', saves, clock)
        BY <1>1, <2>3, <3>4
      <3>6. QED
        BY <1>2, <2>1, <3>1, <3>5 DEF m
    <2>6. QED
      BY <1>14, <2>4, <2>5
  <1>15. ASSUME NEW told, Hurries(told) PROVE NothingIsNewer'
    <2>1. /\ Announces(told) /\ inbox' = inbox \o told /\ clock' = clock + 1
          /\ UNCHANGED <<Built!Seen, writes, saves>>
      BY <1>15 DEF Hurries
    <2>2. told \in Seq(Messages) /\ \A i \in DOMAIN told : told[i].id \in Built!Record /\ told[i].record = table'[told[i].id]
      <3>1. told \in Seq(Messages) /\ \A i \in DOMAIN told : told[i].record = table'[told[i].id]
        BY <2>1 DEF Announces
      <3>2. \A i \in DOMAIN told : told[i] \in Messages
        BY <3>1, Elements
      <3>3. QED
        BY <3>1, <3>2 DEF Messages
    <2>3. \A y \in Built!Record : table'[y].content <= clock + 1 /\ table'[y].stamp <= clock + 1
      <3> SUFFICES ASSUME NEW y \in Built!Record
                   PROVE  table'[y].content <= clock + 1 /\ table'[y].stamp <= clock + 1
        OBVIOUS
      <3>1. \/ table'[y] = table[y] \/ table'[y] = Built!Deleted
            \/ table'[y].content = clock + 1 /\ table'[y].stamp = clock + 1
        BY <2>1 DEF Announces
      <3>2. QED
        BY <1>0, <1>7, <3>1, NoRecord
    <2>4. \A j \in DOMAIN inbox' : \/ j \in DOMAIN inbox /\ inbox'[j] = inbox[j]
                                   \/ \E i \in DOMAIN told : inbox'[j] = told[i]
      BY <1>0, <2>1, <2>2, Longer
    <2>5. \A j \in DOMAIN inbox' : inbox'[j].record.content <= clock + 1 /\ (setting.skew # "ahead" => inbox'[j].record.stamp <= clock + 1)
      BY <1>7, <2>2, <2>3, <2>4
    <2> HIDE DEF m
    <2>6. N(m, table', inbox', writes, saves, clock + 1)
      BY <1>7, <2>3, <2>5
    <2>7. QED
      BY <1>2, <2>1, <2>6 DEF m
  <1>16. QED
    BY <1>8, <1>9, <1>10, <1>11, <1>12, <1>13, <1>14, <1>15 DEF Does

LEMMA AnswersStep ==
    ASSUME BuilderTypes, Answers, Does, Rest'
    PROVE  Answers'
  <1>0. /\ saves \in Seq(Saves) /\ writes \in Seq(Writes) /\ inbox \in Seq(Messages) /\ inbox' \in Seq(Messages)
        /\ bounds \in Counts /\ refused \in Nat
    BY DEF BuilderTypes, Rest, Counts
  <1>1. CASE Stays
    BY <1>1 DEF Stays, Answers
  <1>2. CASE Begins
    <2>1. ~ sent
      BY <1>2 DEF Begins, Answers
    <2>2. QED
      BY <1>2, <2>1 DEF Begins, Answers
  <1>3. ASSUME NEW told \in Seq(Messages), inbox' = inbox \o told, told # << >>,
               writes # << >>, ~ sent, sent', UNCHANGED <<writes, bounds>> \/ bounds'.others = bounds.others,
               UNCHANGED writes, bounds'.others = bounds.others,
               told[Len(told)].kind # "push", \A i \in DOMAIN told : told[i].kind # "push" => i = Len(told),
               \A i \in DOMAIN told : told[i].kind = "error" => refused' # 0, refused # 0 => refused' # 0
        PROVE  Answers'
    <2>1. Len(told) \in DOMAIN told /\ Len(inbox') = Len(inbox) + Len(told) /\ Len(inbox) \in Nat /\ Len(told) \in Nat
      BY <1>0, <1>3, Longer
    <2>2. inbox'[Len(inbox')] = told[Len(told)] /\ Len(inbox') \in DOMAIN inbox'
      BY <1>0, <1>3, <2>1, Longer
    <2>3. \A i \in DOMAIN inbox : inbox[i].kind = "push"
      BY <1>3 DEF Answers
    <2>4. \A i \in DOMAIN inbox' : \/ i \in DOMAIN inbox /\ inbox'[i] = inbox[i]
                                   \/ i \in Nat /\ i - Len(inbox) \in DOMAIN told /\ inbox'[i] = told[i - Len(inbox)]
      BY <1>0, <1>3, Longer
    <2>5. \A i \in DOMAIN inbox' : inbox'[i].kind # "push" => i = Len(inbox')
      <3> SUFFICES ASSUME NEW i \in DOMAIN inbox', inbox'[i].kind # "push" PROVE i = Len(inbox')
        OBVIOUS
      <3>1. i \in Nat /\ i - Len(inbox) \in DOMAIN told /\ inbox'[i] = told[i - Len(inbox)]
        BY <2>3, <2>4
      <3>2. i - Len(inbox) = Len(told)
        BY <1>3, <3>1
      <3>3. QED
        BY <2>1, <3>1, <3>2
    <2>6. \A i \in DOMAIN inbox' : inbox'[i].kind = "error" => refused' # 0
      BY <1>3, <2>3, <2>4
    <2>7. QED
      BY <1>3, <2>2, <2>5, <2>6 DEF Answers
  <1>4. CASE Refuses
    <2> DEFINE told == << Built!Error(writes[1].id) >>
    <2>1. /\ inbox' = inbox \o told /\ told \in Seq(Messages) /\ DOMAIN told = {1} /\ Len(told) = 1
          /\ told[1].kind = "error" /\ told # << >>
      BY <1>4, OneError
    <2> HIDE DEF told
    <2>2. bounds'.others = bounds.others
      BY <1>0, <1>4, Counting DEF Refuses
    <2>3. refused' # 0 /\ writes # << >> /\ ~ sent /\ sent' /\ UNCHANGED writes
      BY <1>0, <1>4 DEF Refuses
    <2>4. QED
      BY <1>3, <2>1, <2>2, <2>3
  <1>5. ASSUME NEW record, Stores(record) PROVE Answers'
    <2> DEFINE told == << Built!Push(writes[1].id, record), Built!Reply(writes[1].id, record) >>
    <2>1. /\ inbox' = inbox \o told /\ told \in Seq(Messages) /\ DOMAIN told = {1, 2} /\ Len(told) = 2
          /\ told[1].kind = "push" /\ told[2].kind = "reply" /\ told # << >>
      BY <1>5, Pair
    <2> HIDE DEF told
    <2>2. /\ bounds'.others = bounds.others /\ refused' = refused /\ writes # << >> /\ ~ sent /\ sent'
          /\ UNCHANGED writes
      BY <1>5 DEF Stores
    <2>3. \A i \in DOMAIN told : (told[i].kind # "push" => i = Len(told)) /\ told[i].kind # "error"
      BY <2>1
    <2>4. told[Len(told)].kind # "push"
      BY <2>1
    <2>5. QED
      BY <1>3, <2>1, <2>2, <2>3, <2>4
  <1>6. CASE Loses
    <2>1. /\ inbox' = << >> /\ DOMAIN << >> = {} /\ UNCHANGED <<writes, sent>>
          /\ bounds' = [bounds EXCEPT !.losses = @ + 1]
      BY <1>6 DEF Loses
    <2>a. bounds'.losses # 0
      <3>1. bounds'.losses = bounds.losses + 1 /\ bounds.losses \in Nat
        BY <1>0, <2>1, Counting
      <3>2. QED
        BY <3>1
    <2>2. QED
      BY <2>1, <2>a DEF Answers
  <1>7. ASSUME NEW e, Edits(e) PROVE Answers'
    <2>1. bounds'.others = bounds.others /\ bounds'.losses = bounds.losses /\ UNCHANGED <<inbox, writes, sent, refused>>
      BY <1>0, <1>7, Counting DEF Edits
    <2>2. QED
      BY <2>1 DEF Answers
  <1>8. ASSUME NEW c, Hears(c) \/ Answered(c) PROVE Answers'
    <2>1. inbox # << >> /\ inbox' = Tail(inbox) /\ c = inbox[1] /\ UNCHANGED <<refused, bounds>>
      BY <1>8 DEF Hears, Answered
    <2>2. /\ 1 \in DOMAIN inbox /\ Len(inbox') = Len(inbox) - 1 /\ Len(inbox) \in Nat
          /\ \A i \in DOMAIN inbox' : i \in Nat /\ i + 1 \in DOMAIN inbox /\ inbox'[i] = inbox[i + 1]
          /\ \A i \in DOMAIN inbox : i = 1 \/ (i - 1 \in DOMAIN inbox' /\ inbox[i] = inbox'[i - 1])
      BY <1>0, <2>1, Shorter
    <2>3. inbox' # << >> => Len(inbox') \in DOMAIN inbox' /\ inbox'[Len(inbox')] = inbox[Len(inbox)]
      <3>1. inbox' # << >> => Len(inbox') \in DOMAIN inbox'
        BY <1>0
      <3>2. QED
        BY <2>2, <3>1
    <2>4. CASE Hears(c)
      <3>1. c.kind = "push" /\ UNCHANGED <<writes, sent>>
        BY <2>4 DEF Hears
      <3>2. sent /\ bounds.losses = 0 => \E i \in DOMAIN inbox' : inbox'[i].kind # "push"
        BY <2>1, <2>2, <3>1 DEF Answers
      <3>3. \A i \in DOMAIN inbox' : inbox'[i].kind # "push" =>
                sent /\ \A j \in DOMAIN inbox' : inbox'[j].kind # "push" => i = j
        <4> SUFFICES ASSUME NEW i \in DOMAIN inbox', inbox'[i].kind # "push"
                     PROVE  sent /\ \A j \in DOMAIN inbox' : inbox'[j].kind # "push" => i = j
          OBVIOUS
        <4>1. sent /\ \A j \in DOMAIN inbox : inbox[j].kind # "push" => i + 1 = j
          BY <2>2 DEF Answers
        <4>2. QED
          BY <2>2, <4>1
      <3>4. \A i \in DOMAIN inbox' : inbox'[i].kind = "error" => refused # 0
        BY <2>2 DEF Answers
      <3>5. bounds.others = 0 /\ inbox' # << >> => inbox'[Len(inbox')].kind # "push"
        BY <2>1, <2>3 DEF Answers
      <3>6. QED
        BY <2>1, <3>1, <3>2, <3>3, <3>4, <3>5 DEF Answers
    <2>5. CASE Answered(c)
      <3>1. c.kind # "push" /\ sent' = FALSE
        BY <2>5 DEF Answered
      <3>2. \A j \in DOMAIN inbox : inbox[j].kind # "push" => 1 = j
        BY <2>1, <2>2, <3>1 DEF Answers
      <3>3. \A i \in DOMAIN inbox' : inbox'[i].kind = "push"
        <4> SUFFICES ASSUME NEW i \in DOMAIN inbox', inbox'[i].kind # "push" PROVE FALSE
          OBVIOUS
        <4>1. i \in Nat /\ i + 1 = 1 /\ i \in DOMAIN inbox'
          BY <2>2, <3>2
        <4>2. DOMAIN inbox' = 1 .. Len(inbox')
          BY <1>0
        <4>3. QED
          BY <4>1, <4>2
      <3>4. bounds.others = 0 /\ inbox' # << >> => inbox'[Len(inbox')].kind # "push"
        BY <2>1, <2>3 DEF Answers
      <3>5. QED
        BY <2>1, <3>1, <3>3, <3>4 DEF Answers
    <2>6. QED
      BY <1>8, <2>4, <2>5
  <1>9. ASSUME NEW told, Hurries(told) PROVE Answers'
    <2>1. /\ told \in Seq(Messages) /\ \A i \in DOMAIN told : told[i].kind = "push"
          /\ inbox' = inbox \o told /\ UNCHANGED <<writes, sent, refused>>
          /\ bounds' = [bounds EXCEPT !.others = @ + 1]
      BY <1>9 DEF Hurries, Announces
    <2>a. bounds'.others # 0 /\ bounds'.losses = bounds.losses
      <3>1. bounds'.others = bounds.others + 1 /\ bounds.others \in Nat /\ bounds'.losses = bounds.losses
        BY <1>0, <2>1, Counting
      <3>2. QED
        BY <3>1
    <2>2. \A i \in DOMAIN inbox' : \/ i \in DOMAIN inbox /\ inbox'[i] = inbox[i]
                                   \/ inbox'[i].kind = "push"
      BY <1>0, <2>1, Longer
    <2>3. \A i \in DOMAIN inbox : i \in DOMAIN inbox' /\ inbox'[i] = inbox[i]
      BY <1>0, <2>1, Longer
    <2>4. QED
      BY <2>1, <2>a, <2>2, <2>3 DEF Answers
  <1>10. QED
    BY <1>1, <1>2, <1>4, <1>5, <1>6, <1>7, <1>8, <1>9 DEF Does

LEMMA SoundStep ==
    ASSUME Sound, Built!Next
    PROVE  Sound' /\ Does
  <1>1. Does
    BY StepDoes DEF Sound
  <1>2. Rest' /\ Baseline'
    BY <1>1, RestStep, BaselineStep DEF Sound
  <1>3. BuilderTypes'
    BY <1>2, MapsStep DEF Sound, Rest, BuilderTypes, Counts
  <1>4. NothingIsNewer' /\ Answers'
    BY <1>1, <1>2, NewerStep, AnswersStep DEF Sound
  <1>5. QED
    BY <1>1, <1>2, <1>3, <1>4 DEF Sound

-----------------------------------------------------------------------------
(* A builder alone knows the latest versions *)

\* What is on its way is what is stored, and its version is known or on its way.
Current ==
    /\ bounds.others = 0 =>
          \A i \in DOMAIN inbox : inbox[i].kind # "error" => inbox[i].record = table[inbox[i].id]
    /\ bounds.others = 0 /\ bounds.losses = 0 =>
          \A x \in Built!Record : Built!Is(table[x]) =>
              \/ versions[x] \in {0, table[x].stamp}
              \/ \E i \in DOMAIN inbox : inbox[i].kind # "error" /\ inbox[i].id = x

\* Where nobody else writes and nothing is sent, nothing is on its way.
LEMMA NothingComes == BuilderTypes /\ Answers /\ bounds.others = 0 /\ ~ sent => inbox = << >>
  <1> SUFFICES ASSUME BuilderTypes, Answers, bounds.others = 0, ~ sent, inbox # << >> PROVE FALSE
    OBVIOUS
  <1>1. inbox[Len(inbox)].kind # "push"
    BY DEF Answers
  <1>2. Len(inbox) \in DOMAIN inbox
    BY DEF BuilderTypes
  <1>3. QED
    BY <1>1, <1>2 DEF Answers

LEMMA CurrentStep ==
    ASSUME Sound, Current, Does, Sound'
    PROVE  Current'
  <1>0. /\ writes \in Seq(Writes) /\ inbox \in Seq(Messages) /\ inbox' \in Seq(Messages)
        /\ bounds \in Counts /\ table \in Maps /\ versions \in [Built!Record -> Nat] /\ BuilderTypes
    BY DEF Sound, BuilderTypes, Counts
  <1>1. CASE UNCHANGED <<inbox, table, versions>> /\ bounds'.others = bounds.others /\ bounds'.losses = bounds.losses
    BY <1>1 DEF Current
  <1>2. CASE Stays \/ Begins
    BY <1>1, <1>2 DEF Stays, Begins
  <1>3. CASE Refuses
    <2> DEFINE told == << Built!Error(writes[1].id) >>
    <2>1. /\ inbox' = inbox \o told /\ told \in Seq(Messages) /\ DOMAIN told = {1} /\ told[1].kind = "error"
      BY <1>0, <1>3, OneError
    <2> HIDE DEF told
    <2>2. bounds'.others = bounds.others /\ bounds'.losses = bounds.losses /\ UNCHANGED <<table, versions>>
      BY <1>0, <1>3, Counting DEF Refuses
    <2>3. \A i \in DOMAIN inbox' : \/ i \in DOMAIN inbox /\ inbox'[i] = inbox[i]
                                   \/ inbox'[i].kind = "error"
      BY <1>0, <2>1, Longer
    <2>4. \A i \in DOMAIN inbox : i \in DOMAIN inbox' /\ inbox'[i] = inbox[i]
      BY <1>0, <2>1, Longer
    <2>5. QED
      BY <2>2, <2>3, <2>4 DEF Current
  <1>4. CASE Loses
    <2>1. /\ inbox' = << >> /\ DOMAIN << >> = {} /\ UNCHANGED table /\ bounds' = [bounds EXCEPT !.losses = @ + 1]
      BY <1>4 DEF Loses
    <2>2. bounds'.losses = bounds.losses + 1 /\ bounds.losses \in Nat
      BY <1>0, <2>1, Counting
    <2>3. QED
      BY <2>1, <2>2 DEF Current
  <1>5. ASSUME NEW e, Edits(e) PROVE Current'
    <2>1. bounds'.others = bounds.others /\ bounds'.losses = bounds.losses
      BY <1>0, <1>5, Counting DEF Edits
    <2>2. QED
      BY <1>1, <1>5, <2>1 DEF Edits
  <1>6. ASSUME NEW record, Stores(record) PROVE Current'
    <2> SUFFICES ASSUME bounds.others = 0 PROVE Current'
      BY <1>6 DEF Stores, Current
    <2> DEFINE told == << Built!Push(writes[1].id, record), Built!Reply(writes[1].id, record) >>
               x == writes[1].id
    <2>1. /\ inbox' = inbox \o told /\ told \in Seq(Messages) /\ DOMAIN told = {1, 2}
          /\ told[1].kind = "push" /\ told[2].kind = "reply"
          /\ \A i \in {1, 2} : told[i].id = x /\ told[i].record = record
          /\ table'[x] = record /\ \A y \in Built!Record : y # x => table'[y] = table[y]
      BY <1>0, <1>6, Pair
    <2>2. inbox = << >> /\ UNCHANGED <<bounds, versions>>
      BY <1>6, NothingComes DEF Stores, Sound
    <2> HIDE DEF told, x
    <2>3. DOMAIN << >> = {}
      OBVIOUS
    <2>4. \A i \in DOMAIN inbox' : inbox'[i].id = x /\ inbox'[i].record = record
      BY <1>0, <2>1, <2>2, <2>3, Longer
    <2>5. \E i \in DOMAIN inbox' : inbox'[i].kind = "push" /\ inbox'[i].id = x
      <3>1. Len(inbox) + 1 \in DOMAIN inbox' /\ inbox'[Len(inbox) + 1] = told[1]
        BY <1>0, <2>1, Longer
      <3>2. QED
        BY <2>1, <3>1
    <2>6. \A y \in Built!Record : y # x /\ Built!Is(table[y]) => versions[y] \in {0, table[y].stamp}
                                                                \/ bounds.losses # 0
      BY <2>2, <2>3 DEF Current
    <2>7. QED
      BY <2>1, <2>2, <2>4, <2>5, <2>6 DEF Current
  <1>7. ASSUME NEW c, Hears(c) \/ Answered(c) PROVE Current'
    <2>1. /\ inbox # << >> /\ inbox' = Tail(inbox) /\ c = inbox[1] /\ c \in Messages
          /\ UNCHANGED <<bounds, table>>
      BY <1>7 DEF Hears, Answered
    <2>2. /\ 1 \in DOMAIN inbox
          /\ \A i \in DOMAIN inbox' : i \in Nat /\ i + 1 \in DOMAIN inbox /\ inbox'[i] = inbox[i + 1]
          /\ \A i \in DOMAIN inbox : i = 1 \/ (i - 1 \in DOMAIN inbox' /\ inbox[i] = inbox'[i - 1])
      BY <1>0, <2>1, Shorter
    <2>3. c.id \in Built!Record /\ c.kind \in {"push", "reply", "error"}
      BY <2>1 DEF Messages
    <2>4. IF c.kind = "error" THEN UNCHANGED versions ELSE versions' = [versions EXCEPT ![c.id] = Known(c)]
      BY <1>7, <2>3 DEF Hears, Answered
    <2>5. \A x \in Built!Record : x # c.id \/ c.kind = "error" => versions'[x] = versions[x]
      BY <1>0, <2>3, <2>4
    <2>6. bounds.others = 0 /\ c.kind # "error" =>
              c.record = table[c.id] /\ versions'[c.id] = IF Built!Is(table[c.id]) THEN table[c.id].stamp ELSE 0
      <3> SUFFICES ASSUME bounds.others = 0, c.kind # "error"
                   PROVE  c.record = table[c.id]
                          /\ versions'[c.id] = IF Built!Is(table[c.id]) THEN table[c.id].stamp ELSE 0
        OBVIOUS
      <3>1. c.record = table[c.id]
        BY <2>1, <2>2 DEF Current
      <3>2. versions'[c.id] = Known(c)
        BY <1>0, <2>3, <2>4
      <3>3. QED
        BY <3>1, <3>2 DEF Known
    <2>7. bounds.others = 0 => \A i \in DOMAIN inbox' : inbox'[i].kind # "error" => inbox'[i].record = table[inbox'[i].id]
      BY <2>2 DEF Current
    <2>8. ASSUME bounds.others = 0, bounds.losses = 0, NEW x \in Built!Record, Built!Is(table[x])
          PROVE  \/ versions'[x] \in {0, table[x].stamp}
                 \/ \E i \in DOMAIN inbox' : inbox'[i].kind # "error" /\ inbox'[i].id = x
      <3>1. CASE c.id = x /\ c.kind # "error"
        BY <2>6, <2>8, <3>1
      <3>2. CASE c.id # x \/ c.kind = "error"
        <4>1. versions'[x] = versions[x]
          BY <2>5, <3>2
        <4>2. \/ versions[x] \in {0, table[x].stamp}
              \/ \E i \in DOMAIN inbox : inbox[i].kind # "error" /\ inbox[i].id = x
          BY <2>8 DEF Current
        <4>3. ASSUME NEW i \in DOMAIN inbox, inbox[i].kind # "error" /\ inbox[i].id = x
              PROVE  \E j \in DOMAIN inbox' : inbox'[j].kind # "error" /\ inbox'[j].id = x
          <5>1. i # 1
            BY <2>1, <3>2, <4>3
          <5>2. i - 1 \in DOMAIN inbox' /\ inbox[i] = inbox'[i - 1]
            BY <2>2, <5>1
          <5>3. QED
            BY <4>3, <5>2
        <4>4. QED
          BY <4>1, <4>2, <4>3
      <3>3. QED
        BY <3>1, <3>2
    <2>9. QED
      BY <2>1, <2>7, <2>8 DEF Current
  <1>8. ASSUME NEW told, Hurries(told) PROVE Current'
    <2>1. bounds' = [bounds EXCEPT !.others = @ + 1]
      BY <1>8 DEF Hurries
    <2>2. bounds'.others = bounds.others + 1 /\ bounds.others \in Nat
      BY <1>0, <2>1, Counting
    <2>3. QED
      BY <2>2 DEF Current
  <1>9. QED
    BY <1>2, <1>3, <1>4, <1>5, <1>6, <1>7, <1>8 DEF Does

LEMMA NoConflict ==
    ASSUME Sound, Current, Built!SendRefused, bounds.others + bounds'.faults + bounds.losses = 0,
           Head(writes).op = "update"
    PROVE  ~ Built!Is(table[Head(writes).id])
  <1>1. /\ writes # << >> /\ ~ sent /\ bounds \in Counts
        /\ IF Built!Accepts(Head(writes)) THEN Built!Spend("faults") ELSE UNCHANGED bounds
    BY DEF Built!SendRefused, Sound, BuilderTypes, Counts
  <1>2. ~ Built!Accepts(Head(writes)) /\ bounds.others = 0 /\ bounds.losses = 0
    <2>1. CASE Built!Accepts(Head(writes))
      <3>1. bounds' = [bounds EXCEPT !.faults = @ + 1]
        BY <1>1, <2>1 DEF Built!Spend
      <3>2. bounds'.faults = bounds.faults + 1
        BY <1>1, <3>1 DEF Counts
      <3>3. bounds.others \in Nat /\ bounds.losses \in Nat /\ bounds.faults \in Nat
        BY <1>1, Counting
      <3>4. QED
        BY <3>2, <3>3
    <2>2. CASE ~ Built!Accepts(Head(writes))
      <3>1. bounds.others \in Nat /\ bounds.losses \in Nat /\ bounds.faults \in Nat /\ bounds' = bounds
        BY <1>1, <2>2, Counting
      <3>2. QED
        BY <2>2, <3>1
    <2>3. QED
      BY <2>1, <2>2
  <1>3. inbox = << >> /\ DOMAIN << >> = {}
    BY <1>1, <1>2, NothingComes DEF Sound
  <1>4. Head(writes).id \in Built!Record
    <2>1. Head(writes) \in Writes
      BY <1>1 DEF Sound, BuilderTypes
    <2>2. QED
      BY <2>1 DEF Writes
  <1>5. ASSUME Built!Is(table[Head(writes).id]) PROVE FALSE
    <2>1. versions[Head(writes).id] \in {0, table[Head(writes).id].stamp}
      BY <1>2, <1>3, <1>4, <1>5 DEF Current
    <2>2. Built!Accepts(Head(writes))
      BY <1>5, <2>1 DEF Built!Accepts
    <2>3. QED
      BY <1>2, <2>2
  <1>6. QED
    BY <1>5

-----------------------------------------------------------------------------
(* A builder that edits nothing *)

EchoesNothing == bounds.edits = 0 => saves = << >> /\ writes = << >>

LEMMA EchoStep ==
    ASSUME Sound, EchoesNothing, Does
    PROVE  EchoesNothing'
  <1>0. bounds \in Counts /\ inbox \in Seq(Messages)
    BY DEF Sound, BuilderTypes, Counts
  <1>1. ASSUME NEW e, Edits(e) PROVE EchoesNothing'
    <2>1. bounds'.edits = bounds.edits + 1 /\ bounds.edits \in Nat
      BY <1>0, <1>1, Counting DEF Edits
    <2>2. QED
      BY <2>1 DEF EchoesNothing
  <1>2. ASSUME NEW c, Answered(c) PROVE EchoesNothing'
    <2>1. 1 \in DOMAIN inbox /\ inbox[1].kind # "push" /\ UNCHANGED <<saves, bounds>>
      BY <1>0, <1>2, Shorter DEF Answered
    <2>2. writes # << >>
      BY <2>1 DEF Sound, Answers
    <2>3. QED
      BY <2>1, <2>2 DEF EchoesNothing
  <1>3. CASE Stays \/ Begins \/ Loses \/ Refuses
    BY <1>0, <1>3, Counting DEF Stays, Begins, Loses, Refuses, EchoesNothing
  <1>4. ASSUME NEW record, Stores(record) PROVE EchoesNothing'
    BY <1>4 DEF Stores, EchoesNothing
  <1>5. ASSUME NEW c, Hears(c) PROVE EchoesNothing'
    BY <1>5 DEF Hears, EchoesNothing
  <1>6. ASSUME NEW told, Hurries(told) PROVE EchoesNothing'
    BY <1>0, <1>6, Counting DEF Hurries, EchoesNothing
  <1>7. QED
    BY <1>1, <1>2, <1>3, <1>4, <1>5, <1>6 DEF Does

-----------------------------------------------------------------------------
(* The canvas shows what the api stores *)

\* An edit of record x is still to be sent.
ToSend(x) ==
    \/ \E i \in DOMAIN writes : writes[i].id = x /\ (sent => i # 1)
    \/ \E j \in DOMAIN saves : saves[j].previous[x].content # saves[j].next[x].content

PushOf(i, x) == inbox[i].kind = "push" /\ inbox[i].id = x

Settled(x) ==
    /\ \A i \in DOMAIN inbox : ~ PushOf(i, x)
    /\ Built!Seen[x].content = table[x].content

\* The last push of x is of what is stored, and newer than the pushes before it
\* and than what is seen.
Coming(x) ==
    \E i \in DOMAIN inbox :
        /\ PushOf(i, x) /\ inbox[i].record.content = table[x].content
        /\ Built!Is(inbox[i].record) => inbox[i].record.stamp > Built!Seen[x].stamp
        /\ \A j \in DOMAIN inbox : PushOf(j, x) =>
              j <= i /\ (Built!Is(inbox[i].record) /\ j # i => inbox[j].record.stamp < inbox[i].record.stamp)

Telling == setting.skew # "ahead" /\ refused = 0 /\ bounds.losses = 0

IsToldOf(x) == ToSend(x) \/ Settled(x) \/ Coming(x)
OnItsWay == Telling => \A x \in Built!Record : IsToldOf(x)

LEMMA TellingStep ==
    ASSUME Sound, Does, Telling'
    PROVE  /\ Telling /\ ~ Refuses /\ ~ Loses
           /\ \A i \in DOMAIN inbox : inbox[i].kind # "error"
  <1>0. bounds \in Counts /\ refused \in Nat /\ UNCHANGED setting
    BY DEF Sound, BuilderTypes, Counts, Does
  <1>1. ~ Refuses
    BY <1>0 DEF Refuses, Telling
  <1>2. ~ Loses
    <2> SUFFICES ASSUME Loses PROVE FALSE
      OBVIOUS
    <2>1. bounds'.losses = bounds.losses + 1 /\ bounds.losses \in Nat
      BY <1>0, Counting DEF Loses
    <2>2. QED
      BY <2>1 DEF Telling
  <1>3. refused' = refused /\ bounds'.losses = bounds.losses
    BY <1>0, <1>1, <1>2, Counting DEF Does, Stays, Begins, Edits, Stores, Hears, Answered, Hurries
  <1>4. Telling
    BY <1>0, <1>3 DEF Telling
  <1>5. QED
    BY <1>1, <1>2, <1>4 DEF Telling, Sound, Answers

\* A push that is newer than all there is.
LEMMA Comes ==
    ASSUME Sound, Telling, NEW x \in Built!Record, NEW told \in Seq(Messages), inbox' = inbox \o told,
           UNCHANGED Built!Seen, table' \in Maps, NEW i \in DOMAIN told,
           \A j \in DOMAIN told : told[j].kind = "push" /\ told[j].id = x <=> j = i,
           told[i].record = table'[x],
           Built!Is(table'[x]) => table'[x].stamp = clock + 1
    PROVE  Coming(x)'
  <1>0. /\ inbox \in Seq(Messages) /\ clock \in Nat /\ setting.skew # "ahead" /\ Built!Seen \in Maps
    BY SeenType DEF Sound, BuilderTypes, Telling
  <1>1. /\ Len(inbox) \in Nat
        /\ \A j \in DOMAIN inbox' :
              \/ j \in DOMAIN inbox /\ inbox'[j] = inbox[j]
              \/ j \in Nat /\ j > Len(inbox) /\ j - Len(inbox) \in DOMAIN told /\ inbox'[j] = told[j - Len(inbox)]
        /\ \A j \in DOMAIN inbox : j \in DOMAIN inbox' /\ inbox'[j] = inbox[j] /\ j \in Nat /\ j <= Len(inbox)
        /\ \A j \in DOMAIN told : Len(inbox) + j \in DOMAIN inbox' /\ inbox'[Len(inbox) + j] = told[j]
    BY <1>0, Longer
  <1>k. i \in Nat \ {0} /\ Len(inbox) + i \in Nat
    BY <1>1
  <1>l. PICK k \in Nat : k = Len(inbox) + i
    BY <1>k
  <1>2. k \in DOMAIN inbox' /\ inbox'[k] = told[i] /\ i \in Nat \ {0} /\ k \in Nat
    BY <1>1, <1>k, <1>l
  <1>3. PushOf(k, x)' /\ inbox'[k].record = table'[x]
    <2>1. told[i].kind = "push" /\ told[i].id = x
      OBVIOUS
    <2>2. QED
      BY <1>2, <2>1 DEF PushOf
  <1>4. Made(Built!Seen[x]) /\ \A j \in DOMAIN inbox : Made(inbox[j].record)
    BY DEF Sound, NothingIsNewer
  <1>5. Built!Seen[x].stamp \in Nat /\ \A j \in DOMAIN inbox : inbox[j].record.stamp \in Nat
    <2>1. \A j \in DOMAIN inbox : inbox[j] \in Messages
      BY <1>0, Elements
    <2>2. QED
      BY <1>0, <2>1 DEF Maps, Records, Messages
  <1>6. Built!Seen[x].stamp < clock + 1 /\ \A j \in DOMAIN inbox : inbox[j].record.stamp < clock + 1
    BY <1>0, <1>4, <1>5 DEF Made
  <1>7. ASSUME NEW j \in DOMAIN inbox', PushOf(j, x)'
        PROVE  j <= k /\ (Built!Is(table'[x]) /\ j # k => inbox'[j].record.stamp < table'[x].stamp)
    <2>1. CASE j \in DOMAIN inbox /\ inbox'[j] = inbox[j]
      BY <1>1, <1>2, <1>l, <1>6, <2>1
    <2>2. CASE j \in Nat /\ j > Len(inbox) /\ j - Len(inbox) \in DOMAIN told /\ inbox'[j] = told[j - Len(inbox)]
      <3>1. j - Len(inbox) = i
        BY <1>7, <2>2 DEF PushOf
      <3>2. j = k
        BY <1>1, <1>2, <1>l, <2>2, <3>1
      <3>3. QED
        BY <1>2, <3>2
    <2>3. QED
      BY <1>1, <2>1, <2>2
  <1>8. Built!Is(inbox'[k].record) => inbox'[k].record.stamp > Built!Seen'[x].stamp
    BY <1>3, <1>5, <1>6, <1>0
  <1>9. \A j \in DOMAIN inbox' : PushOf(j, x)' =>
            j <= k /\ (Built!Is(inbox'[k].record) /\ j # k => inbox'[j].record.stamp < inbox'[k].record.stamp)
    BY <1>3, <1>7
  <1>10. QED
    BY <1>2, <1>3, <1>8, <1>9 DEF Coming

\* What is not of x changes nothing for x.
LEMMA StillKnown ==
    ASSUME Sound, NEW x \in Built!Record, Settled(x) \/ Coming(x), NEW told \in Seq(Messages),
           inbox' = inbox \o told, UNCHANGED Built!Seen, table'[x] = table[x],
           \A j \in DOMAIN told : ~ (told[j].kind = "push" /\ told[j].id = x)
    PROVE  Settled(x)' \/ Coming(x)'
  <1>0. inbox \in Seq(Messages)
    BY DEF Sound, BuilderTypes
  <1>1. /\ \A j \in DOMAIN inbox' :
              \/ j \in DOMAIN inbox /\ inbox'[j] = inbox[j]
              \/ j - Len(inbox) \in DOMAIN told /\ inbox'[j] = told[j - Len(inbox)]
        /\ \A j \in DOMAIN inbox : j \in DOMAIN inbox' /\ inbox'[j] = inbox[j]
    BY <1>0, Longer
  <1>2. \A j \in DOMAIN inbox' : PushOf(j, x)' => j \in DOMAIN inbox /\ PushOf(j, x)
    BY <1>1 DEF PushOf
  <1>3. \A j \in DOMAIN inbox : j \in DOMAIN inbox' /\ inbox'[j] = inbox[j] /\ (PushOf(j, x)' <=> PushOf(j, x))
    BY <1>1 DEF PushOf
  <1>4. CASE Settled(x)
    BY <1>2, <1>4 DEF Settled
  <1>5. CASE Coming(x)
    <2>1. PICK i \in DOMAIN inbox :
            /\ PushOf(i, x) /\ inbox[i].record.content = table[x].content
            /\ Built!Is(inbox[i].record) => inbox[i].record.stamp > Built!Seen[x].stamp
            /\ \A j \in DOMAIN inbox : PushOf(j, x) =>
                  j <= i /\ (Built!Is(inbox[i].record) /\ j # i => inbox[j].record.stamp < inbox[i].record.stamp)
      BY <1>5 DEF Coming
    <2>2. i \in DOMAIN inbox' /\ inbox'[i] = inbox[i] /\ PushOf(i, x)'
      BY <1>3, <2>1
    <2>3. \A j \in DOMAIN inbox' : PushOf(j, x)' =>
              j <= i /\ (Built!Is(inbox'[i].record) /\ j # i => inbox'[j].record.stamp < inbox'[i].record.stamp)
      BY <1>2, <1>3, <2>1, <2>2
    <2>4. QED
      BY <2>1, <2>2, <2>3 DEF Coming
  <1>6. QED
    BY <1>4, <1>5

\* One message less.
LEMMA OneLess ==
    ASSUME Sound, NEW x \in Built!Record, Settled(x) \/ Coming(x), inbox # << >>, inbox' = Tail(inbox),
           UNCHANGED table,
           \/ UNCHANGED Built!Seen /\ inbox[1].kind # "push"
           \/ Hears(inbox[1])
    PROVE  Settled(x)' \/ Coming(x)'
  <1>0. inbox \in Seq(Messages) /\ Built!Seen \in Maps
    BY SeenType DEF Sound, BuilderTypes
  <1>1. /\ 1 \in DOMAIN inbox
        /\ \A j \in DOMAIN inbox' : j \in Nat /\ j + 1 \in DOMAIN inbox /\ inbox'[j] = inbox[j + 1]
        /\ \A j \in DOMAIN inbox : j = 1 \/ (j - 1 \in DOMAIN inbox' /\ inbox[j] = inbox'[j - 1])
        /\ \A j \in DOMAIN inbox : j \in Nat /\ j >= 1 /\ inbox[j] \in Messages
    BY <1>0, Shorter, Elements
  <1>2. \A j \in DOMAIN inbox' : PushOf(j, x)' <=> PushOf(j + 1, x)
    BY <1>1 DEF PushOf
  <1>3. /\ inbox[1].id # x \/ inbox[1].kind # "push" => Built!Seen'[x] = Built!Seen[x]
        /\ inbox[1].id = x /\ inbox[1].kind = "push" =>
              Built!Seen'[x] = IF ~ Built!Is(inbox[1].record) THEN Built!Absent
                               ELSE IF Built!Is(Built!Seen[x]) /\ Built!Seen[x].stamp >= inbox[1].record.stamp
                               THEN Built!Seen[x] ELSE inbox[1].record
    <2>1. CASE UNCHANGED Built!Seen /\ inbox[1].kind # "push"
      BY <2>1
    <2>2. CASE Hears(inbox[1])
      <3> DEFINE m == Built!Seen
                 c == inbox[1]
      <3>1. m \in Maps /\ c \in Messages
        BY <1>0, <1>1
      <3>2. Built!Seen' = Built!ApplyRemoteRecord(m, c) /\ c.kind = "push"
        BY <2>2 DEF Hears
      <3> HIDE DEF m, c
      <3>3. /\ \A y \in Built!Record : y # c.id => Built!Seen'[y] = m[y]
            /\ Built!Seen'[c.id] = IF ~ Built!Is(c.record) THEN Built!Absent
                             ELSE IF Built!Is(m[c.id]) /\ m[c.id].stamp >= c.record.stamp THEN m[c.id]
                             ELSE c.record
        BY <3>1, <3>2, Applying
      <3>4. QED
        BY <3>2, <3>3 DEF m, c
    <2>3. QED
      BY <2>1, <2>2
  <1>4. CASE Settled(x)
    <2>1. ~ PushOf(1, x) /\ \A j \in DOMAIN inbox' : ~ PushOf(j, x)'
      BY <1>1, <1>2, <1>4 DEF Settled
    <2>2. Built!Seen'[x] = Built!Seen[x]
      BY <1>3, <2>1 DEF PushOf
    <2>3. QED
      BY <1>4, <2>1, <2>2 DEF Settled
  <1>5. CASE Coming(x)
    <2>1. PICK i \in DOMAIN inbox :
            /\ PushOf(i, x) /\ inbox[i].record.content = table[x].content
            /\ Built!Is(inbox[i].record) => inbox[i].record.stamp > Built!Seen[x].stamp
            /\ \A j \in DOMAIN inbox : PushOf(j, x) =>
                  j <= i /\ (Built!Is(inbox[i].record) /\ j # i => inbox[j].record.stamp < inbox[i].record.stamp)
      BY <1>5 DEF Coming
    <2>2. /\ Built!Seen[x] \in Records /\ Built!Seen[x].stamp \in Nat
          /\ inbox[1].record.stamp \in Nat /\ inbox[i].record.stamp \in Nat
      BY <1>0, <1>1 DEF Maps, Records, Messages
    <2>3. CASE i = 1
      <3>1. \A j \in DOMAIN inbox' : ~ PushOf(j, x)'
        <4> SUFFICES ASSUME NEW j \in DOMAIN inbox', PushOf(j, x)' PROVE FALSE
          OBVIOUS
        <4>1. j \in Nat /\ j + 1 <= 1 /\ j \in DOMAIN inbox'
          BY <1>1, <1>2, <2>1, <2>3
        <4>2. j >= 1
          BY <1>0
        <4>3. QED
          BY <4>1, <4>2
      <3>2. inbox[1].id = x /\ inbox[1].kind = "push"
        BY <2>1, <2>3 DEF PushOf
      <3>3. Built!Seen'[x].content = inbox[1].record.content
        <4>1. CASE ~ Built!Is(inbox[1].record)
          BY <1>3, <3>2, <4>1, NoRecord DEF Built!Is
        <4>2. CASE Built!Is(inbox[1].record)
          BY <1>3, <2>1, <2>2, <2>3, <3>2, <4>2
        <4>3. QED
          BY <4>1, <4>2
      <3>4. QED
        BY <2>1, <2>3, <3>1, <3>3 DEF Settled
    <2>4. CASE i # 1
      <3> DEFINE k == i - 1
      <3>1. k \in DOMAIN inbox' /\ inbox'[k] = inbox[i] /\ PushOf(k, x)'
        BY <1>1, <2>1, <2>4 DEF PushOf
      <3>2. Built!Is(inbox[i].record) => inbox[i].record.stamp > Built!Seen'[x].stamp
        <4>1. CASE PushOf(1, x)
          <5>1. Built!Seen'[x] \in {Built!Seen[x], Built!Absent, inbox[1].record}
            BY <1>3, <4>1 DEF PushOf
          <5>2. Built!Is(inbox[i].record) => inbox[1].record.stamp < inbox[i].record.stamp
            BY <1>1, <2>1, <2>4, <4>1
          <5>3. Built!Is(inbox[i].record) => inbox[i].record.stamp > 0
            BY <2>1, <2>2
          <5>4. QED
            BY <2>1, <5>1, <5>2, <5>3, <2>2, NoRecord
        <4>2. CASE ~ PushOf(1, x)
          BY <1>3, <2>1, <4>2 DEF PushOf
        <4>3. QED
          BY <4>1, <4>2
      <3>3. ASSUME NEW j \in DOMAIN inbox', PushOf(j, x)'
            PROVE  j <= k /\ (Built!Is(inbox[i].record) /\ j # k => inbox'[j].record.stamp < inbox[i].record.stamp)
        <4>1. j \in Nat /\ j + 1 \in DOMAIN inbox /\ inbox'[j] = inbox[j + 1] /\ PushOf(j + 1, x) /\ i \in Nat
          BY <1>1, <1>2, <3>3
        <4>2. j + 1 <= i /\ (Built!Is(inbox[i].record) /\ j + 1 # i => inbox[j + 1].record.stamp < inbox[i].record.stamp)
          BY <2>1, <4>1
        <4>3. QED
          BY <4>1, <4>2
      <3> HIDE DEF k
      <3>4. QED
        BY <2>1, <3>1, <3>2, <3>3 DEF Coming
    <2>5. QED
      BY <2>3, <2>4
  <1>6. QED
    BY <1>4, <1>5

LEMMA OnItsWayStep ==
    ASSUME Sound, OnItsWay, Does, Sound'
    PROVE  OnItsWay'
  <1> SUFFICES ASSUME Telling', NEW x \in Built!Record PROVE IsToldOf(x)'
    BY DEF OnItsWay
  <1>0. /\ Telling /\ ~ Refuses /\ ~ Loses /\ IsToldOf(x)
        /\ \A i \in DOMAIN inbox : inbox[i].kind # "error"
    BY TellingStep DEF OnItsWay
  <1>a. /\ writes \in Seq(Writes) /\ saves \in Seq(Saves) /\ inbox \in Seq(Messages) /\ BuilderTypes
        /\ clock \in Nat /\ Built!Seen \in Maps
    BY SeenType DEF Sound, BuilderTypes
  <1>1. CASE Stays
    <2>1. (ToSend(x)' <=> ToSend(x)) /\ (Settled(x)' <=> Settled(x)) /\ (Coming(x)' <=> Coming(x))
      BY <1>1 DEF Stays, ToSend, Settled, Coming, PushOf
    <2>2. QED
      BY <1>0, <2>1 DEF IsToldOf
  <1>2. CASE Begins
    <2>1. /\ UNCHANGED <<Built!Seen, inbox, table, sent>> /\ saves' = Tail(saves) /\ saves # << >> /\ writes = << >>
      BY <1>2 DEF Begins
    <2>2. ~ sent
      BY <2>1 DEF Sound, Answers
    <2>3. CASE Settled(x) \/ Coming(x)
      <3>1. Settled(x)' \/ Coming(x)'
        BY <2>1, <2>3 DEF Settled, Coming, PushOf
      <3>2. QED
        BY <3>1 DEF IsToldOf
    <2>4. CASE ToSend(x)
      <3>1. DOMAIN << >> = {}
        OBVIOUS
      <3>2. PICK j \in DOMAIN saves : saves[j].previous[x].content # saves[j].next[x].content
        BY <2>1, <2>4, <3>1 DEF ToSend
      <3>3. j = 1 \/ (j - 1 \in DOMAIN saves' /\ saves[j] = saves'[j - 1])
        BY <1>a, <2>1, Shorter
      <3>4. CASE j = 1
        <4>1. \E i \in DOMAIN writes' : writes'[i].id = x
          BY <1>2, <1>a, <3>2, <3>4, BeginsWith
        <4>2. QED
          BY <2>1, <2>2, <4>1 DEF IsToldOf, ToSend
      <3>5. CASE j - 1 \in DOMAIN saves' /\ saves[j] = saves'[j - 1]
        BY <3>2, <3>5 DEF IsToldOf, ToSend
      <3>6. QED
        BY <3>3, <3>4, <3>5
    <2>5. QED
      BY <1>0, <2>3, <2>4 DEF IsToldOf
  <1>3. ASSUME NEW e, Edits(e) PROVE IsToldOf(x)'
    <2>1. PICK save \in Saves : saves' = Append(saves, save) /\ Saved(save, e)
      BY <1>3 DEF Edits
    <2>2. Edited(e) /\ Built!Seen' = e /\ UNCHANGED <<table, writes, sent, inbox>>
      BY <1>3 DEF Edits
    <2>3. /\ \A j \in DOMAIN saves : j \in DOMAIN saves' /\ saves'[j] = saves[j]
          /\ Len(saves) + 1 \in DOMAIN saves' /\ saves'[Len(saves) + 1] = save
      BY <1>a, <2>1
    <2>4. CASE e[x] = Built!Seen[x]
      <3>1. CASE ToSend(x)
        BY <2>2, <2>3, <3>1 DEF IsToldOf, ToSend
      <3>2. CASE Settled(x) \/ Coming(x)
        <4>1. Settled(x)' \/ Coming(x)'
          BY <2>2, <2>4, <3>2 DEF Settled, Coming, PushOf
        <4>2. QED
          BY <4>1 DEF IsToldOf
      <3>3. QED
        BY <1>0, <3>1, <3>2 DEF IsToldOf
    <2>5. CASE e[x] # Built!Seen[x]
      <3>1. save.previous[x] = Built!Seen[x] /\ save.next[x] = e[x]
        BY <2>1, <2>5 DEF Saved
      <3>2. Built!Seen[x].content <= clock /\ Built!Seen[x].content \in Nat
        BY <1>a DEF Sound, NothingIsNewer, Made, Maps, Records
      <3>3. e[x].content = clock + 1 \/ (e[x] = Built!Absent /\ Built!Is(Built!Seen[x]))
        BY <2>2, <2>5 DEF Edited
      <3>4. save.previous[x].content # save.next[x].content
        BY <1>a, <3>1, <3>2, <3>3, NoRecord DEF Built!Is
      <3>5. QED
        BY <2>3, <3>4 DEF IsToldOf, ToSend
    <2>6. QED
      BY <2>4, <2>5
  <1>4. ASSUME NEW record, Stores(record) PROVE IsToldOf(x)'
    <2> DEFINE told == << Built!Push(writes[1].id, record), Built!Reply(writes[1].id, record) >>
               y == writes[1].id
    <2>1. /\ writes[1] \in Writes
          /\ inbox' = inbox \o told /\ told \in Seq(Messages) /\ DOMAIN told = {1, 2}
          /\ told[1].kind = "push" /\ told[2].kind = "reply"
          /\ \A i \in {1, 2} : told[i].id = y /\ told[i].record = record
          /\ table' \in Maps /\ table'[y] = record
          /\ \A z \in Built!Record : z # y => table'[z] = table[z]
      BY <1>4, <1>a, Pair
    <2>2. /\ UNCHANGED <<Built!Seen, writes, saves>> /\ sent'
          /\ IF writes[1].op = "delete" THEN record = Built!Deleted
             ELSE record = [writes[1].record EXCEPT !.stamp = clock + 1]
      BY <1>4 DEF Stores
    <2>3. Built!Is(record) => record.stamp = clock + 1
      <3>1. writes[1].record \in Records
        BY <2>1 DEF Writes
      <3>2. CASE writes[1].op = "delete"
        BY <2>2, <3>2, NoRecord
      <3>3. CASE writes[1].op # "delete"
        BY <2>2, <3>1, <3>3 DEF Records
      <3>4. QED
        BY <3>2, <3>3
    <2> HIDE DEF told, y
    <2>4. CASE x = y
      <3>1. 1 \in DOMAIN told /\ \A j \in DOMAIN told : told[j].kind = "push" /\ told[j].id = x <=> j = 1
        BY <2>1, <2>4
      <3>2. told[1].record = table'[x] /\ (Built!Is(table'[x]) => table'[x].stamp = clock + 1)
        BY <2>1, <2>3, <2>4
      <3>3. told \in Seq(Messages) /\ inbox' = inbox \o told /\ UNCHANGED Built!Seen /\ table' \in Maps
        BY <2>1, <2>2
      <3>4. Coming(x)'
        BY <1>0, <3>1, <3>2, <3>3, Comes
      <3>5. QED
        BY <3>4 DEF IsToldOf
    <2>5. CASE x # y
      <3>1. CASE Settled(x) \/ Coming(x)
        <4>1. \A j \in DOMAIN told : ~ (told[j].kind = "push" /\ told[j].id = x)
          BY <2>1, <2>5
        <4>2. Settled(x)' \/ Coming(x)'
          BY <2>1, <2>2, <2>5, <3>1, <4>1, StillKnown
        <4>3. QED
          BY <4>2 DEF IsToldOf
      <3>2. CASE ToSend(x)
        <4>1. ToSend(x)'
          BY <2>2, <2>5, <3>2 DEF ToSend, y
        <4>2. QED
          BY <4>1 DEF IsToldOf
      <3>3. QED
        BY <1>0, <3>1, <3>2 DEF IsToldOf
    <2>6. QED
      BY <2>4, <2>5
  <1>5. ASSUME NEW c, Hears(c) \/ Answered(c) PROVE IsToldOf(x)'
    <2>1. inbox # << >> /\ inbox' = Tail(inbox) /\ c = inbox[1] /\ c \in Messages /\ UNCHANGED <<table, saves>>
      BY <1>5 DEF Hears, Answered
    <2>2. CASE Settled(x) \/ Coming(x)
      <3>1. \/ UNCHANGED Built!Seen /\ inbox[1].kind # "push"
            \/ Hears(inbox[1])
        BY <1>5, <2>1 DEF Answered
      <3>2. Settled(x)' \/ Coming(x)'
        BY <2>1, <2>2, <3>1, OneLess
      <3>3. QED
        BY <3>2 DEF IsToldOf
    <2>3. CASE ToSend(x)
      <3>1. CASE Hears(c)
        BY <2>3, <3>1 DEF Hears, IsToldOf, ToSend
      <3>2. CASE Answered(c)
        <4>1. 1 \in DOMAIN inbox
          BY <1>a, <2>1, Shorter
        <4>2. writes' = Tail(writes) /\ sent' = FALSE /\ sent /\ writes # << >>
          <5>1. c.kind # "error" /\ c.kind # "push" /\ c.kind \in {"push", "reply", "error"}
            BY <1>0, <2>1, <3>2, <4>1 DEF Answered, Messages
          <5>2. sent
            BY <2>1, <4>1, <5>1 DEF Sound, Answers
          <5>3. QED
            BY <3>2, <5>1, <5>2 DEF Answered, Sound, Answers
        <4>3. \A i \in DOMAIN writes : i = 1 \/ (i - 1 \in DOMAIN writes' /\ writes[i] = writes'[i - 1])
          BY <1>a, <4>2, Shorter
        <4>4. ToSend(x)'
          BY <2>1, <2>3, <4>2, <4>3 DEF ToSend
        <4>5. QED
          BY <4>4 DEF IsToldOf
      <3>3. QED
        BY <1>5, <3>1, <3>2
    <2>4. QED
      BY <1>0, <2>2, <2>3 DEF IsToldOf
  <1>6. ASSUME NEW told, Hurries(told) PROVE IsToldOf(x)'
    <2>1. /\ Announces(told) /\ inbox' = inbox \o told
          /\ UNCHANGED <<Built!Seen, writes, saves, sent>>
      BY <1>6 DEF Hurries
    <2>2. /\ told \in Seq(Messages) /\ table' \in Maps
          /\ \A i \in DOMAIN told : told[i].kind = "push" /\ told[i].record = table'[told[i].id]
          /\ \A i, j \in DOMAIN told : told[i].id = told[j].id => i = j
          /\ \/ table'[x] = table[x] /\ \A i \in DOMAIN told : told[i].id # x
             \/ /\ \E i \in DOMAIN told : told[i].id = x
                /\ \/ table'[x] = Built!Deleted
                   \/ table'[x].content = clock + 1 /\ table'[x].stamp = clock + 1
      BY <2>1 DEF Announces
    <2>3. CASE table'[x] = table[x] /\ \A i \in DOMAIN told : told[i].id # x
      <3>1. CASE Settled(x) \/ Coming(x)
        <4>1. Settled(x)' \/ Coming(x)'
          BY <2>1, <2>2, <2>3, <3>1, StillKnown
        <4>2. QED
          BY <4>1 DEF IsToldOf
      <3>2. CASE ToSend(x)
        BY <2>1, <3>2 DEF IsToldOf, ToSend
      <3>3. QED
        BY <1>0, <3>1, <3>2 DEF IsToldOf
    <2>4. ASSUME NEW i \in DOMAIN told, told[i].id = x,
                 \/ table'[x] = Built!Deleted
                 \/ table'[x].content = clock + 1 /\ table'[x].stamp = clock + 1
          PROVE  IsToldOf(x)'
      <3>1. \A j \in DOMAIN told : told[j].kind = "push" /\ told[j].id = x <=> j = i
        BY <2>2, <2>4
      <3>2. told[i].record = table'[x] /\ (Built!Is(table'[x]) => table'[x].stamp = clock + 1)
        BY <2>2, <2>4, NoRecord
      <3>3. told \in Seq(Messages) /\ inbox' = inbox \o told /\ UNCHANGED Built!Seen /\ table' \in Maps
        BY <2>1, <2>2
      <3>4. Coming(x)'
        BY <1>0, <3>1, <3>2, <3>3, Comes
      <3>5. QED
        BY <3>4 DEF IsToldOf
    <2>5. QED
      BY <2>2, <2>3, <2>4
  <1>7. QED
    BY <1>0, <1>1, <1>2, <1>3, <1>4, <1>5, <1>6 DEF Does

LEMMA QuietConverges ==
    ASSUME Sound, OnItsWay
    PROVE  Built!Converges
  <1> SUFFICES ASSUME Telling, Built!Quiet, NEW x \in Built!Record
               PROVE  local[x].content = table[x].content
    BY DEF Built!Converges, Telling
  <1>1. /\ actions = << >> /\ saves = << >> /\ writes = << >> /\ inbox = << >> /\ DOMAIN << >> = {}
        /\ local \in Maps
    BY DEF Built!Quiet, Sound, BuilderTypes
  <1>2. Built!Seen = local
    BY <1>1, ReplayNothing DEF Built!Seen
  <1>3. Settled(x)
    BY <1>1 DEF OnItsWay, IsToldOf, ToSend, Coming
  <1>4. QED
    BY <1>2, <1>3 DEF Settled

-----------------------------------------------------------------------------
(* What the page that is stored refers to is stored *)

Alone == setting.skew = "ahead" /\ bounds.others = 0 /\ refused = 0 /\ bounds.losses = 0

\* Write i is still to be applied.
Due(i) == i \in DOMAIN writes /\ (sent => i # 1)

\* What the page refers to once the running save is done.
Target == IF saves # << >> THEN saves[1].previous[PageRecord].refs ELSE Built!Seen[PageRecord].refs

\* No message undoes an edit of the page: the builder's stamp is beyond the api's.
PageIsSeen ==
    /\ Built!Is(Built!Seen[PageRecord])
    /\ \A i \in DOMAIN inbox : inbox[i].id = PageRecord /\ inbox[i].kind = "push" =>
          Built!Is(inbox[i].record) /\ inbox[i].record.stamp <= 1000
    /\ \/ Built!Seen[PageRecord].stamp >= 1000
       \/ /\ \A i \in DOMAIN inbox : inbox[i].id # PageRecord
          /\ \A i \in DOMAIN writes : writes[i].id # PageRecord
          /\ \A j \in DOMAIN saves : saves[j].previous[PageRecord].content = saves[j].next[PageRecord].content

\* Rows are written before the page that refers to them, and deleted after the
\* one that no longer does.
WritesLead ==
    /\ (\A i \in DOMAIN writes : Due(i) => writes[i].id # PageRecord) => table[PageRecord].refs = Target
    /\ \A i \in DOMAIN writes : Due(i) =>
          /\ writes[i].id = PageRecord =>
                /\ writes[i].op # "delete" /\ writes[i].record.refs = Target
                /\ \A r \in Target :
                      \/ Built!Is(table[r])
                      \/ \E k \in DOMAIN writes :
                            Due(k) /\ k < i /\ writes[k].id = r /\ writes[k].op # "delete"
          /\ IF writes[i].op = "delete"
             THEN /\ writes[i].id \in RowRecords \ Target
                  /\ \A k \in DOMAIN writes : Due(k) /\ writes[k].id = PageRecord => k < i
             ELSE Built!Is(writes[i].record)

WholeSave(s) ==
    LET p == s.previous
        n == s.next
    IN  /\ Built!Is(n[PageRecord])
        /\ p[PageRecord].content = n[PageRecord].content => p[PageRecord].refs = n[PageRecord].refs
        /\ \A r \in n[PageRecord].refs \ p[PageRecord].refs : Built!Is(n[r]) /\ p[r].content # n[r].content
        /\ \A x \in Built!Record : Built!Is(p[x]) /\ ~ Built!Is(n[x]) => x \notin n[PageRecord].refs

\* Each save begins where the one before it ends, and the last ends with what is seen.
SavesLead ==
    \A j \in DOMAIN saves :
        /\ WholeSave(saves[j])
        /\ saves[j].next[PageRecord].refs = IF j + 1 \in DOMAIN saves THEN saves[j + 1].previous[PageRecord].refs
                                            ELSE Built!Seen[PageRecord].refs

StoredIsWhole == \A r \in table[PageRecord].refs : Built!Is(table[r])

ServerInv == Alone => PageIsSeen /\ WritesLead /\ SavesLead /\ StoredIsWhole

LEMMA AloneStep ==
    ASSUME Sound, Does, Alone'
    PROVE  /\ Alone /\ ~ Refuses /\ ~ Loses /\ ~ \E told : Hurries(told)
           /\ \A i \in DOMAIN inbox : inbox[i].kind # "error"
  <1>0. bounds \in Counts /\ refused \in Nat /\ UNCHANGED setting
    BY DEF Sound, BuilderTypes, Counts, Does
  <1>1. ~ Refuses
    BY <1>0 DEF Refuses, Alone
  <1>2. ~ Loses
    <2> SUFFICES ASSUME Loses PROVE FALSE
      OBVIOUS
    <2>1. bounds'.losses = bounds.losses + 1 /\ bounds.losses \in Nat
      BY <1>0, Counting DEF Loses
    <2>2. QED
      BY <2>1 DEF Alone
  <1>3. ASSUME NEW told, Hurries(told) PROVE FALSE
    <2>1. bounds'.others = bounds.others + 1 /\ bounds.others \in Nat
      BY <1>0, <1>3, Counting DEF Hurries
    <2>2. QED
      BY <2>1 DEF Alone
  <1>4. refused' = refused /\ bounds'.losses = bounds.losses /\ bounds'.others = bounds.others
    BY <1>0, <1>1, <1>2, <1>3, Counting DEF Does, Stays, Begins, Edits, Stores, Hears, Answered
  <1>5. Alone
    BY <1>0, <1>4 DEF Alone
  <1>6. QED
    BY <1>1, <1>2, <1>3, <1>5 DEF Alone, Sound, Answers

LEMMA ServerBegins ==
    ASSUME Sound, Begins, PageIsSeen, WritesLead, SavesLead, StoredIsWhole
    PROVE  PageIsSeen' /\ WritesLead' /\ SavesLead' /\ StoredIsWhole'
  <1>0. /\ saves \in Seq(Saves) /\ saves # << >> /\ saves' = Tail(saves) /\ writes = << >> /\ ~ sent
        /\ UNCHANGED <<Built!Seen, table, sent, inbox>> /\ BuilderTypes /\ DOMAIN << >> = {}
    BY DEF Begins, Sound, BuilderTypes, Answers
  <1>1. /\ 1 \in DOMAIN saves /\ saves[1] \in Saves
        /\ \A j \in DOMAIN saves' : j \in Nat /\ j + 1 \in DOMAIN saves /\ saves'[j] = saves[j + 1]
        /\ \A j \in DOMAIN saves : j = 1 \/ (j - 1 \in DOMAIN saves' /\ saves[j] = saves'[j - 1])
        /\ \A j \in DOMAIN saves : j \in Nat
    BY <1>0, Shorter
  <1> DEFINE p == saves[1].previous
             n == saves[1].next
             w == writes'
  <1>2. /\ p \in Maps /\ n \in Maps /\ w \in Seq(Writes)
        /\ \A i \in DOMAIN w :
              /\ w[i].id \in Built!Record
              /\ IF w[i].op = "delete"
                 THEN w[i].record = Built!Absent /\ Built!Is(p[w[i].id]) /\ ~ Built!Is(n[w[i].id])
                 ELSE w[i].record = n[w[i].id] /\ Built!Is(n[w[i].id]) /\ p[w[i].id].content # n[w[i].id].content
        /\ \A x \in Built!Record : p[x].content # n[x].content => \E i \in DOMAIN w : w[i].id = x
        /\ \A i, j \in DOMAIN w : i < j =>
              /\ w[i].op = "delete" => w[j].op = "delete"
              /\ w[i].id = PageRecord /\ w[j].op # "delete" => w[j].id = PageRecord
    BY <1>0, BeginsWith
  <1>3. WholeSave(saves[1]) /\ Target = p[PageRecord].refs
    BY <1>0, <1>1 DEF SavesLead, Target
  <1>4. Target' = n[PageRecord].refs
    <2>1. n[PageRecord].refs = IF 2 \in DOMAIN saves THEN saves[2].previous[PageRecord].refs
                               ELSE Built!Seen[PageRecord].refs
      BY <1>1 DEF SavesLead
    <2>2. CASE saves' = << >>
      <3>1. 2 \notin DOMAIN saves
        BY <1>0, <1>1, <2>2
      <3>2. QED
        BY <1>0, <2>1, <2>2, <3>1 DEF Target
    <2>3. CASE saves' # << >>
      <3>1. 1 \in DOMAIN saves' /\ saves'[1] = saves[2] /\ 2 \in DOMAIN saves
        BY <1>0, <1>1, <2>3
      <3>2. QED
        BY <2>1, <2>3, <3>1 DEF Target
    <2>4. QED
      BY <2>2, <2>3
  <1>5. table[PageRecord].refs = p[PageRecord].refs
    BY <1>0, <1>3 DEF WritesLead
  <1>6. /\ Built!Is(n[PageRecord])
        /\ p[PageRecord].content = n[PageRecord].content => p[PageRecord].refs = n[PageRecord].refs
        /\ \A r \in n[PageRecord].refs \ p[PageRecord].refs : Built!Is(n[r]) /\ p[r].content # n[r].content
        /\ \A x \in Built!Record : Built!Is(p[x]) /\ ~ Built!Is(n[x]) => x \notin n[PageRecord].refs
    BY <1>3 DEF WholeSave
  <1> HIDE DEF p, n, w
  <1>7. n[PageRecord].refs \subseteq RowRecords /\ \A x \in Built!Record : n[x] \in Records
    BY <1>2, BuilderConstants DEF Maps, Records
  <1>8. \A i \in DOMAIN w : Due(i)'
    BY <1>0 DEF Due, w
  <1>9. \A i \in DOMAIN w : i \in Nat
    BY <1>2
  <1>10. \A i \in DOMAIN w : w[i].id = PageRecord =>
            w[i].op # "delete" /\ w[i].record = n[PageRecord] /\ p[PageRecord].content # n[PageRecord].content
    BY <1>2, <1>6
  <1>11. ASSUME \A i \in DOMAIN w : w[i].id # PageRecord
         PROVE  table[PageRecord].refs = n[PageRecord].refs
    BY <1>2, <1>5, <1>6, <1>11, BuilderConstants
  <1>12. ASSUME NEW i \in DOMAIN w, w[i].id = PageRecord, NEW r \in n[PageRecord].refs
         PROVE  Built!Is(table[r]) \/ \E k \in DOMAIN w : k < i /\ w[k].id = r /\ w[k].op # "delete"
    <2>1. CASE r \in p[PageRecord].refs
      BY <1>5, <2>1 DEF StoredIsWhole
    <2>2. CASE r \notin p[PageRecord].refs
      <3>1. r \in Built!Record /\ r # PageRecord /\ Built!Is(n[r]) /\ p[r].content # n[r].content
        BY <1>6, <1>7, <2>2, BuilderConstants
      <3>2. PICK k \in DOMAIN w : w[k].id = r
        BY <1>2, <3>1
      <3>3. w[k].op # "delete"
        BY <1>2, <3>1, <3>2
      <3>4. ~ (i < k) /\ i # k
        BY <1>2, <1>12, <3>1, <3>2, <3>3
      <3>5. QED
        BY <1>9, <3>2, <3>3, <3>4
    <2>3. QED
      BY <2>1, <2>2
  <1>13. ASSUME NEW i \in DOMAIN w
         PROVE  IF w[i].op = "delete"
                THEN /\ w[i].id \in RowRecords \ n[PageRecord].refs
                     /\ \A k \in DOMAIN w : w[k].id = PageRecord => k < i
                ELSE Built!Is(w[i].record)
    <2>1. CASE w[i].op = "delete"
      <3>1. w[i].id \in RowRecords \ n[PageRecord].refs
        BY <1>2, <1>6, <2>1, BuilderConstants
      <3>2. ASSUME NEW k \in DOMAIN w, w[k].id = PageRecord PROVE k < i
        <4>1. w[k].op # "delete"
          BY <1>10, <3>2
        <4>2. ~ (i < k) /\ i # k
          BY <1>2, <2>1, <4>1
        <4>3. QED
          BY <1>9, <4>2
      <3>3. QED
        BY <2>1, <3>1, <3>2
    <2>2. CASE w[i].op # "delete"
      BY <1>2, <2>2
    <2>3. QED
      BY <2>1, <2>2
  <1>14. WritesLead'
    <2>1. (\A i \in DOMAIN writes' : Due(i)' => writes'[i].id # PageRecord) => table'[PageRecord].refs = Target'
      BY <1>0, <1>4, <1>8, <1>11 DEF w
    <2>2. \A i \in DOMAIN writes' : writes'[i].id = PageRecord =>
              /\ writes'[i].op # "delete" /\ writes'[i].record.refs = Target'
              /\ \A r \in Target' :
                    \/ Built!Is(table'[r])
                    \/ \E k \in DOMAIN writes' :
                          Due(k)' /\ k < i /\ writes'[k].id = r /\ writes'[k].op # "delete"
      BY <1>0, <1>4, <1>8, <1>10, <1>12 DEF w
    <2>3. \A i \in DOMAIN writes' :
              IF writes'[i].op = "delete"
              THEN /\ writes'[i].id \in RowRecords \ Target'
                   /\ \A k \in DOMAIN writes' : Due(k)' /\ writes'[k].id = PageRecord => k < i
              ELSE Built!Is(writes'[i].record)
      BY <1>4, <1>13 DEF w
    <2>4. QED
      BY <2>1, <2>2, <2>3 DEF WritesLead
  <1>15. SavesLead'
    <2> SUFFICES ASSUME NEW j \in DOMAIN saves'
                 PROVE  /\ WholeSave(saves'[j])
                        /\ saves'[j].next[PageRecord].refs =
                              IF j + 1 \in DOMAIN saves' THEN saves'[j + 1].previous[PageRecord].refs
                              ELSE Built!Seen'[PageRecord].refs
      BY DEF SavesLead, WholeSave
    <2>1. j \in Nat /\ j + 1 \in DOMAIN saves /\ saves'[j] = saves[j + 1]
      BY <1>1
    <2>2. WholeSave(saves'[j])
      BY <2>1 DEF SavesLead
    <2>3. saves[j + 1].next[PageRecord].refs =
              IF (j + 1) + 1 \in DOMAIN saves THEN saves[(j + 1) + 1].previous[PageRecord].refs
              ELSE Built!Seen[PageRecord].refs
      BY <2>1 DEF SavesLead
    <2>4. /\ j + 1 \in DOMAIN saves' <=> (j + 1) + 1 \in DOMAIN saves
          /\ j + 1 \in DOMAIN saves' => saves'[j + 1] = saves[(j + 1) + 1]
      <3>1. j + 1 \in DOMAIN saves' => (j + 1) + 1 \in DOMAIN saves /\ saves'[j + 1] = saves[(j + 1) + 1]
        BY <1>1
      <3>2. (j + 1) + 1 \in DOMAIN saves => ((j + 1) + 1) - 1 \in DOMAIN saves' /\ (j + 1) + 1 # 1
        BY <1>1, <2>1
      <3>3. ((j + 1) + 1) - 1 = j + 1
        BY <2>1
      <3>4. QED
        BY <3>1, <3>2, <3>3
    <2>5. QED
      BY <1>0, <2>1, <2>2, <2>3, <2>4
  <1>16. PageIsSeen'
    <2>1. CASE Built!Seen[PageRecord].stamp >= 1000
      BY <1>0, <2>1 DEF PageIsSeen
    <2>2. CASE /\ \A i \in DOMAIN inbox : inbox[i].id # PageRecord
               /\ \A j \in DOMAIN saves : saves[j].previous[PageRecord].content = saves[j].next[PageRecord].content
      <3>1. p[PageRecord].content = n[PageRecord].content
        BY <1>1, <2>2 DEF p, n
      <3>2. \A i \in DOMAIN writes' : writes'[i].id # PageRecord
        BY <1>10, <3>1 DEF w
      <3>3. \A j \in DOMAIN saves' : saves'[j].previous[PageRecord].content = saves'[j].next[PageRecord].content
        BY <1>1, <2>2
      <3>4. QED
        BY <1>0, <2>2, <3>2, <3>3 DEF PageIsSeen
    <2>3. QED
      BY <2>1, <2>2 DEF PageIsSeen
  <1>17. StoredIsWhole'
    BY <1>0 DEF StoredIsWhole
  <1>18. QED
    BY <1>14, <1>15, <1>16, <1>17

LEMMA ServerEdits ==
    ASSUME Sound, Alone, NEW e, Edits(e), PageIsSeen, WritesLead, SavesLead, StoredIsWhole
    PROVE  PageIsSeen' /\ WritesLead' /\ SavesLead' /\ StoredIsWhole'
  <1> DEFINE m == Built!Seen
  <1>0. /\ saves \in Seq(Saves) /\ clock \in Nat /\ BuilderTypes /\ m \in Maps /\ Edited(e)
        /\ Built!Seen' = e /\ UNCHANGED <<table, writes, sent, inbox>>
    BY SeenType DEF Edits, Sound, BuilderTypes
  <1>1. PICK save \in Saves : saves' = Append(saves, save) /\ Saved(save, e)
    BY DEF Edits
  <1>2. /\ e \in Maps
        /\ \A x \in Built!Record : e[x] # m[x] =>
              \/ e[x] = Built!Absent /\ Built!Is(m[x]) /\ x \in RowRecords \ e[PageRecord].refs
              \/ e[x].content = clock + 1 /\ e[x].stamp = Now
        /\ Built!Is(m[PageRecord]) /\ Built!Is(e[PageRecord])
        /\ \A r \in e[PageRecord].refs \ m[PageRecord].refs : e[r].content = clock + 1
        /\ e[PageRecord].refs # m[PageRecord].refs => e[PageRecord].content = clock + 1
    BY <1>0 DEF Edited
  <1>3. /\ save.previous[PageRecord] = m[PageRecord] /\ save.next[PageRecord] = e[PageRecord]
        /\ \A x \in Built!Record : IF e[x] = m[x] THEN save.previous[x] = save.next[x]
                                   ELSE save.previous[x] = m[x] /\ save.next[x] = e[x]
    BY <1>1 DEF Saved
  <1>4. \A x \in Built!Record : m[x].content <= clock /\ m[x].content \in Nat
    BY <1>0 DEF Sound, NothingIsNewer, Made, Maps, Records
  <1>5. /\ \A j \in DOMAIN saves : j \in DOMAIN saves' /\ saves'[j] = saves[j] /\ j \in Nat /\ j <= Len(saves)
        /\ Len(saves) + 1 \in DOMAIN saves' /\ saves'[Len(saves) + 1] = save /\ Len(saves) \in Nat
        /\ \A j \in DOMAIN saves' : (j \in DOMAIN saves \/ j = Len(saves) + 1) /\ j \in Nat /\ j <= Len(saves) + 1
        /\ saves # << >> => 1 \in DOMAIN saves /\ Len(saves) \in DOMAIN saves
        /\ saves = << >> => Len(saves) = 0
        /\ saves' # << >>
    BY <1>0, <1>1
  <1>6. PageRecord \in Built!Record /\ e[PageRecord].refs \subseteq RowRecords /\ RowRecords \subseteq Built!Record
    BY <1>2, BuilderConstants DEF Maps, Records
  <1> HIDE DEF m
  <1>7. WholeSave(save)
    <2>1. save.previous[PageRecord].content = save.next[PageRecord].content =>
              save.previous[PageRecord].refs = save.next[PageRecord].refs
      <3>1. m[PageRecord].content <= clock /\ m[PageRecord].content \in Nat
        BY <1>4, <1>6
      <3>2. m[PageRecord].content # clock + 1
        BY <1>0, <3>1
      <3>3. QED
        BY <1>2, <1>3, <3>2
    <2>2. ASSUME NEW r \in save.next[PageRecord].refs \ save.previous[PageRecord].refs
          PROVE  Built!Is(save.next[r]) /\ save.previous[r].content # save.next[r].content
      <3>1. r \in Built!Record /\ e[r].content = clock + 1
        BY <1>2, <1>3, <1>6, <2>2
      <3>2. m[r].content <= clock /\ m[r].content \in Nat
        BY <1>4, <3>1
      <3>3. e[r] # m[r]
        BY <1>0, <3>1, <3>2
      <3>4. save.previous[r] = m[r] /\ save.next[r] = e[r]
        BY <1>3, <3>1, <3>3
      <3>5. QED
        BY <1>0, <3>1, <3>2, <3>4 DEF Built!Is
    <2>3. ASSUME NEW x \in Built!Record, Built!Is(save.previous[x]), ~ Built!Is(save.next[x])
          PROVE  x \notin save.next[PageRecord].refs
      <3>1. e[x] # m[x] /\ save.next[x] = e[x]
        BY <1>3, <2>3
      <3>2. e[x].content # clock + 1
        BY <1>0, <2>3, <3>1 DEF Built!Is
      <3>3. QED
        BY <1>2, <1>3, <3>1, <3>2
    <2>4. QED
      BY <1>2, <1>3, <2>1, <2>2, <2>3 DEF WholeSave
  <1>8. SavesLead'
    <2> SUFFICES ASSUME NEW j \in DOMAIN saves'
                 PROVE  /\ WholeSave(saves'[j])
                        /\ saves'[j].next[PageRecord].refs =
                              IF j + 1 \in DOMAIN saves' THEN saves'[j + 1].previous[PageRecord].refs
                              ELSE Built!Seen'[PageRecord].refs
      BY DEF SavesLead, WholeSave
    <2>1. CASE j = Len(saves) + 1
      <3>1. j + 1 \notin DOMAIN saves' /\ saves'[j] = save
        BY <1>5, <2>1
      <3>2. QED
        BY <1>0, <1>3, <1>7, <3>1
    <2>2. CASE j \in DOMAIN saves
      <3>1. /\ saves'[j] = saves[j] /\ WholeSave(saves[j])
            /\ saves[j].next[PageRecord].refs = IF j + 1 \in DOMAIN saves THEN saves[j + 1].previous[PageRecord].refs
                                                ELSE m[PageRecord].refs
        BY <1>5, <2>2 DEF SavesLead, m
      <3>2. CASE j + 1 \in DOMAIN saves
        BY <1>5, <3>1, <3>2
      <3>3. CASE j + 1 \notin DOMAIN saves
        <4>1. j = Len(saves)
          BY <1>0, <2>2, <3>3
        <4>2. j + 1 \in DOMAIN saves' /\ saves'[j + 1] = save
          BY <1>5, <4>1
        <4>3. QED
          BY <1>3, <3>1, <3>3, <4>2
      <3>4. QED
        BY <3>2, <3>3
    <2>3. QED
      BY <1>5, <2>1, <2>2
  <1>9. Target' = Target
    <2>1. CASE saves = << >>
      <3>1. saves'[1] = save
        BY <1>5, <2>1
      <3>2. QED
        BY <1>3, <1>5, <2>1, <3>1 DEF Target, m
    <2>2. CASE saves # << >>
      BY <1>5, <2>2 DEF Target
    <2>3. QED
      BY <2>1, <2>2
  <1>10. WritesLead'
    <2>1. \A i : Due(i)' <=> Due(i)
      BY <1>0 DEF Due
    <2>2. QED
      BY <1>0, <1>9, <2>1 DEF WritesLead
  <1>11. PageIsSeen'
    <2>1. CASE e[PageRecord] = m[PageRecord]
      <3>1. save.previous[PageRecord].content = save.next[PageRecord].content
        BY <1>3, <2>1
      <3>2. \A j \in DOMAIN saves' : saves'[j] = save \/ (j \in DOMAIN saves /\ saves'[j] = saves[j])
        BY <1>5
      <3>3. QED
        BY <1>0, <2>1, <3>1, <3>2 DEF PageIsSeen, m
    <2>2. CASE e[PageRecord] # m[PageRecord]
      <3>1. e[PageRecord].stamp = Now
        BY <1>2, <1>6, <2>2, NoRecord
      <3>2. Now >= 1000
        BY <1>0 DEF Now, Alone
      <3>3. QED
        BY <1>0, <1>2, <3>1, <3>2 DEF PageIsSeen
    <2>3. QED
      BY <2>1, <2>2
  <1>12. StoredIsWhole'
    BY <1>0 DEF StoredIsWhole
  <1>13. QED
    BY <1>8, <1>10, <1>11, <1>12

LEMMA ServerStores ==
    ASSUME Sound, NEW record, Stores(record), PageIsSeen, WritesLead, SavesLead, StoredIsWhole
    PROVE  PageIsSeen' /\ WritesLead' /\ SavesLead' /\ StoredIsWhole'
  <1> DEFINE told == << Built!Push(writes[1].id, record), Built!Reply(writes[1].id, record) >>
             y == writes[1].id
  <1>0. /\ writes \in Seq(Writes) /\ inbox \in Seq(Messages) /\ BuilderTypes /\ clock \in Nat
        /\ table \in Maps
    BY DEF Sound, BuilderTypes
  <1>1. /\ writes[1] \in Writes /\ y \in Built!Record
        /\ inbox' = inbox \o told /\ told \in Seq(Messages) /\ DOMAIN told = {1, 2}
        /\ \A i \in {1, 2} : told[i].id = y /\ told[i].record = record
        /\ table'[y] = record /\ \A z \in Built!Record : z # y => table'[z] = table[z]
    BY <1>0, Pair
  <1>2. /\ UNCHANGED <<Built!Seen, writes, saves>> /\ sent' /\ ~ sent /\ writes # << >> /\ clock < MaxStamps
        /\ IF writes[1].op = "delete" THEN record = Built!Deleted
           ELSE record = [writes[1].record EXCEPT !.stamp = clock + 1]
    BY DEF Stores
  <1>3. 1 \in DOMAIN writes /\ Due(1) /\ \A i \in DOMAIN writes : i \in Nat /\ i >= 1
    BY <1>0, <1>2 DEF Due
  <1>4. writes[1].op # "delete" =>
            /\ Built!Is(record) /\ record.refs = writes[1].record.refs
            /\ record.stamp <= 1000
    <2> SUFFICES ASSUME writes[1].op # "delete"
                 PROVE  Built!Is(record) /\ record.refs = writes[1].record.refs /\ record.stamp <= 1000
      OBVIOUS
    <2>1. writes[1].record \in Records
      BY <1>1 DEF Writes
    <2>2. record.content = writes[1].record.content /\ record.refs = writes[1].record.refs /\ record.stamp = clock + 1
      BY <1>2, <2>1 DEF Records
    <2>3. Built!Is(writes[1].record)
      BY <1>3 DEF WritesLead
    <2>4. clock + 1 <= 1000
      <3>1. MaxStamps \in 2 .. 1000
        BY BuilderConstants
      <3>2. clock \in Nat /\ clock < MaxStamps
        BY <1>0, <1>2
      <3>3. QED
        BY <3>1, <3>2
    <2>5. QED
      BY <2>2, <2>3, <2>4 DEF Built!Is
  <1>5. \A i \in DOMAIN writes : Due(i)' <=> Due(i) /\ i # 1
    BY <1>2 DEF Due
  <1>6. Target' = Target
    BY <1>2 DEF Target
  <1>7. PageRecord \in Built!Record /\ table[PageRecord].refs \subseteq RowRecords /\ RowRecords \subseteq Built!Record
    BY <1>0, BuilderConstants DEF Maps, Records
  <1> HIDE DEF told, y
  <1>8. CASE writes[1].op = "delete"
    <2>1. /\ y \in RowRecords \ Target /\ y # PageRecord
          /\ \A k \in DOMAIN writes : Due(k) => writes[k].id # PageRecord
      <3>1. y \in RowRecords \ Target /\ \A k \in DOMAIN writes : Due(k) /\ writes[k].id = PageRecord => k < 1
        BY <1>3, <1>8 DEF WritesLead, y
      <3>2. \A k \in DOMAIN writes : ~ (k < 1)
        BY <1>3
      <3>3. QED
        BY <3>1, <3>2, BuilderConstants
    <2>2. table[PageRecord].refs = Target
      BY <2>1 DEF WritesLead
    <2>3. table'[PageRecord] = table[PageRecord]
      BY <1>1, <1>7, <2>1
    <2>4. StoredIsWhole'
      <3> SUFFICES ASSUME NEW r \in table[PageRecord].refs PROVE Built!Is(table'[r])
        BY <2>3 DEF StoredIsWhole
      <3>1. r \in Built!Record /\ r # y
        BY <1>7, <2>1, <2>2
      <3>2. QED
        BY <1>1, <3>1 DEF StoredIsWhole
    <2>5. WritesLead'
      <3>1. \A i \in DOMAIN writes : Due(i)' => Due(i) /\ writes[i].id # PageRecord
        BY <1>5, <2>1
      <3>2. \A i \in DOMAIN writes : Due(i)' =>
                IF writes[i].op = "delete" THEN writes[i].id \in RowRecords \ Target
                ELSE Built!Is(writes[i].record)
        BY <3>1 DEF WritesLead
      <3>3. QED
        BY <1>2, <1>6, <2>2, <2>3, <3>1, <3>2 DEF WritesLead
    <2>6. PageIsSeen'
      <3>1. \A i \in DOMAIN inbox' : (i \in DOMAIN inbox /\ inbox'[i] = inbox[i]) \/ inbox'[i].id = y
        BY <1>0, <1>1, Longer
      <3>2. QED
        BY <1>2, <2>1, <3>1 DEF PageIsSeen
    <2>7. SavesLead'
      BY <1>2 DEF SavesLead, WholeSave
    <2>8. QED
      BY <2>4, <2>5, <2>6, <2>7
  <1>9. CASE writes[1].op # "delete" /\ y # PageRecord
    <2>1. table'[PageRecord] = table[PageRecord] /\ \A r \in Built!Record : Built!Is(table[r]) => Built!Is(table'[r])
      <3>1. ASSUME NEW r \in Built!Record, Built!Is(table[r]) PROVE Built!Is(table'[r])
        <4>1. CASE r = y
          BY <1>1, <1>4, <1>9, <4>1
        <4>2. CASE r # y
          BY <1>1, <3>1, <4>2
        <4>3. QED
          BY <4>1, <4>2
      <3>2. QED
        BY <1>1, <1>7, <1>9, <3>1
    <2>2. StoredIsWhole'
      BY <1>7, <2>1 DEF StoredIsWhole
    <2>3. WritesLead'
      <3>1. (\A i \in DOMAIN writes : Due(i)' => writes[i].id # PageRecord) =>
                \A i \in DOMAIN writes : Due(i) => writes[i].id # PageRecord
        BY <1>5, <1>9 DEF y
      <3>2. ASSUME NEW i \in DOMAIN writes, Due(i)', writes[i].id = PageRecord
            PROVE  /\ writes[i].op # "delete" /\ writes[i].record.refs = Target
                   /\ \A r \in Target :
                         \/ Built!Is(table'[r])
                         \/ \E k \in DOMAIN writes :
                               Due(k)' /\ k < i /\ writes[k].id = r /\ writes[k].op # "delete"
        <4>1. /\ writes[i].op # "delete" /\ writes[i].record.refs = Target
              /\ \A r \in Target :
                    \/ Built!Is(table[r])
                    \/ \E k \in DOMAIN writes : Due(k) /\ k < i /\ writes[k].id = r /\ writes[k].op # "delete"
          BY <1>5, <3>2 DEF WritesLead
        <4>2. Target \subseteq Built!Record
          <5>1. writes[i] \in Writes
            BY <1>0, Elements
          <5>2. writes[i].record.refs \subseteq RowRecords
            BY <5>1 DEF Writes, Records
          <5>3. QED
            BY <1>7, <4>1, <5>2
        <4>3. ASSUME NEW r \in Target
              PROVE  \/ Built!Is(table'[r])
                     \/ \E k \in DOMAIN writes : Due(k)' /\ k < i /\ writes[k].id = r /\ writes[k].op # "delete"
          <5>1. CASE Built!Is(table[r])
            BY <2>1, <4>2, <5>1
          <5>2. ASSUME NEW k \in DOMAIN writes, Due(k) /\ k < i /\ writes[k].id = r /\ writes[k].op # "delete"
                PROVE  \/ Built!Is(table'[r])
                       \/ Due(k)' /\ k < i /\ writes[k].id = r /\ writes[k].op # "delete"
            <6>1. CASE k = 1
              BY <1>1, <1>4, <1>9, <5>2, <6>1 DEF y
            <6>2. CASE k # 1
              BY <1>5, <5>2, <6>2
            <6>3. QED
              BY <6>1, <6>2
          <5>3. QED
            BY <4>1, <5>1, <5>2
        <4>4. QED
          BY <4>1, <4>3
      <3>3. ASSUME NEW i \in DOMAIN writes, Due(i)'
            PROVE  IF writes[i].op = "delete"
                   THEN /\ writes[i].id \in RowRecords \ Target
                        /\ \A k \in DOMAIN writes : Due(k)' /\ writes[k].id = PageRecord => k < i
                   ELSE Built!Is(writes[i].record)
        BY <1>5, <3>3 DEF WritesLead
      <3>4. (\A i \in DOMAIN writes : Due(i) => writes[i].id # PageRecord) => table[PageRecord].refs = Target
        BY DEF WritesLead
      <3>5. QED
        BY <1>2, <1>6, <2>1, <3>1, <3>2, <3>3, <3>4 DEF WritesLead
    <2>4. PageIsSeen'
      <3>1. \A i \in DOMAIN inbox' : (i \in DOMAIN inbox /\ inbox'[i] = inbox[i]) \/ inbox'[i].id = y
        BY <1>0, <1>1, Longer
      <3>2. QED
        BY <1>2, <1>9, <3>1 DEF PageIsSeen
    <2>5. SavesLead'
      BY <1>2 DEF SavesLead, WholeSave
    <2>6. QED
      BY <2>2, <2>3, <2>4, <2>5
  <1>10. CASE writes[1].op # "delete" /\ y = PageRecord
    <2>1. /\ writes[1].record.refs = Target /\ record.refs = Target
          /\ \A r \in Target : Built!Is(table[r])
      <3>1. /\ writes[1].record.refs = Target
            /\ \A r \in Target :
                  \/ Built!Is(table[r])
                  \/ \E k \in DOMAIN writes : Due(k) /\ k < 1 /\ writes[k].id = r /\ writes[k].op # "delete"
        BY <1>3, <1>10 DEF WritesLead, y
      <3>2. \A k \in DOMAIN writes : ~ (k < 1)
        BY <1>3
      <3>3. QED
        BY <1>4, <1>10, <3>1, <3>2
    <2>2. Target \subseteq RowRecords
      BY <1>1, <2>1 DEF Writes, Records
    <2>3. table'[PageRecord].refs = Target /\ \A r \in Target : Built!Is(table'[r])
      BY <1>1, <1>7, <1>10, <2>1, <2>2, BuilderConstants
    <2>4. StoredIsWhole'
      BY <2>3 DEF StoredIsWhole
    <2>5. WritesLead'
      <3>1. \A i \in DOMAIN writes : Due(i)' => Due(i)
        BY <1>5
      <3>2. \A i \in DOMAIN writes : Due(i)' =>
                /\ writes[i].id = PageRecord => writes[i].op # "delete" /\ writes[i].record.refs = Target
                /\ IF writes[i].op = "delete"
                   THEN /\ writes[i].id \in RowRecords \ Target
                        /\ \A k \in DOMAIN writes : Due(k)' /\ writes[k].id = PageRecord => k < i
                   ELSE Built!Is(writes[i].record)
        BY <3>1 DEF WritesLead
      <3>3. QED
        BY <1>2, <1>6, <2>3, <3>2 DEF WritesLead
    <2>6. Built!Seen[PageRecord].stamp >= 1000
      BY <1>3, <1>10 DEF PageIsSeen, y
    <2>7. PageIsSeen'
      <3>1. \A i \in DOMAIN inbox' : (i \in DOMAIN inbox /\ inbox'[i] = inbox[i]) \/ inbox'[i].record = record
        BY <1>0, <1>1, Longer
      <3>2. QED
        BY <1>2, <1>4, <1>10, <2>6, <3>1 DEF PageIsSeen
    <2>8. SavesLead'
      BY <1>2 DEF SavesLead, WholeSave
    <2>9. QED
      BY <2>4, <2>5, <2>7, <2>8
  <1>11. QED
    BY <1>8, <1>9, <1>10

LEMMA ServerHears ==
    ASSUME Sound, Alone, NEW c, Hears(c) \/ Answered(c), \A i \in DOMAIN inbox : inbox[i].kind # "error",
           PageIsSeen, WritesLead, SavesLead, StoredIsWhole
    PROVE  PageIsSeen' /\ WritesLead' /\ SavesLead' /\ StoredIsWhole'
  <1>0. /\ inbox \in Seq(Messages) /\ writes \in Seq(Writes) /\ BuilderTypes /\ inbox # << >>
        /\ inbox' = Tail(inbox) /\ c = inbox[1] /\ c \in Messages /\ UNCHANGED <<table, saves>>
        /\ Built!Seen \in Maps
    BY SeenType DEF Sound, BuilderTypes, Hears, Answered
  <1>1. /\ 1 \in DOMAIN inbox
        /\ \A i \in DOMAIN inbox' : i + 1 \in DOMAIN inbox /\ inbox'[i] = inbox[i + 1]
    BY <1>0, Shorter
  <1>2. PageRecord \in Built!Record
    BY BuilderConstants
  <1>3. Built!Seen'[PageRecord] = Built!Seen[PageRecord]
    <2>1. CASE Answered(c)
      BY <2>1 DEF Answered
    <2>2. CASE Hears(c)
      <3> DEFINE m == Built!Seen
      <3>1. Built!Seen' = Built!ApplyRemoteRecord(m, c) /\ c.kind = "push" /\ m \in Maps
        BY <1>0, <2>2 DEF Hears
      <3> HIDE DEF m
      <3>2. /\ \A y \in Built!Record : y # c.id => Built!Seen'[y] = m[y]
            /\ Built!Seen'[c.id] = IF ~ Built!Is(c.record) THEN Built!Absent
                             ELSE IF Built!Is(m[c.id]) /\ m[c.id].stamp >= c.record.stamp THEN m[c.id]
                             ELSE c.record
        BY <1>0, <3>1, Applying
      <3>3. CASE c.id # PageRecord
        BY <1>2, <3>2, <3>3 DEF m
      <3>4. CASE c.id = PageRecord
        <4>1. Built!Is(c.record) /\ c.record.stamp <= 1000
          BY <1>0, <1>1, <3>1, <3>4 DEF PageIsSeen
        <4>2. Built!Is(m[PageRecord]) /\ m[PageRecord].stamp >= 1000
          BY <1>0, <1>1, <3>4 DEF PageIsSeen, m
        <4>3. m[PageRecord].stamp \in Nat /\ c.record.stamp \in Nat
          BY <1>0, <1>2, <3>1 DEF Maps, Records, Messages
        <4>4. m[PageRecord].stamp >= c.record.stamp
          BY <4>1, <4>2, <4>3
        <4>5. QED
          BY <3>2, <3>4, <4>1, <4>2, <4>4 DEF m
      <3>5. QED
        BY <3>3, <3>4
    <2>3. QED
      BY <2>1, <2>2
  <1>4. Target' = Target
    BY <1>0, <1>3 DEF Target
  <1>5. StoredIsWhole' /\ SavesLead'
    BY <1>0, <1>3 DEF StoredIsWhole, SavesLead, WholeSave
  <1>6. CASE Hears(c)
    <2>1. UNCHANGED <<writes, sent>>
      BY <1>6 DEF Hears
    <2>2. \A i : Due(i)' <=> Due(i)
      BY <2>1 DEF Due
    <2>3. WritesLead'
      BY <1>0, <1>4, <2>1, <2>2 DEF WritesLead
    <2>4. PageIsSeen'
      BY <1>0, <1>1, <1>3, <2>1 DEF PageIsSeen
    <2>5. QED
      BY <1>5, <2>3, <2>4
  <1>7. CASE Answered(c)
    <2>1. writes' = Tail(writes) /\ sent' = FALSE /\ sent /\ writes # << >>
      <3>1. c.kind # "error" /\ c.kind # "push" /\ c.kind \in {"push", "reply", "error"}
        BY <1>0, <1>1, <1>7 DEF Answered, Messages
      <3>2. sent
        BY <1>0, <1>1, <3>1 DEF Sound, Answers
      <3>3. QED
        BY <1>7, <3>1, <3>2 DEF Answered, Sound, Answers
    <2>2. /\ \A i \in DOMAIN writes' : i \in Nat /\ i + 1 \in DOMAIN writes /\ writes'[i] = writes[i + 1]
          /\ \A i \in DOMAIN writes : i \in Nat /\ (i = 1 \/ (i - 1 \in DOMAIN writes' /\ writes[i] = writes'[i - 1]))
      <3>1. /\ \A i \in DOMAIN writes' : i \in Nat /\ i + 1 \in DOMAIN writes /\ writes'[i] = writes[i + 1]
            /\ \A i \in DOMAIN writes : (i = 1 \/ (i - 1 \in DOMAIN writes' /\ writes[i] = writes'[i - 1]))
        BY <1>0, <2>1, Shorter
      <3>2. QED
        BY <1>0, <3>1
    <2>3. \A i \in DOMAIN writes' : i >= 1
      BY <1>0, <2>1
    <2>4. /\ \A i \in DOMAIN writes' : Due(i)' /\ Due(i + 1)
          /\ \A i \in DOMAIN writes : Due(i) => i - 1 \in DOMAIN writes' /\ writes[i] = writes'[i - 1]
      BY <2>1, <2>2, <2>3 DEF Due
    <2>5. (\A i \in DOMAIN writes' : Due(i)' => writes'[i].id # PageRecord) => table[PageRecord].refs = Target
      BY <2>4 DEF WritesLead
    <2>6. ASSUME NEW i \in DOMAIN writes', writes'[i].id = PageRecord
          PROVE  /\ writes'[i].op # "delete" /\ writes'[i].record.refs = Target
                 /\ \A r \in Target :
                       \/ Built!Is(table[r])
                       \/ \E k \in DOMAIN writes' : Due(k)' /\ k < i /\ writes'[k].id = r /\ writes'[k].op # "delete"
      <3>1. i + 1 \in DOMAIN writes /\ writes'[i] = writes[i + 1] /\ Due(i + 1) /\ i \in Nat
        BY <2>2, <2>4
      <3>2. /\ writes[i + 1].op # "delete" /\ writes[i + 1].record.refs = Target
            /\ \A r \in Target :
                  \/ Built!Is(table[r])
                  \/ \E k \in DOMAIN writes : Due(k) /\ k < i + 1 /\ writes[k].id = r /\ writes[k].op # "delete"
        BY <2>6, <3>1 DEF WritesLead
      <3>3. ASSUME NEW r \in Target, ~ Built!Is(table[r])
            PROVE  \E k \in DOMAIN writes' : Due(k)' /\ k < i /\ writes'[k].id = r /\ writes'[k].op # "delete"
        <4>1. PICK k \in DOMAIN writes : Due(k) /\ k < i + 1 /\ writes[k].id = r /\ writes[k].op # "delete"
          BY <3>2, <3>3
        <4>2. k - 1 \in DOMAIN writes' /\ writes[k] = writes'[k - 1] /\ k \in Nat
          BY <2>2, <2>4, <4>1
        <4>3. k - 1 < i /\ Due(k - 1)'
          BY <2>4, <3>1, <4>1, <4>2
        <4>4. QED
          BY <4>1, <4>2, <4>3
      <3>4. QED
        BY <3>1, <3>2, <3>3
    <2>7. ASSUME NEW i \in DOMAIN writes'
          PROVE  IF writes'[i].op = "delete"
                 THEN /\ writes'[i].id \in RowRecords \ Target
                      /\ \A k \in DOMAIN writes' : Due(k)' /\ writes'[k].id = PageRecord => k < i
                 ELSE Built!Is(writes'[i].record)
      <3>1. i + 1 \in DOMAIN writes /\ writes'[i] = writes[i + 1] /\ Due(i + 1) /\ i \in Nat
        BY <2>2, <2>4
      <3>2. IF writes[i + 1].op = "delete"
            THEN /\ writes[i + 1].id \in RowRecords \ Target
                 /\ \A k \in DOMAIN writes : Due(k) /\ writes[k].id = PageRecord => k < i + 1
            ELSE Built!Is(writes[i + 1].record)
        BY <3>1 DEF WritesLead
      <3>3. ASSUME writes'[i].op = "delete", NEW k \in DOMAIN writes', writes'[k].id = PageRecord PROVE k < i
        <4>1. k + 1 \in DOMAIN writes /\ writes'[k] = writes[k + 1] /\ Due(k + 1) /\ k \in Nat
          BY <2>2, <2>4
        <4>2. k + 1 < i + 1
          BY <3>1, <3>2, <3>3, <4>1
        <4>3. QED
          BY <3>1, <4>1, <4>2
      <3>4. QED
        BY <3>1, <3>2, <3>3
    <2>8. WritesLead'
      BY <1>0, <1>4, <2>5, <2>6, <2>7 DEF WritesLead
    <2>9. PageIsSeen'
      <3>1. CASE Built!Seen[PageRecord].stamp >= 1000
        BY <1>0, <1>1, <1>3, <3>1 DEF PageIsSeen
      <3>2. CASE /\ \A i \in DOMAIN inbox : inbox[i].id # PageRecord
                 /\ \A i \in DOMAIN writes : writes[i].id # PageRecord
                 /\ \A j \in DOMAIN saves : saves[j].previous[PageRecord].content = saves[j].next[PageRecord].content
        BY <1>0, <1>1, <1>3, <2>2, <3>2 DEF PageIsSeen
      <3>3. QED
        BY <3>1, <3>2 DEF PageIsSeen
    <2>10. QED
      BY <1>5, <2>8, <2>9
  <1>8. QED
    BY <1>6, <1>7

LEMMA ServerStep ==
    ASSUME Sound, ServerInv, Does
    PROVE  ServerInv'
  <1> SUFFICES ASSUME Alone' PROVE PageIsSeen' /\ WritesLead' /\ SavesLead' /\ StoredIsWhole'
    BY DEF ServerInv
  <1>0. /\ Alone /\ ~ Refuses /\ ~ Loses /\ ~ \E told : Hurries(told)
        /\ \A i \in DOMAIN inbox : inbox[i].kind # "error"
        /\ PageIsSeen /\ WritesLead /\ SavesLead /\ StoredIsWhole
    BY AloneStep DEF ServerInv
  <1>1. CASE Stays
    <2>1. Target' = Target /\ \A i : Due(i)' <=> Due(i)
      BY <1>1 DEF Stays, Target, Due
    <2>2. WritesLead'
      BY <1>0, <1>1, <2>1 DEF Stays, WritesLead
    <2>3. QED
      BY <1>0, <1>1, <2>2 DEF Stays, PageIsSeen, SavesLead, WholeSave, StoredIsWhole
  <1>2. CASE Begins
    BY <1>0, <1>2, ServerBegins
  <1>3. ASSUME NEW e, Edits(e) PROVE PageIsSeen' /\ WritesLead' /\ SavesLead' /\ StoredIsWhole'
    BY <1>0, <1>3, ServerEdits
  <1>4. ASSUME NEW record, Stores(record) PROVE PageIsSeen' /\ WritesLead' /\ SavesLead' /\ StoredIsWhole'
    BY <1>0, <1>4, ServerStores
  <1>5. ASSUME NEW c, Hears(c) \/ Answered(c) PROVE PageIsSeen' /\ WritesLead' /\ SavesLead' /\ StoredIsWhole'
    BY <1>0, <1>5, ServerHears
  <1>6. QED
    BY <1>0, <1>1, <1>2, <1>3, <1>4, <1>5 DEF Does

-----------------------------------------------------------------------------
(* The invariant of the builder, and what it shows *)

BuilderInv == Sound /\ Current /\ EchoesNothing /\ OnItsWay /\ ServerInv

LEMMA BuilderInit == Built!Init => BuilderInv
  <1> SUFFICES ASSUME Built!Init PROVE BuilderInv
    OBVIOUS
  <1>1. /\ setting \in Built!Setting /\ clock = 2
        /\ table = [x \in Built!Record |->
                       IF x \in RowRecords \ FirstRecords THEN Built!Absent
                       ELSE [content |-> 2, refs |-> IF x = PageRecord THEN FirstRecords ELSE {}, stamp |-> 2]]
        /\ local = table /\ previous = table /\ actions = << >> /\ applied = << >> /\ effect = FALSE
        /\ versions = [x \in Built!Record |-> table[x].stamp]
        /\ saves = << >> /\ writes = << >> /\ sent = FALSE /\ inbox = << >> /\ refused = 0
        /\ bounds = [edits |-> 0, others |-> 0, faults |-> 0, losses |-> 0]
        /\ DOMAIN << >> = {}
    <2>1. Settings \subseteq Built!Setting /\ DOMAIN << >> = {}
      BY BuilderConstants
    <2>2. QED
      BY <2>1 DEF Built!Init
  <1>2. \A x \in Built!Record :
            table[x] = IF x \in RowRecords \ FirstRecords THEN Built!Absent
                       ELSE [content |-> 2, refs |-> IF x = PageRecord THEN FirstRecords ELSE {}, stamp |-> 2]
    BY <1>1
  <1>3. \A x \in Built!Record : table[x] \in Records /\ table[x].content <= 2 /\ table[x].stamp <= 2
    <2> SUFFICES ASSUME NEW x \in Built!Record
                 PROVE  table[x] \in Records /\ table[x].content <= 2 /\ table[x].stamp <= 2
      OBVIOUS
    <2>1. CASE x \in RowRecords \ FirstRecords
      <3>1. table[x] = Built!Absent
        BY <1>2, <2>1
      <3>2. Built!Absent.content = 0 /\ Built!Absent.stamp = 0 /\ Built!Absent \in Records
        BY NoRecord DEF Built!Absent
      <3>3. QED
        BY <3>1, <3>2
    <2>2. CASE x \notin RowRecords \ FirstRecords
      <3>1. table[x] = [content |-> 2, refs |-> IF x = PageRecord THEN FirstRecords ELSE {}, stamp |-> 2]
        BY <1>2, <2>2
      <3>2. (IF x = PageRecord THEN FirstRecords ELSE {}) \subseteq RowRecords
        BY BuilderConstants
      <3>3. QED
        BY <3>1, <3>2 DEF Records
    <2>3. QED
      BY <2>1, <2>2
  <1>4. table \in Maps
    BY <1>1, <1>3 DEF Maps
  <1>5. Built!Seen = table
    BY <1>1, <1>4, ReplayNothing DEF Built!Seen
  <1>6. BuilderTypes
    <2>1. bounds \in [edits : Nat, others : Nat, faults : Nat, losses : Nat]
      BY <1>1
    <2>2. versions \in [Built!Record -> Nat]
      BY <1>1, <1>3 DEF Records
    <2>3. << >> \in Seq(Messages) /\ << >> \in Seq(Saves) /\ << >> \in Seq(Writes)
      BY Empty
    <2>4. setting \in Built!Setting /\ clock \in Nat \ {0} /\ refused \in Nat /\ effect \in BOOLEAN /\ sent \in BOOLEAN
      <3>1. clock = 2 /\ refused = 0 /\ effect = FALSE /\ sent = FALSE
        BY <1>1, Zenon
      <3>2. setting \in Built!Setting
        BY <1>1, Zenon
      <3>3. clock \in Nat \ {0} /\ refused \in Nat
        BY <3>1
      <3>4. effect \in BOOLEAN /\ sent \in BOOLEAN
        BY <3>1, Zenon
      <3>5. QED
        BY <3>2, <3>3, <3>4, Zenon
    <2>5. /\ actions \in Seq(Messages) /\ applied \in Seq(Messages) /\ inbox \in Seq(Messages)
          /\ saves \in Seq(Saves) /\ writes \in Seq(Writes)
      BY <1>1, <2>3
    <2>6. local \in Maps /\ previous \in Maps
      BY <1>1, <1>4
    <2>7. QED
      BY <1>4, <2>1, <2>2, <2>4, <2>5, <2>6 DEF BuilderTypes
  <1>7. Baseline
    BY <1>1 DEF Baseline
  <1>8. NothingIsNewer
    BY <1>1, <1>3, <1>5 DEF NothingIsNewer, Made
  <1>9. Answers
    BY <1>1 DEF Answers
  <1>10. Current /\ EchoesNothing
    BY <1>1 DEF Current, EchoesNothing
  <1>11. OnItsWay
    BY <1>1, <1>5 DEF OnItsWay, IsToldOf, Settled
  <1>12. table[PageRecord] = [content |-> 2, refs |-> FirstRecords, stamp |-> 2] /\ \A r \in FirstRecords : Built!Is(table[r])
    <2>1. PageRecord \in Built!Record /\ PageRecord \notin RowRecords /\ FirstRecords \subseteq Built!Record
          /\ PageRecord \notin FirstRecords
      BY BuilderConstants DEF Built!Record
    <2>2. \A r \in FirstRecords : table[r] = [content |-> 2, refs |-> {}, stamp |-> 2]
      BY <1>2, <2>1
    <2>3. table[PageRecord] = [content |-> 2, refs |-> FirstRecords, stamp |-> 2]
      BY <1>2, <2>1
    <2>4. QED
      BY <2>2, <2>3 DEF Built!Is
  <1>13. ServerInv
    <2>1. PageIsSeen
      <3>1. Built!Seen[PageRecord].content = 2
        BY <1>5, <1>12
      <3>2. QED
        BY <1>1, <3>1 DEF PageIsSeen, Built!Is
    <2>2. WritesLead /\ SavesLead
      BY <1>1, <1>5 DEF WritesLead, SavesLead, Target, Due
    <2>3. StoredIsWhole
      BY <1>12 DEF StoredIsWhole
    <2>4. QED
      BY <2>1, <2>2, <2>3 DEF ServerInv
  <1>14. QED
    BY <1>6, <1>7, <1>8, <1>9, <1>10, <1>11, <1>13 DEF BuilderInv, Sound

LEMMA BuilderStep == BuilderInv /\ Built!Next => BuilderInv'
  <1> SUFFICES ASSUME BuilderInv, Built!Next PROVE BuilderInv'
    OBVIOUS
  <1>1. Sound /\ Sound' /\ Does
    BY SoundStep DEF BuilderInv
  <1>2. QED
    BY <1>1, CurrentStep, EchoStep, OnItsWayStep, ServerStep DEF BuilderInv

-----------------------------------------------------------------------------
(* The theorems *)

LEMMA BuilderKept == BuilderInv /\ UNCHANGED builder => BuilderInv'
  <1> SUFFICES ASSUME BuilderInv, UNCHANGED builder PROVE BuilderInv'
    OBVIOUS
  <1>1. /\ setting' = setting /\ clock' = clock /\ table' = table /\ local' = local /\ previous' = previous
        /\ actions' = actions /\ applied' = applied /\ effect' = effect /\ versions' = versions
        /\ saves' = saves /\ writes' = writes /\ sent' = sent /\ inbox' = inbox
        /\ refused' = refused /\ bounds' = bounds
    BY DEF builder
  <1>2. Built!Seen' = Built!Seen
    BY <1>1 DEF Built!Seen
  <1>3. BuilderTypes' /\ Baseline'
    BY <1>1 DEF BuilderInv, Sound, BuilderTypes, Baseline
  <1>4. NothingIsNewer' /\ Answers'
    BY <1>1, <1>2 DEF BuilderInv, Sound, NothingIsNewer, Made, Answers
  <1>5. Does
    BY <1>1, <1>2 DEF Does, Stays
  <1>6. QED
    BY <1>3, <1>4, <1>5, CurrentStep, EchoStep, OnItsWayStep, ServerStep DEF BuilderInv, Sound

LEMMA BuilderSafe == Built!Spec => []BuilderInv
  <1>1. BuilderInv /\ [Built!Next]_(Built!vars) => BuilderInv'
    BY BuilderStep, BuilderKept DEF Built!vars, Built!api, Built!maps, Built!queue, builder
  <1>2. QED
    BY <1>1, BuilderInit, PTL DEF Built!Spec

\* A builder that edits nothing saves nothing: whatever others write, and in
\* whatever order pushes, renders and effects come (AppProvider.tsx).
THEOREM NoEchoes == Built!Spec => []NoEcho
  <1>1. BuilderInv => NoEcho
    BY DEF BuilderInv, EchoesNothing, NoEcho, Built!NoEcho
  <1>2. QED
    BY <1>1, BuilderSafe, PTL

\* Once all is saved and received, the canvas shows what the api stores, where
\* the clock of the builder is not ahead and nothing was refused or lost: a push
\* that is ignored was of what is there already, or another is to come.
THEOREM CanvasConverges == Built!Spec => []Converges
  <1>1. BuilderInv => Converges
    BY QuietConverges DEF BuilderInv, Converges
  <1>2. QED
    BY <1>1, BuilderSafe, PTL

\* A stored page never refers to a row that is not stored, at any point of any
\* save of a builder alone whose clock is ahead, until a write is refused or a
\* socket lost; and the call a save awaits is always answered, unless a socket
\* was lost, so that the queue goes on after a write that was refused.
THEOREM SavesAreWhole == Built!Spec => []SavesEndWhole
  <1>1. BuilderInv => Built!ServerIsWhole
    BY DEF BuilderInv, ServerInv, Alone, StoredIsWhole, Built!ServerIsWhole
  <1>2. BuilderInv => Built!NoCallHangs
    <2> SUFFICES ASSUME BuilderInv, sent, bounds.losses = 0
                 PROVE  \E i \in DOMAIN inbox : inbox[i].kind \in {"reply", "error"}
      BY DEF Built!NoCallHangs
    <2>1. PICK i \in DOMAIN inbox : inbox[i].kind # "push"
      BY DEF BuilderInv, Sound, Answers
    <2>2. inbox[i] \in Messages
      BY Elements DEF BuilderInv, Sound, BuilderTypes
    <2>3. QED
      BY <2>1, <2>2 DEF Messages
  <1>3. BuilderInv => SavesEndWhole
    BY <1>1, <1>2 DEF SavesEndWhole
  <1>4. QED
    BY <1>3, BuilderSafe, PTL

\* The builder is never refused for what it wrote itself: its precondition is
\* the version its own last write was given (serverVersions of wsClient.ts).
THEOREM NoOwnConflicts == Built!Spec => NoConflictAlone
  <1>1. BuilderInv /\ [Built!Next]_(Built!vars) =>
            [Built!SendRefused /\ bounds.others + bounds'.faults + bounds.losses = 0 /\ Head(writes).op = "update"
               => ~ Built!Is(table[Head(writes).id])]_(Built!vars)
    BY NoConflict DEF BuilderInv
  <1>2. QED
    BY <1>1, BuilderSafe, PTL DEF Built!Spec, NoConflictAlone, Built!NoConflictAlone

-----------------------------------------------------------------------------
(* Lists of rows *)

Once(s) == Canvas!IsInjective(s)

LEMMA Listed ==
    ASSUME NEW T, NEW s \in Seq(T)
    PROVE  /\ \A x : x \in Canvas!ToSet(s) <=> \E i \in 1 .. Len(s) : s[i] = x
           /\ \A x : Canvas!Contains(s, x) <=> x \in Canvas!ToSet(s)
           /\ Canvas!ToSet(s) \subseteq T
           /\ Once(s) <=> \A i, j \in 1 .. Len(s) : s[i] = s[j] => i = j
  BY DEF Canvas!ToSet, Canvas!Contains, Once, Canvas!IsInjective

LEMMA NoneListed == Canvas!ToSet(<< >>) = {} /\ Once(<< >>)
  BY DEF Canvas!ToSet, Once, Canvas!IsInjective

\* A list with one more at its end.
LEMMA Appended ==
    ASSUME NEW T, NEW s \in Seq(T), NEW x \in T
    PROVE  /\ Append(s, x) \in Seq(T)
           /\ Canvas!ToSet(Append(s, x)) = Canvas!ToSet(s) \cup {x}
           /\ Once(s) /\ x \notin Canvas!ToSet(s) => Once(Append(s, x))
  <1> DEFINE t == Append(s, x)
  <1>1. /\ t \in Seq(T) /\ Len(t) = Len(s) + 1 /\ t[Len(s) + 1] = x /\ Len(s) \in Nat
        /\ \A i \in 1 .. Len(s) : t[i] = s[i]
    OBVIOUS
  <1> HIDE DEF t
  <1>2. \A i \in 1 .. Len(t) : i \in 1 .. Len(s) \/ i = Len(s) + 1
    BY <1>1
  <1>3. \A y : y \in Canvas!ToSet(t) <=> y \in Canvas!ToSet(s) \cup {x}
    <2>1. ASSUME NEW y \in Canvas!ToSet(t) PROVE y \in Canvas!ToSet(s) \cup {x}
      <3>1. PICK i \in 1 .. Len(t) : t[i] = y
        BY <1>1, Listed
      <3>2. QED
        BY <1>1, <1>2, <3>1, Listed
    <2>2. ASSUME NEW y \in Canvas!ToSet(s) PROVE y \in Canvas!ToSet(t)
      <3>1. PICK i \in 1 .. Len(s) : s[i] = y
        BY Listed
      <3>2. i \in 1 .. Len(t) /\ t[i] = y
        BY <1>1, <3>1
      <3>3. QED
        BY <1>1, <3>2, Listed
    <2>3. x \in Canvas!ToSet(t)
      <3>1. Len(s) + 1 \in 1 .. Len(t)
        BY <1>1
      <3>2. QED
        BY <1>1, <3>1, Listed
    <2>4. QED
      BY <2>1, <2>2, <2>3
  <1>4. ASSUME Once(s), x \notin Canvas!ToSet(s) PROVE Once(t)
    <2>1. \A i \in 1 .. Len(s) : s[i] # x
      BY <1>4, Listed
    <2>2. \A i, j \in 1 .. Len(s) : s[i] = s[j] => i = j
      BY <1>4, Listed
    <2>3. \A i, j \in 1 .. Len(t) : t[i] = t[j] => i = j
      BY <1>1, <1>2, <2>1, <2>2
    <2>4. QED
      BY <1>1, <2>3, Listed
  <1>5. QED
    BY <1>1, <1>3, <1>4 DEF t

\* A list without one.
LEMMA WithoutIs ==
    ASSUME NEW T, NEW s \in Seq(T), NEW r
    PROVE  /\ Canvas!Without(s, r) \in Seq(T)
           /\ Canvas!ToSet(Canvas!Without(s, r)) = Canvas!ToSet(s) \ {r}
           /\ Once(s) => Once(Canvas!Without(s, r))
  <1> DEFINE n == Len(s)
             step == [q \in (1 .. n) \X Seq(T) |-> IF s[q[1]] = r THEN q[2] ELSE Append(q[2], s[q[1]])]
  <1>1. n \in Nat /\ \A i \in 1 .. n : s[i] \in T
    OBVIOUS
  <1>2. \A i \in 1 .. n, x \in Seq(T) : Append(x, s[i]) \in Seq(T)
    BY <1>1
  <1>3. << >> \in Seq(T)
    OBVIOUS
  <1> HIDE DEF n
  <1>4. step \in Steps(n, Seq(T))
    BY <1>2 DEF Steps
  <1>5. \A i \in 1 .. n, x \in Seq(T) : step[<<i, x>>] = IF s[i] = r THEN x ELSE Append(x, s[i])
    OBVIOUS
  <1> HIDE DEF step
  <1>6. PICK f : Goes(f, << >>, n, step, Seq(T))
    BY <1>1, <1>3, <1>4, Recursion
  <1>7. /\ f \in [0 .. n -> Seq(T)] /\ f[0] = << >>
        /\ \A k \in 1 .. n : k - 1 \in 0 .. n /\ f[k] = IF s[k] = r THEN f[k - 1] ELSE Append(f[k - 1], s[k])
    <2>1. /\ f \in [0 .. n -> Seq(T)] /\ f[0] = << >>
          /\ \A k \in 1 .. n : k - 1 \in 0 .. n /\ f[k] = step[<<k, f[k - 1]>>]
      BY <1>1, <1>6 DEF Goes
    <2>2. \A k \in 1 .. n : f[k - 1] \in Seq(T)
      BY <2>1
    <2>3. \A k \in 1 .. n : step[<<k, f[k - 1]>>] = IF s[k] = r THEN f[k - 1] ELSE Append(f[k - 1], s[k])
      BY <1>5, <2>2
    <2>4. QED
      BY <2>1, <2>3
  <1> DEFINE R(g) == g = [i \in 0 .. n |-> IF i = 0 THEN << >>
                                           ELSE IF s[i] = r THEN g[i - 1] ELSE Append(g[i - 1], s[i])]
             h == CHOOSE g : R(g)
  <1>8. Canvas!Without(s, r) = h[n]
    BY DEF Canvas!Without, n
  <1>9. R(f)
    <2>1. \A i \in 0 .. n : i = 0 \/ i \in 1 .. n
      BY <1>1
    <2>2. \A i \in 0 .. n : f[i] = IF i = 0 THEN << >> ELSE IF s[i] = r THEN f[i - 1] ELSE Append(f[i - 1], s[i])
      BY <1>7, <2>1
    <2>3. QED
      BY <1>7, <2>2
  <1>10. R(h)
    <2> HIDE DEF R
    <2>1. QED
      BY <1>9
  <1> HIDE DEF h
  <1>11. f = h
    <2>1. h[0] = << >> /\ \A k \in 1 .. n : h[k] = IF s[k] = r THEN h[k - 1] ELSE Append(h[k - 1], s[k])
      <3> DEFINE e(i) == IF i = 0 THEN << >> ELSE IF s[i] = r THEN h[i - 1] ELSE Append(h[i - 1], s[i])
      <3>1. h = [i \in 0 .. n |-> e(i)]
        BY <1>10
      <3>2. 0 \in 0 .. n /\ \A k \in 1 .. n : k \in 0 .. n /\ k # 0
        BY <1>1
      <3> HIDE DEF e
      <3>3. h[0] = e(0) /\ \A k \in 1 .. n : h[k] = e(k)
        BY <3>1, <3>2
      <3>4. QED
        BY <3>2, <3>3 DEF e
    <2>2. f = [i \in 0 .. n |-> f[i]] /\ h = [i \in 0 .. n |-> h[i]]
      BY <1>7, <1>10
    <2>3. \A i \in 0 .. n - 1 : i + 1 \in 1 .. n /\ (i + 1) - 1 = i
      BY <1>1
    <2> HIDE DEF R
    <2>4. \A i \in 0 .. n - 1 : f[i] = h[i] => f[i + 1] = h[i + 1]
      BY <1>7, <2>1, <2>3
    <2>5. f[0] = h[0]
      BY <1>7, <2>1
    <2>6. QED
      BY <1>1, <2>2, <2>4, <2>5, OneOfThem
  <1> HIDE DEF R
  <1> DEFINE Seen(k) == {s[i] : i \in 1 .. k}
             Good(k) == /\ f[k] \in Seq(T) /\ Canvas!ToSet(f[k]) = Seen(k) \ {r}
                        /\ Once(s) => Once(f[k])
             S == {k \in 0 .. n : Good(k)}
  <1>12. 0 \in S
    BY <1>1, <1>7, NoneListed
  <1>13. ASSUME NEW k \in 0 .. n - 1, k \in S PROVE k + 1 \in S
    <2>1. k + 1 \in 1 .. n /\ (k + 1) - 1 = k /\ k + 1 \in 0 .. n /\ k \in Nat /\ s[k + 1] \in T
      BY <1>1
    <2>2. f[k + 1] = IF s[k + 1] = r THEN f[k] ELSE Append(f[k], s[k + 1])
      BY <1>7, <2>1
    <2>3. Seen(k + 1) = Seen(k) \cup {s[k + 1]}
      <3>1. \A i : i \in 1 .. k + 1 <=> i \in 1 .. k \/ i = k + 1
        BY <2>1
      <3>2. QED
        BY <3>1
    <2>4. ASSUME Once(s) PROVE s[k + 1] \notin Seen(k)
      <3>1. \A i, j \in 1 .. n : s[i] = s[j] => i = j
        BY <2>4, Listed DEF n
      <3>2. \A i \in 1 .. k : i \in 1 .. n /\ i # k + 1
        BY <1>1, <2>1
      <3>3. QED
        BY <2>1, <3>1, <3>2
    <2>5. Good(k)
      BY <1>13
    <2> HIDE DEF Seen
    <2>6. CASE s[k + 1] = r
      BY <2>1, <2>2, <2>3, <2>5, <2>6
    <2>7. CASE s[k + 1] # r
      <3>1. f[k + 1] = Append(f[k], s[k + 1]) /\ f[k] \in Seq(T)
        BY <2>2, <2>5, <2>7
      <3>2. /\ Append(f[k], s[k + 1]) \in Seq(T)
            /\ Canvas!ToSet(Append(f[k], s[k + 1])) = Canvas!ToSet(f[k]) \cup {s[k + 1]}
            /\ Once(f[k]) /\ s[k + 1] \notin Canvas!ToSet(f[k]) => Once(Append(f[k], s[k + 1]))
        BY <2>1, <3>1, Appended
      <3>3. QED
        BY <2>1, <2>3, <2>4, <2>5, <2>7, <3>1, <3>2
    <2>8. QED
      BY <2>6, <2>7
  <1>14. n \in S
    <2> HIDE DEF S
    <2>1. 0 .. n \subseteq S
      BY <1>1, <1>12, <1>13, CountingUp
    <2>2. QED
      BY <1>1, <2>1
  <1>15. Seen(n) = Canvas!ToSet(s)
    BY Listed DEF n
  <1>16. QED
    BY <1>8, <1>11, <1>14, <1>15

\* A list with one more in it.
LEMMA InsertedIs ==
    ASSUME NEW s \in Seq(CanvasRows), NEW x \in CanvasRows, NEW i \in Int
    PROVE  /\ Canvas!InsertAtIndex(s, x, i) \in Seq(CanvasRows)
           /\ Canvas!ToSet(Canvas!InsertAtIndex(s, x, i)) = Canvas!ToSet(s) \cup {x}
           /\ Once(s) /\ x \notin Canvas!ToSet(s) => Once(Canvas!InsertAtIndex(s, x, i))
  <1> DEFINE k == IF i < 0 THEN 0 ELSE IF i > Len(s) THEN Len(s) ELSE i
             t == Canvas!InsertAtIndex(s, x, i)
             n == Len(s)
  <1>1. n \in Nat /\ k \in 0 .. n /\ \A j \in 1 .. n : s[j] \in CanvasRows
    OBVIOUS
  <1>2. t = SubSeq(s, 1, (1 + k) - 1) \o << x >> \o SubSeq(s, 1 + k, n)
    BY DEF Canvas!InsertAtIndex, Canvas!InsertAt
  <1> HIDE DEF k, t
  <1>3. /\ t \in Seq(CanvasRows) /\ Len(t) = n + 1 /\ t[k + 1] = x
        /\ \A j \in 1 .. k : t[j] = s[j]
        /\ \A j \in k + 2 .. n + 1 : t[j] = s[j - 1]
    <2>1. (1 + k) - 1 = k /\ 1 + k \in 1 .. n + 1 /\ k \in Nat
      BY <1>1
    <2> DEFINE a == SubSeq(s, 1, k)
               c == SubSeq(s, 1 + k, n)
    <2>2. a \in Seq(CanvasRows) /\ Len(a) = k /\ \A j \in 1 .. k : a[j] = s[j]
      BY <1>1, <2>1
    <2>3. c \in Seq(CanvasRows) /\ Len(c) = n - k /\ \A j \in 1 .. n - k : c[j] = s[j + k]
      BY <1>1, <2>1
    <2>4. t = (a \o << x >>) \o c
      BY <1>2, <2>1
    <2> HIDE DEF a, c, n
    <2>5. << x >> \in Seq(CanvasRows) /\ Len(<< x >>) = 1 /\ << x >>[1] = x
      OBVIOUS
    <2>6. /\ a \o << x >> \in Seq(CanvasRows) /\ Len(a \o << x >>) = k + 1
          /\ \A j \in 1 .. k : (a \o << x >>)[j] = s[j] /\ (a \o << x >>)[k + 1] = x
      BY <2>1, <2>2, <2>5
    <2>7. (a \o << x >>)[k + 1] = x
      BY <2>1, <2>2, <2>5
    <2>8. t \in Seq(CanvasRows) /\ Len(t) = n + 1
      <3>1. t \in Seq(CanvasRows) /\ Len(t) = Len(a \o << x >>) + Len(c)
        <4> DEFINE b == a \o << x >>
        <4>1. b \in Seq(CanvasRows) /\ c \in Seq(CanvasRows) /\ t = b \o c
          BY <2>3, <2>4, <2>6
        <4> HIDE DEF b
        <4>2. t \in Seq(CanvasRows) /\ Len(t) = Len(b) + Len(c)
          BY <4>1
        <4>3. QED
          BY <4>2 DEF b
      <3>2. n \in Nat /\ (k + 1) + (n - k) = n + 1
        BY <1>1, <2>1
      <3>3. QED
        BY <2>3, <2>6, <3>1, <3>2
    <2>9. \A j \in 1 .. k + 1 : t[j] = (a \o << x >>)[j]
      BY <1>1, <2>1, <2>3, <2>4, <2>6
    <2>10. \A j \in k + 2 .. n + 1 : t[j] = c[j - (k + 1)] /\ j - (k + 1) \in 1 .. n - k /\ j - (k + 1) + k = j - 1
      BY <1>1, <2>1, <2>3, <2>4, <2>6
    <2>11. k + 1 \in 1 .. k + 1 /\ \A j \in 1 .. k : j \in 1 .. k + 1
      BY <2>1
    <2>12. t[k + 1] = x /\ \A j \in 1 .. k : t[j] = s[j]
      BY <2>6, <2>7, <2>9, <2>11
    <2>13. \A j \in k + 2 .. n + 1 : t[j] = s[j - 1]
      BY <2>3, <2>10
    <2>14. QED
      BY <2>8, <2>12, <2>13
  <1> HIDE DEF n
  <1>4. \A j \in 1 .. n + 1 : j \in 1 .. k \/ j = k + 1 \/ (j \in k + 2 .. n + 1 /\ j - 1 \in 1 .. n)
    BY <1>1
  <1>5. \A j \in 1 .. n : j \in 1 .. k \/ (j + 1 \in k + 2 .. n + 1 /\ (j + 1) - 1 = j)
    BY <1>1
  <1>6. \A y : y \in Canvas!ToSet(t) <=> y \in Canvas!ToSet(s) \cup {x}
    <2>1. ASSUME NEW y \in Canvas!ToSet(t) PROVE y \in Canvas!ToSet(s) \cup {x}
      <3>1. PICK j \in 1 .. n + 1 : t[j] = y
        BY <1>3, Listed
      <3>2. y = x \/ \E m \in 1 .. n : s[m] = y
        BY <1>1, <1>3, <1>4, <3>1
      <3>3. QED
        BY <3>2, Listed DEF n
    <2>2. ASSUME NEW y \in Canvas!ToSet(s) PROVE y \in Canvas!ToSet(t)
      <3>1. PICK j \in 1 .. n : s[j] = y
        BY Listed DEF n
      <3>2. \E m \in 1 .. n + 1 : t[m] = y
        <4>1. j \in 1 .. n + 1 /\ j + 1 \in Nat
          BY <1>1
        <4>2. CASE j \in 1 .. k
          BY <1>3, <3>1, <4>1, <4>2
        <4>3. CASE j + 1 \in k + 2 .. n + 1
          <5>1. t[j + 1] = y /\ j + 1 \in 1 .. n + 1
            BY <1>1, <1>3, <3>1, <4>1, <4>3
          <5>2. QED
            BY <5>1
        <4>4. QED
          BY <1>5, <4>2, <4>3
      <3>3. QED
        BY <1>3, <3>2, Listed
    <2>3. x \in Canvas!ToSet(t)
      <3>1. k + 1 \in 1 .. n + 1
        BY <1>1
      <3>2. QED
        BY <1>3, <3>1, Listed
    <2>4. QED
      BY <2>1, <2>2, <2>3
  <1>7. ASSUME Once(s), x \notin Canvas!ToSet(s) PROVE Once(t)
    <2>1. \A j \in 1 .. n : s[j] # x
      BY <1>7, Listed DEF n
    <2>2. \A j, m \in 1 .. n : s[j] = s[m] => j = m
      BY <1>7, Listed DEF n
    <2>3. \A j, m \in 1 .. n + 1 : t[j] = t[m] => j = m
      BY <1>1, <1>3, <1>4, <2>1, <2>2
    <2>4. QED
      BY <1>3, <2>3, Listed
  <1>8. QED
    BY <1>3, <1>6, <1>7 DEF t

-----------------------------------------------------------------------------
(* Graphs of pages and rows, and the places of rows in them *)

PageRecords == [rows : Seq(CanvasRows), footer : CanvasRows \cup {None}]
RowsDrawn   == [here : BOOLEAN, children : Seq(CanvasRows), sheet : CanvasRows \cup {None}, shows : SUBSET CanvasRows]
Graphs      == [pages : [CanvasPages -> PageRecords], rows : [CanvasRows -> RowsDrawn]]

InRows(p)     == <<"rows", p>>
InFooter(p)   == <<"footer", p>>
InChildren(c) == <<"children", c>>
InSheet(c)    == <<"sheet", c>>

Places == ({"rows", "footer"} \X CanvasPages) \cup ({"children", "sheet"} \X CanvasRows)

Held(g, a) ==
    IF a[1] = "rows" THEN Canvas!ToSet(g.pages[a[2]].rows)
    ELSE IF a[1] = "footer" THEN {g.pages[a[2]].footer} \ {None}
    ELSE IF a[1] = "children" THEN Canvas!ToSet(g.rows[a[2]].children)
    ELSE {g.rows[a[2]].sheet} \ {None}

Shaped(g) ==
    /\ g \in Graphs
    /\ \A p \in CanvasPages : Once(g.pages[p].rows)
    /\ \A c \in CanvasRows : Once(g.rows[c].children)

\* Each row that is referred to is there, and is so from one place.
Forest(g) ==
    /\ Shaped(g)
    /\ \A a, b \in Places : Held(g, a) \cap Held(g, b) # {} => a = b
    /\ \A a \in Places : Held(g, a) \subseteq Canvas!Here(g)

LEMMA CanvasConstants ==
    /\ None \notin CanvasPages /\ None \notin CanvasRows
    /\ StartRows \in [CanvasPages -> Seq(CanvasRows)] /\ StartPages \in Seq(CanvasPages)
    /\ \A p \in CanvasPages : Once(StartRows[p])
    /\ \A p, q \in CanvasPages : Canvas!ToSet(StartRows[p]) \cap Canvas!ToSet(StartRows[q]) # {} => p = q
    /\ \A p \in CanvasPages \ Canvas!ToSet(StartPages) : StartRows[p] = << >>
  BY CanvasAssumption DEF Canvas!GraphAssumption, Once

LEMMA HeldIs ==
    ASSUME NEW g
    PROVE  /\ \A p \in CanvasPages : Held(g, InRows(p)) = Canvas!ToSet(g.pages[p].rows)
           /\ \A p \in CanvasPages : Held(g, InFooter(p)) = {g.pages[p].footer} \ {None}
           /\ \A c \in CanvasRows : Held(g, InChildren(c)) = Canvas!ToSet(g.rows[c].children)
           /\ \A c \in CanvasRows : Held(g, InSheet(c)) = {g.rows[c].sheet} \ {None}
           /\ \A p : Canvas!PageRootIds(g, p) = Held(g, InRows(p)) \cup Held(g, InFooter(p))
           /\ \A c : Canvas!Links(g, c) = Held(g, InChildren(c)) \cup Held(g, InSheet(c))
  BY DEF Held, Canvas!PageRootIds, Canvas!Links, InRows, InFooter, InChildren, InSheet

LEMMA PlacesAre ==
    /\ \A p \in CanvasPages : InRows(p) \in Places /\ InFooter(p) \in Places
    /\ \A c \in CanvasRows : InChildren(c) \in Places /\ InSheet(c) \in Places
    /\ \A a \in Places : \/ \E p \in CanvasPages : a = InRows(p)
                         \/ \E p \in CanvasPages : a = InFooter(p)
                         \/ \E c \in CanvasRows : a = InChildren(c)
                         \/ \E c \in CanvasRows : a = InSheet(c)
  BY DEF Places, InRows, InFooter, InChildren, InSheet

LEMMA PlacesDiffer ==
    /\ \A p, q : InRows(p) = InRows(q) => p = q
    /\ \A p, q : InFooter(p) = InFooter(q) => p = q
    /\ \A p, q : InChildren(p) = InChildren(q) => p = q
    /\ \A p, q : InSheet(p) = InSheet(q) => p = q
    /\ \A p, q : InRows(p) # InFooter(q)
    /\ \A p, q : InRows(p) # InChildren(q)
    /\ \A p, q : InRows(p) # InSheet(q)
    /\ \A p, q : InFooter(p) # InChildren(q)
    /\ \A p, q : InFooter(p) # InSheet(q)
    /\ \A p, q : InChildren(p) # InSheet(q)
  BY DEF InRows, InFooter, InChildren, InSheet

LEMMA LinksAre ==
    /\ \A g, c, r : r \in Canvas!Links(g, c) <=> r \in Held(g, InChildren(c)) \/ r \in Held(g, InSheet(c))
    /\ \A g, p, r : r \in Canvas!PageRootIds(g, p) <=> r \in Held(g, InRows(p)) \/ r \in Held(g, InFooter(p))
  BY DEF Held, Canvas!PageRootIds, Canvas!Links, InRows, InFooter, InChildren, InSheet

\* What the places hold depends on the pages and rows they are of.
LEMMA HeldSame ==
    ASSUME NEW g, NEW h
    PROVE  /\ \A p \in CanvasPages : h.pages[p].rows = g.pages[p].rows => Held(h, InRows(p)) = Held(g, InRows(p))
           /\ \A p \in CanvasPages : h.pages[p].footer = g.pages[p].footer => Held(h, InFooter(p)) = Held(g, InFooter(p))
           /\ \A c \in CanvasRows : h.rows[c].children = g.rows[c].children => Held(h, InChildren(c)) = Held(g, InChildren(c))
           /\ \A c \in CanvasRows : h.rows[c].sheet = g.rows[c].sheet => Held(h, InSheet(c)) = Held(g, InSheet(c))
  BY DEF Held, InRows, InFooter, InChildren, InSheet

LEMMA HeldAreRows ==
    ASSUME NEW g \in Graphs, NEW a \in Places
    PROVE  Held(g, a) \subseteq CanvasRows
  <1>1. /\ \A p \in CanvasPages : g.pages[p].rows \in Seq(CanvasRows) /\ g.pages[p].footer \in CanvasRows \cup {None}
        /\ \A c \in CanvasRows : g.rows[c].children \in Seq(CanvasRows) /\ g.rows[c].sheet \in CanvasRows \cup {None}
    BY DEF Graphs, PageRecords, RowsDrawn
  <1>2. \A p \in CanvasPages : Canvas!ToSet(g.pages[p].rows) \subseteq CanvasRows
    BY <1>1, Listed
  <1>3. \A c \in CanvasRows : Canvas!ToSet(g.rows[c].children) \subseteq CanvasRows
    BY <1>1, Listed
  <1>4. QED
    BY <1>1, <1>2, <1>3, HeldIs, PlacesAre

LEMMA SubtreeIs ==
    ASSUME NEW g, NEW ids
    PROVE  /\ Canvas!Subtree(g, ids) \subseteq Canvas!Here(g)
           /\ ids \cap Canvas!Here(g) \subseteq Canvas!Subtree(g, ids)
           /\ \A c \in Canvas!Subtree(g, ids) :
                 Canvas!Links(g, c) \cap Canvas!Here(g) \subseteq Canvas!Subtree(g, ids)
           /\ \A S : /\ ids \cap Canvas!Here(g) \subseteq S
                     /\ \A c \in S \cap Canvas!Here(g) : Canvas!Links(g, c) \cap Canvas!Here(g) \subseteq S
                     => Canvas!Subtree(g, ids) \subseteq S
           /\ \A r \in Canvas!Subtree(g, ids) :
                 r \in ids \/ \E c \in Canvas!Subtree(g, ids) : r \in Canvas!Links(g, c)
  <1> DEFINE T == Canvas!Subtree(g, ids)
             H == Canvas!Here(g)
  <1>1. \A r : r \in T <=> /\ r \in H
                           /\ \A S \in SUBSET H : ids \cap H \subseteq S
                                /\ (\A c \in S : Canvas!Links(g, c) \cap H \subseteq S) => r \in S
    BY DEF Canvas!Subtree, Canvas!IsClosed
  <1> HIDE DEF T, H
  <1>2. T \subseteq H /\ ids \cap H \subseteq T
    BY <1>1
  <1>3. \A c \in T : Canvas!Links(g, c) \cap H \subseteq T
    <2> SUFFICES ASSUME NEW c \in T, NEW r \in Canvas!Links(g, c) \cap H,
                        NEW S \in SUBSET H, ids \cap H \subseteq S,
                        \A k \in S : Canvas!Links(g, k) \cap H \subseteq S
                 PROVE  r \in S
      BY <1>1
    <2>1. c \in S
      BY <1>1
    <2>2. QED
      BY <2>1
  <1>4. ASSUME NEW S, ids \cap H \subseteq S, \A c \in S \cap H : Canvas!Links(g, c) \cap H \subseteq S
        PROVE  T \subseteq S
    <2>1. /\ S \cap H \in SUBSET H /\ ids \cap H \subseteq S \cap H
          /\ \A c \in S \cap H : Canvas!Links(g, c) \cap H \subseteq S \cap H
      BY <1>4
    <2>2. QED
      BY <1>1, <2>1
  <1>5. ASSUME NEW r \in T, r \notin ids, \A c \in T : r \notin Canvas!Links(g, c)
        PROVE  FALSE
    <2>1. /\ ids \cap H \subseteq T \ {r}
          /\ \A c \in (T \ {r}) \cap H : Canvas!Links(g, c) \cap H \subseteq T \ {r}
      BY <1>2, <1>3, <1>5
    <2>2. T \subseteq T \ {r}
      BY <1>4, <2>1
    <2>3. QED
      BY <2>2
  <1>6. QED
    BY <1>2, <1>3, <1>4, <1>5 DEF T, H

\* In a forest all that is referred to is there.
LEMMA ForestLinks ==
    ASSUME NEW g, Forest(g)
    PROVE  /\ \A c \in CanvasRows : Canvas!Links(g, c) \subseteq Canvas!Here(g)
           /\ \A p \in CanvasPages : Canvas!PageRootIds(g, p) \subseteq Canvas!Here(g)
           /\ Canvas!Here(g) \subseteq CanvasRows
  <1>1. Canvas!Here(g) \subseteq CanvasRows
    BY DEF Canvas!Here
  <1>2. \A a \in Places : Held(g, a) \subseteq Canvas!Here(g)
    BY DEF Forest
  <1>3. ASSUME NEW c \in CanvasRows PROVE Canvas!Links(g, c) \subseteq Canvas!Here(g)
    <2>1. Held(g, InChildren(c)) \subseteq Canvas!Here(g) /\ Held(g, InSheet(c)) \subseteq Canvas!Here(g)
      BY <1>2, PlacesAre
    <2>2. Canvas!Links(g, c) = Held(g, InChildren(c)) \cup Held(g, InSheet(c))
      BY HeldIs
    <2>3. QED
      BY <2>1, <2>2
  <1>4. ASSUME NEW p \in CanvasPages PROVE Canvas!PageRootIds(g, p) \subseteq Canvas!Here(g)
    <2>1. Held(g, InRows(p)) \subseteq Canvas!Here(g) /\ Held(g, InFooter(p)) \subseteq Canvas!Here(g)
      BY <1>2, PlacesAre
    <2>2. Canvas!PageRootIds(g, p) = Held(g, InRows(p)) \cup Held(g, InFooter(p))
      BY HeldIs
    <2>3. QED
      BY <2>1, <2>2
  <1>5. QED
    BY <1>1, <1>3, <1>4

\* What is reached from a page is held where it is reached from.
LEMMA HeldWhereReached ==
    ASSUME NEW g, NEW p \in CanvasPages, NEW r \in Canvas!PageRows(g, p)
    PROVE  r \in CanvasRows /\ g.rows[r].here /\ \E a \in Places :
               /\ r \in Held(g, a)
               /\ \/ a = InRows(p) \/ a = InFooter(p)
                  \/ \E c \in Canvas!PageRows(g, p) : a = InChildren(c) \/ a = InSheet(c)
  <1>1. /\ r \in Canvas!PageRootIds(g, p) \/ \E c \in Canvas!PageRows(g, p) : r \in Canvas!Links(g, c)
        /\ Canvas!PageRows(g, p) \subseteq Canvas!Here(g)
    BY SubtreeIs DEF Canvas!PageRows
  <1>2. Canvas!PageRows(g, p) \subseteq CanvasRows /\ r \in CanvasRows /\ g.rows[r].here
    BY <1>1 DEF Canvas!Here
  <1>3. CASE r \in Canvas!PageRootIds(g, p)
    BY <1>2, <1>3, HeldIs, PlacesAre
  <1>4. ASSUME NEW c \in Canvas!PageRows(g, p), r \in Canvas!Links(g, c)
        PROVE  \/ r \in Held(g, InChildren(c)) /\ InChildren(c) \in Places
               \/ r \in Held(g, InSheet(c)) /\ InSheet(c) \in Places
    BY <1>2, <1>4, HeldIs, PlacesAre
  <1>5. QED
    BY <1>1, <1>2, <1>3, <1>4

-----------------------------------------------------------------------------
(* The mutations of the graph *)

\* One place is written: the others hold what they did.
LEMMA OfAPage ==
    ASSUME NEW g, Shaped(g), NEW h \in Graphs, NEW p \in CanvasPages, h.rows = g.rows,
           \A q \in CanvasPages : q # p => h.pages[q] = g.pages[q]
    PROVE  /\ h.pages[p].footer = g.pages[p].footer =>
                 \A a \in Places : a # InRows(p) => Held(h, a) = Held(g, a)
           /\ h.pages[p].rows = g.pages[p].rows =>
                 \A a \in Places : a # InFooter(p) => Held(h, a) = Held(g, a)
           /\ Once(h.pages[p].rows) => Shaped(h)
  <1>1. \A q \in CanvasPages : q # p => /\ Held(h, InRows(q)) = Held(g, InRows(q))
                                      /\ Held(h, InFooter(q)) = Held(g, InFooter(q))
    BY HeldSame
  <1>2. \A c \in CanvasRows : /\ Held(h, InChildren(c)) = Held(g, InChildren(c))
                             /\ Held(h, InSheet(c)) = Held(g, InSheet(c))
    BY HeldSame
  <1>3. h.pages[p].footer = g.pages[p].footer => Held(h, InFooter(p)) = Held(g, InFooter(p))
    BY HeldSame
  <1>4. h.pages[p].rows = g.pages[p].rows => Held(h, InRows(p)) = Held(g, InRows(p))
    BY HeldSame
  <1>5. Once(h.pages[p].rows) => Shaped(h)
    BY DEF Shaped
  <1>6. QED
    BY <1>1, <1>2, <1>3, <1>4, <1>5, PlacesAre

LEMMA PageRowsPut ==
    ASSUME NEW g, Shaped(g), NEW p \in CanvasPages, NEW s \in Seq(CanvasRows), Once(s),
           NEW h, h = [g EXCEPT !.pages[p].rows = s]
    PROVE  /\ Shaped(h) /\ h.rows = g.rows /\ Held(h, InRows(p)) = Canvas!ToSet(s)
           /\ \A a \in Places : a # InRows(p) => Held(h, a) = Held(g, a)
           /\ \A q \in CanvasPages : q # p => h.pages[q] = g.pages[q]
  <1>1. /\ g \in Graphs /\ g.pages[p] \in PageRecords
    BY DEF Shaped, Graphs
  <1>2. /\ h.rows = g.rows /\ h.pages[p] = [g.pages[p] EXCEPT !.rows = s]
        /\ \A q \in CanvasPages : q # p => h.pages[q] = g.pages[q]
        /\ h = [pages |-> [g.pages EXCEPT ![p] = [g.pages[p] EXCEPT !.rows = s]], rows |-> g.rows]
    BY <1>1 DEF Graphs
  <1>3. [g.pages[p] EXCEPT !.rows = s] = [rows |-> s, footer |-> g.pages[p].footer]
    BY <1>1 DEF PageRecords
  <1>4. h.pages[p].rows = s /\ h.pages[p].footer = g.pages[p].footer
    BY <1>2, <1>3
  <1>5. h \in Graphs
    <2>1. [rows |-> s, footer |-> g.pages[p].footer] \in PageRecords
      BY <1>1 DEF PageRecords
    <2>2. QED
      BY <1>1, <1>2, <1>3, <2>1 DEF Graphs
  <1>6. h.rows = g.rows /\ \A q \in CanvasPages : q # p => h.pages[q] = g.pages[q]
    BY <1>2
  <1>7. Shaped(h) /\ \A a \in Places : a # InRows(p) => Held(h, a) = Held(g, a)
    BY <1>4, <1>5, <1>6, OfAPage, Zenon
  <1>8. Held(h, InRows(p)) = Canvas!ToSet(h.pages[p].rows)
    BY HeldIs, Zenon
  <1>9. QED
    BY <1>4, <1>6, <1>7, <1>8, Zenon

LEMMA FooterPut ==
    ASSUME NEW g, Shaped(g), NEW p \in CanvasPages, NEW r \in CanvasRows \cup {None},
           NEW h, h = [g EXCEPT !.pages[p].footer = r]
    PROVE  /\ Shaped(h) /\ h.rows = g.rows /\ Held(h, InFooter(p)) = {r} \ {None}
           /\ \A a \in Places : a # InFooter(p) => Held(h, a) = Held(g, a)
           /\ \A q \in CanvasPages : q # p => h.pages[q] = g.pages[q]
  <1>1. /\ g \in Graphs /\ g.pages[p] \in PageRecords /\ Once(g.pages[p].rows)
    BY DEF Shaped, Graphs
  <1>2. /\ h.rows = g.rows /\ h.pages[p] = [g.pages[p] EXCEPT !.footer = r]
        /\ \A q \in CanvasPages : q # p => h.pages[q] = g.pages[q]
        /\ h = [pages |-> [g.pages EXCEPT ![p] = [g.pages[p] EXCEPT !.footer = r]], rows |-> g.rows]
    BY <1>1 DEF Graphs
  <1>3. [g.pages[p] EXCEPT !.footer = r] = [rows |-> g.pages[p].rows, footer |-> r]
    BY <1>1 DEF PageRecords
  <1>4. h.pages[p].rows = g.pages[p].rows /\ h.pages[p].footer = r
    BY <1>2, <1>3
  <1>5. h \in Graphs
    <2>1. [rows |-> g.pages[p].rows, footer |-> r] \in PageRecords
      BY <1>1 DEF PageRecords
    <2>2. QED
      BY <1>1, <1>2, <1>3, <2>1 DEF Graphs
  <1>6. h.rows = g.rows /\ (\A q \in CanvasPages : q # p => h.pages[q] = g.pages[q]) /\ Once(h.pages[p].rows)
    BY <1>1, <1>2, <1>4
  <1>7. Shaped(h) /\ \A a \in Places : a # InFooter(p) => Held(h, a) = Held(g, a)
    BY <1>4, <1>5, <1>6, OfAPage, Zenon
  <1>8. Held(h, InFooter(p)) = {h.pages[p].footer} \ {None}
    BY HeldIs, Zenon
  <1>9. QED
    BY <1>4, <1>6, <1>7, <1>8, Zenon

\* A row gets other children, or another sheet; or is there, or shows others.
LEMMA OfARow ==
    ASSUME NEW g, Shaped(g), NEW h \in Graphs, NEW c \in CanvasRows, h.pages = g.pages,
           \A x \in CanvasRows : x # c => h.rows[x] = g.rows[x]
    PROVE  /\ \A a \in Places : a # InChildren(c) /\ a # InSheet(c) => Held(h, a) = Held(g, a)
           /\ h.rows[c].children = g.rows[c].children => Held(h, InChildren(c)) = Held(g, InChildren(c))
           /\ h.rows[c].sheet = g.rows[c].sheet => Held(h, InSheet(c)) = Held(g, InSheet(c))
           /\ Once(h.rows[c].children) => Shaped(h)
           /\ Held(h, InChildren(c)) = Canvas!ToSet(h.rows[c].children)
           /\ Held(h, InSheet(c)) = {h.rows[c].sheet} \ {None}
  <1>1. \A q \in CanvasPages : /\ Held(h, InRows(q)) = Held(g, InRows(q))
                              /\ Held(h, InFooter(q)) = Held(g, InFooter(q))
    BY HeldSame
  <1>2. \A x \in CanvasRows : x # c => /\ Held(h, InChildren(x)) = Held(g, InChildren(x))
                                     /\ Held(h, InSheet(x)) = Held(g, InSheet(x))
    BY HeldSame
  <1>3. /\ h.rows[c].children = g.rows[c].children => Held(h, InChildren(c)) = Held(g, InChildren(c))
        /\ h.rows[c].sheet = g.rows[c].sheet => Held(h, InSheet(c)) = Held(g, InSheet(c))
    BY HeldSame
  <1>4. Once(h.rows[c].children) => Shaped(h)
    BY DEF Shaped
  <1>5. Held(h, InChildren(c)) = Canvas!ToSet(h.rows[c].children)
    BY HeldIs
  <1>6. Held(h, InSheet(c)) = {h.rows[c].sheet} \ {None}
    BY HeldIs
  <1>7. QED
    BY <1>1, <1>2, <1>3, <1>4, <1>5, <1>6, PlacesAre

LEMMA RowPut ==
    ASSUME NEW g \in Graphs, NEW c \in CanvasRows, NEW new \in RowsDrawn, NEW h, h = [g EXCEPT !.rows[c] = new]
    PROVE  /\ h \in Graphs /\ h.pages = g.pages /\ h.rows[c] = new
           /\ \A x \in CanvasRows : x # c => h.rows[x] = g.rows[x]
  BY DEF Graphs

\* Where a row is taken from, only it is.
LEMMA RemoveIs ==
    ASSUME NEW g, Forest(g), NEW p \in CanvasPages, NEW r \in Canvas!PageRows(g, p),
           NEW h, h = Canvas!RemoveFromLocation(g, p, r)
    PROVE  /\ Shaped(h) /\ \A a \in Places : Held(h, a) = Held(g, a) \ {r}
           /\ Canvas!Here(h) = Canvas!Here(g)
           /\ \A q \in CanvasPages : q # p => h.pages[q] = g.pages[q]
  <1>1. /\ Shaped(g) /\ g \in Graphs /\ r \in CanvasRows /\ r # None /\ Canvas!PageRows(g, p) \subseteq CanvasRows
        /\ g.pages[p].rows \in Seq(CanvasRows) /\ Once(g.pages[p].rows)
        /\ Canvas!Here(g) = {c \in CanvasRows : g.rows[c].here}
    <2>1. Canvas!PageRows(g, p) \subseteq CanvasRows
      BY HeldWhereReached
    <2>2. QED
      BY <2>1, CanvasConstants DEF Forest, Shaped, Graphs, PageRecords, Canvas!Here
  <1>2. PICK place \in Places : /\ r \in Held(g, place)
                                /\ \/ place = InRows(p) \/ place = InFooter(p)
                                   \/ \E c \in Canvas!PageRows(g, p) : place = InChildren(c) \/ place = InSheet(c)
    BY HeldWhereReached
  <1>3. \A a \in Places : r \in Held(g, a) => a = place
    BY <1>2 DEF Forest
  <1>4. \A a \in Places : a # place => Held(g, a) = Held(g, a) \ {r}
    BY <1>3
  <1>5. /\ Canvas!Contains(g.pages[p].rows, r) <=> r \in Held(g, InRows(p))
        /\ g.pages[p].footer = r <=> r \in Held(g, InFooter(p))
    BY <1>1, HeldIs, Listed
  <1>6. CASE place = InRows(p)
    <2>1. h = [g EXCEPT !.pages[p].rows = Canvas!Without(g.pages[p].rows, r)]
      BY <1>1, <1>2, <1>5, <1>6 DEF Canvas!RemoveFromLocation
    <2>2. /\ Canvas!Without(g.pages[p].rows, r) \in Seq(CanvasRows) /\ Once(Canvas!Without(g.pages[p].rows, r))
          /\ Canvas!ToSet(Canvas!Without(g.pages[p].rows, r)) = Held(g, InRows(p)) \ {r}
      BY <1>1, WithoutIs, HeldIs
    <2>3. /\ Shaped(h) /\ h.rows = g.rows /\ Held(h, InRows(p)) = Held(g, InRows(p)) \ {r}
          /\ \A a \in Places : a # InRows(p) => Held(h, a) = Held(g, a)
          /\ \A q \in CanvasPages : q # p => h.pages[q] = g.pages[q]
      BY <1>1, <2>1, <2>2, PageRowsPut
    <2>4. QED
      BY <1>1, <1>4, <1>6, <2>3 DEF Canvas!Here
  <1>7. CASE place = InFooter(p)
    <2>1. h = [g EXCEPT !.pages[p].footer = None]
      BY <1>1, <1>2, <1>3, <1>5, <1>7, PlacesDiffer, PlacesAre DEF Canvas!RemoveFromLocation
    <2>2. /\ Shaped(h) /\ h.rows = g.rows /\ Held(h, InFooter(p)) = {None} \ {None}
          /\ \A a \in Places : a # InFooter(p) => Held(h, a) = Held(g, a)
          /\ \A q \in CanvasPages : q # p => h.pages[q] = g.pages[q]
      BY <1>1, <2>1, FooterPut
    <2>3. Held(g, InFooter(p)) \ {r} = {}
      <3>1. Held(g, InFooter(p)) = {g.pages[p].footer} \ {None}
        BY HeldIs
      <3>2. g.pages[p].footer = r
        BY <1>2, <1>5, <1>7
      <3>3. QED
        BY <3>1, <3>2
    <2>4. QED
      BY <1>1, <1>4, <1>7, <2>2, <2>3 DEF Canvas!Here
  <1>8. ASSUME NEW c \in Canvas!PageRows(g, p), place = InChildren(c) \/ place = InSheet(c)
        PROVE  h = IF place = InSheet(c) THEN [g EXCEPT !.rows[c].sheet = None]
                   ELSE [g EXCEPT !.rows[c].children = Canvas!Without(g.rows[c].children, r)]
    <2>1. c \in CanvasRows /\ r \notin Held(g, InRows(p)) /\ r \notin Held(g, InFooter(p))
      BY <1>1, <1>3, <1>8, PlacesDiffer, PlacesAre
    <2>2. \A k \in CanvasRows : r \in Canvas!Links(g, k) <=> k = c
      <3>1. ASSUME NEW k \in CanvasRows, r \in Canvas!Links(g, k) PROVE k = c
        <4>1. r \in Held(g, InChildren(k)) \/ r \in Held(g, InSheet(k))
          BY <3>1, LinksAre
        <4>2. InChildren(k) = place \/ InSheet(k) = place
          BY <1>3, <4>1, PlacesAre
        <4>3. QED
          BY <1>8, <4>2, PlacesDiffer
      <3>2. r \in Canvas!Links(g, c)
        BY <1>2, <1>8, LinksAre
      <3>3. QED
        BY <3>1, <3>2
    <2>3. Canvas!Containers(g, p, r) = {c}
      BY <1>1, <2>2 DEF Canvas!Containers
    <2>4. Canvas!ContainerType(g, c, r) = "sheet" <=> place = InSheet(c)
      <3>1. g.rows[c].sheet = r <=> r \in Held(g, InSheet(c))
        BY <1>1, <2>1, HeldIs
      <3>2. r \in Held(g, InSheet(c)) <=> place = InSheet(c)
        BY <1>2, <1>3, <2>1, PlacesAre
      <3>3. QED
        BY <3>1, <3>2 DEF Canvas!ContainerType
    <2>5. (CHOOSE k \in Canvas!Containers(g, p, r) : TRUE) = c /\ Canvas!Containers(g, p, r) # {}
      BY <2>3
    <2>6. QED
      BY <1>5, <2>1, <2>4, <2>5 DEF Canvas!RemoveFromLocation
  <1>9. ASSUME NEW c \in Canvas!PageRows(g, p), place = InChildren(c) \/ place = InSheet(c)
        PROVE  /\ Shaped(h) /\ \A a \in Places : Held(h, a) = Held(g, a) \ {r}
               /\ Canvas!Here(h) = Canvas!Here(g)
               /\ h.pages = g.pages
    <2> DEFINE old  == g.rows[c]
               rest == IF place = InSheet(c) THEN old.children ELSE Canvas!Without(old.children, r)
               left == IF place = InSheet(c) THEN None ELSE old.sheet
               new  == [here |-> old.here, children |-> rest, sheet |-> left, shows |-> old.shows]
    <2>1. c \in CanvasRows /\ old \in RowsDrawn /\ Once(old.children)
      BY <1>1 DEF Shaped, Graphs
    <2>2. old = [here |-> old.here, children |-> old.children, sheet |-> old.sheet, shows |-> old.shows]
      BY <2>1 DEF RowsDrawn
    <2>3. h = [g EXCEPT !.rows[c] = new]
      <3>1. CASE place = InSheet(c)
        <4>1. [old EXCEPT !.sheet = None] = new
          BY <2>2, <3>1
        <4>2. h = [g EXCEPT !.rows[c] = [old EXCEPT !.sheet = None]]
          BY <1>8, <3>1
        <4>3. QED
          BY <4>1, <4>2
      <3>2. CASE place # InSheet(c)
        <4>1. [old EXCEPT !.children = Canvas!Without(old.children, r)] = new
          BY <2>2, <3>2
        <4>2. h = [g EXCEPT !.rows[c] = [old EXCEPT !.children = Canvas!Without(old.children, r)]]
          BY <1>8, <1>9, <3>2
        <4>3. QED
          BY <4>1, <4>2
      <3>3. QED
        BY <3>1, <3>2
    <2>4. /\ rest \in Seq(CanvasRows) /\ Once(rest) /\ left \in CanvasRows \cup {None}
          /\ Canvas!ToSet(rest) = IF place = InSheet(c) THEN Canvas!ToSet(old.children)
                                   ELSE Canvas!ToSet(old.children) \ {r}
      BY <2>1, WithoutIs DEF RowsDrawn
    <2>5. new \in RowsDrawn
      BY <2>1, <2>4 DEF RowsDrawn
    <2> HIDE DEF rest, left
    <2>6. new.children = rest /\ new.sheet = left /\ new.here = old.here
      OBVIOUS
    <2> HIDE DEF new
    <2>7. /\ h \in Graphs /\ h.pages = g.pages /\ h.rows[c] = new
          /\ \A x \in CanvasRows : x # c => h.rows[x] = g.rows[x]
      BY <1>1, <2>1, <2>3, <2>5, RowPut
    <2>8. /\ \A a \in Places : a # InChildren(c) /\ a # InSheet(c) => Held(h, a) = Held(g, a)
          /\ Shaped(h) /\ Held(h, InChildren(c)) = Canvas!ToSet(rest) /\ Held(h, InSheet(c)) = {left} \ {None}
      BY <1>1, <2>1, <2>4, <2>6, <2>7, OfARow
    <2>9. Held(g, InChildren(c)) = Canvas!ToSet(old.children) /\ Held(g, InSheet(c)) = {old.sheet} \ {None}
      BY <2>1, HeldIs
    <2>10. Held(h, InChildren(c)) = Held(g, InChildren(c)) \ {r} /\ Held(h, InSheet(c)) = Held(g, InSheet(c)) \ {r}
      <3>1. InChildren(c) # InSheet(c) /\ InChildren(c) \in Places /\ InSheet(c) \in Places
        BY <2>1, PlacesDiffer, PlacesAre
      <3>2. CASE place = InSheet(c)
        <4>1. r \notin Held(g, InChildren(c)) /\ r \in Held(g, InSheet(c))
          BY <1>2, <1>3, <3>1, <3>2
        <4>2. QED
          BY <2>4, <2>8, <2>9, <3>2, <4>1 DEF left
      <3>3. CASE place # InSheet(c)
        <4>1. r \notin Held(g, InSheet(c))
          BY <1>3, <3>1, <3>3
        <4>2. QED
          BY <2>4, <2>8, <2>9, <3>3, <4>1 DEF left
      <3>4. QED
        BY <3>2, <3>3
    <2>11. Canvas!Here(h) = Canvas!Here(g)
      BY <2>6, <2>7 DEF Canvas!Here
    <2>12. QED
      BY <1>4, <1>9, <2>7, <2>8, <2>10, <2>11
  <1>10. QED
    BY <1>2, <1>6, <1>7, <1>9

\* The place a destination names.
At(d) ==
    IF d.type = "page" THEN InRows(d.page)
    ELSE IF d.type = "sheet" THEN InSheet(d.container) ELSE InChildren(d.container)

\* A destination on page p of g.
Aimed(g, p, d) ==
    /\ d.page = p /\ d.index \in Int /\ d.type \in {"page", "sheet", "children"}
    /\ d.type = "page" => d.container = None
    /\ d.type # "page" => d.container \in Canvas!PageRows(g, p)

LEMMA DestinationIs ==
    ASSUME Shaped(Canvas!Graph), NEW p \in CanvasPages, NEW d \in Canvas!Destinations(p)
    PROVE  Aimed(Canvas!Graph, p, d)
  <1> DEFINE g == Canvas!Graph
  <1>1. g.pages = pages /\ g.rows = rows
    BY DEF Canvas!Graph
  <1>2. pages[p].rows \in Seq(CanvasRows) /\ \A c \in CanvasRows : rows[c].children \in Seq(CanvasRows)
    BY <1>1 DEF Shaped, Graphs, PageRecords, RowsDrawn
  <1>3. Canvas!PageRows(g, p) \subseteq CanvasRows
    BY HeldWhereReached
  <1>4. \A s \in Seq(CanvasRows) : \A t : Canvas!Contains(s, t) => Canvas!Index(s, t) \in Int
    <2> SUFFICES ASSUME NEW s \in Seq(CanvasRows), NEW t, Canvas!Contains(s, t)
                 PROVE  Canvas!Index(s, t) \in Int
      OBVIOUS
    <2>1. \E i \in DOMAIN s : s[i] = t
      BY DEF Canvas!Contains
    <2>2. (CHOOSE i \in DOMAIN s : s[i] = t) \in DOMAIN s
      BY <2>1
    <2>3. DOMAIN s \subseteq Int
      OBVIOUS
    <2>4. QED
      BY <2>2, <2>3 DEF Canvas!Index
  <1>5. CASE d \in Canvas!AtPage(p)
    <2>1. Len(pages[p].rows) \in Int
      BY <1>2
    <2>2. QED
      BY <1>5, <2>1 DEF Canvas!AtPage, Canvas!OnPage, Canvas!Destination, Aimed
  <1>6. ASSUME NEW t \in Canvas!PageRows(g, p), NEW e \in Canvas!Edge, d = Canvas!AtRow(p, t, e)
        PROVE  Aimed(g, p, d)
    <2> DEFINE shift == IF e = "before" THEN -1 ELSE 1
               c     == CHOOSE c \in Canvas!Containers(g, p, t) : TRUE
    <2>1. shift \in Int
      OBVIOUS
    <2> HIDE DEF shift
    <2>2. CASE Canvas!Containers(g, p, t) = {}
      <3> DEFINE i == shift + (IF Canvas!Contains(pages[p].rows, t) THEN Canvas!Index(pages[p].rows, t)
                               ELSE Len(pages[p].rows))
      <3>1. i \in Int
        BY <1>2, <1>4, <2>1
      <3>2. d = Canvas!OnPage(p, i)
        BY <1>6, <2>2 DEF Canvas!AtRow, shift
      <3> HIDE DEF i
      <3>3. QED
        BY <3>1, <3>2 DEF Canvas!OnPage, Canvas!Destination, Aimed
    <2>3. CASE Canvas!Containers(g, p, t) # {}
      <3>1. c \in Canvas!Containers(g, p, t)
        BY <2>3
      <3> HIDE DEF c
      <3>2. c \in Canvas!PageRows(g, p) /\ t \in Canvas!Links(g, c) /\ c \in CanvasRows
        BY <1>3, <3>1 DEF Canvas!Containers
      <3>3. CASE Canvas!ContainerType(g, c, t) = "sheet"
        <4>1. d = Canvas!Destination(p, shift, c, "sheet")
          BY <1>6, <2>3, <3>3 DEF Canvas!AtRow, shift, c
        <4>2. QED
          BY <2>1, <3>2, <4>1 DEF Canvas!Destination, Aimed
      <3>4. CASE Canvas!ContainerType(g, c, t) # "sheet"
        <4> DEFINE i == shift + Canvas!Index(rows[c].children, t)
        <4>1. d = Canvas!Destination(p, i, c, "children")
          BY <1>6, <2>3, <3>4 DEF Canvas!AtRow, shift, c
        <4>2. g.rows[c].sheet # t
          BY <3>4 DEF Canvas!ContainerType
        <4>3. t \in Canvas!ToSet(rows[c].children)
          BY <1>1, <3>2, <4>2 DEF Canvas!Links
        <4>4. Canvas!Index(rows[c].children, t) \in Int
          BY <1>2, <1>4, <3>2, <4>3, Listed
        <4>5. i \in Int
          BY <2>1, <4>4
        <4> HIDE DEF i
        <4>6. QED
          BY <3>2, <4>1, <4>5 DEF Canvas!Destination, Aimed
      <3>5. QED
        BY <3>3, <3>4
    <2>4. QED
      BY <2>2, <2>3
  <1>7. ASSUME NEW c \in Canvas!PageRows(g, p), d = Canvas!InEmptyContainer(p, c) \/ d = Canvas!InSheet(p, c)
        PROVE  Aimed(g, p, d)
    BY <1>7 DEF Canvas!InEmptyContainer, Canvas!InSheet, Canvas!Destination, Aimed
  <1>8. QED
    BY <1>5, <1>6, <1>7 DEF Canvas!Destinations

\* A row that is nowhere is put where the destination says; in a sheet it
\* replaces the one there.
LEMMA InsertIs ==
    ASSUME NEW g, Shaped(g), NEW r \in CanvasRows, \A a \in Places : r \notin Held(g, a),
           NEW d, d.page \in CanvasPages, d.index \in Int, d.type \in {"page", "sheet", "children"},
           d.type # "page" => d.container \in CanvasRows /\ g.rows[d.container].here,
           NEW h, h = Canvas!InsertIntoLocation(g, r, d)
    PROVE  /\ Shaped(h) /\ At(d) \in Places
           /\ Held(h, At(d)) = IF d.type = "sheet" THEN {r} ELSE Held(g, At(d)) \cup {r}
           /\ \A a \in Places : a # At(d) => Held(h, a) = Held(g, a)
           /\ Canvas!Here(h) = Canvas!Here(g)
           /\ \A q \in CanvasPages : q # d.page => h.pages[q] = g.pages[q]
  <1> DEFINE p == d.page
             c == d.container
  <1>1. /\ g \in Graphs /\ g.pages[p].rows \in Seq(CanvasRows) /\ Once(g.pages[p].rows) /\ r # None
        /\ d.type # "page" => /\ g.rows[c] \in RowsDrawn /\ Once(g.rows[c].children)
                              /\ g.rows[c].here
    BY CanvasConstants DEF Shaped, Graphs, PageRecords
  <1>2. CASE d.type = "page"
    <2> DEFINE s == Canvas!InsertAtIndex(g.pages[p].rows, r, d.index)
    <2>1. h = [g EXCEPT !.pages[p].rows = s]
      BY <1>2 DEF Canvas!InsertIntoLocation
    <2>2. At(d) = InRows(p) /\ InRows(p) \in Places
      BY <1>2, PlacesAre DEF At
    <2>3. Held(g, InRows(p)) = Canvas!ToSet(g.pages[p].rows)
      BY HeldIs
    <2>4. s \in Seq(CanvasRows) /\ Once(s) /\ Canvas!ToSet(s) = Held(g, InRows(p)) \cup {r}
      <3> DEFINE t == g.pages[p].rows
      <3>1. t \in Seq(CanvasRows) /\ Once(t) /\ r \notin Canvas!ToSet(t) /\ d.index \in Int
        BY <1>1, <2>2, <2>3
      <3> HIDE DEF t, s
      <3>2. /\ Canvas!InsertAtIndex(t, r, d.index) \in Seq(CanvasRows)
            /\ Canvas!ToSet(Canvas!InsertAtIndex(t, r, d.index)) = Canvas!ToSet(t) \cup {r}
            /\ Once(Canvas!InsertAtIndex(t, r, d.index))
        BY <3>1, InsertedIs
      <3>3. QED
        BY <2>3, <3>2 DEF t, s
    <2> HIDE DEF s
    <2>5. /\ Shaped(h) /\ h.rows = g.rows /\ Held(h, InRows(p)) = Canvas!ToSet(s)
          /\ \A a \in Places : a # InRows(p) => Held(h, a) = Held(g, a)
          /\ \A q \in CanvasPages : q # p => h.pages[q] = g.pages[q]
      BY <2>1, <2>4, PageRowsPut
    <2>6. Canvas!Here(h) = Canvas!Here(g)
      BY <2>5 DEF Canvas!Here
    <2>7. QED
      BY <1>2, <2>2, <2>4, <2>5, <2>6
  <1>3. CASE d.type # "page"
    <2> DEFINE old   == g.rows[c]
               kids  == IF d.type = "sheet" THEN old.children ELSE Canvas!InsertAtIndex(old.children, r, d.index)
               sheet == IF d.type = "sheet" THEN r ELSE old.sheet
               new   == [here |-> old.here, children |-> kids, sheet |-> sheet, shows |-> old.shows]
    <2>1. c \in CanvasRows /\ old \in RowsDrawn /\ Once(old.children) /\ old.children \in Seq(CanvasRows) /\ old.here
      BY <1>1, <1>3 DEF RowsDrawn
    <2>2. old = [here |-> old.here, children |-> old.children, sheet |-> old.sheet, shows |-> old.shows]
      BY <2>1 DEF RowsDrawn
    <2>3. h = [g EXCEPT !.rows[c] = new]
      <3>1. CASE d.type = "sheet"
        <4>1. [old EXCEPT !.sheet = r] = new
          BY <2>2, <3>1
        <4>2. h = [g EXCEPT !.rows[c] = [old EXCEPT !.sheet = r]]
          BY <2>1, <3>1 DEF Canvas!InsertIntoLocation
        <4>3. QED
          BY <4>1, <4>2
      <3>2. CASE d.type = "children"
        <4>1. [old EXCEPT !.children = Canvas!InsertAtIndex(old.children, r, d.index)] = new
          BY <2>2, <3>2
        <4>2. h = [g EXCEPT !.rows[c] = [old EXCEPT !.children = Canvas!InsertAtIndex(old.children, r, d.index)]]
          BY <2>1, <3>2 DEF Canvas!InsertIntoLocation
        <4>3. QED
          BY <4>1, <4>2
      <3>3. QED
        BY <1>3, <3>1, <3>2
    <2>4. InChildren(c) \in Places /\ InSheet(c) \in Places /\ InChildren(c) # InSheet(c)
      BY <2>1, PlacesAre, PlacesDiffer
    <2>5. Held(g, InChildren(c)) = Canvas!ToSet(old.children) /\ Held(g, InSheet(c)) = {old.sheet} \ {None}
      BY <2>1, HeldIs
    <2>6. /\ kids \in Seq(CanvasRows) /\ Once(kids) /\ sheet \in CanvasRows \cup {None}
          /\ Canvas!ToSet(kids) = IF d.type = "sheet" THEN Canvas!ToSet(old.children)
                                   ELSE Canvas!ToSet(old.children) \cup {r}
      <3> DEFINE t == old.children
      <3>1. t \in Seq(CanvasRows) /\ Once(t) /\ r \notin Canvas!ToSet(t) /\ d.index \in Int
        BY <2>1, <2>4, <2>5
      <3>2. old.sheet \in CanvasRows \cup {None}
        BY <2>1 DEF RowsDrawn
      <3> HIDE DEF t, old
      <3>3. /\ Canvas!InsertAtIndex(t, r, d.index) \in Seq(CanvasRows)
            /\ Canvas!ToSet(Canvas!InsertAtIndex(t, r, d.index)) = Canvas!ToSet(t) \cup {r}
            /\ Once(Canvas!InsertAtIndex(t, r, d.index))
        BY <3>1, InsertedIs
      <3>4. QED
        BY <3>1, <3>2, <3>3 DEF t
    <2>7. new \in RowsDrawn
      BY <2>1, <2>6 DEF RowsDrawn
    <2>8. sheet = IF d.type = "sheet" THEN r ELSE old.sheet
      OBVIOUS
    <2> HIDE DEF kids, sheet
    <2>9. new.children = kids /\ new.sheet = sheet /\ new.here = old.here
      OBVIOUS
    <2> HIDE DEF new
    <2>10. /\ h \in Graphs /\ h.pages = g.pages /\ h.rows[c] = new
           /\ \A x \in CanvasRows : x # c => h.rows[x] = g.rows[x]
      BY <1>1, <2>1, <2>3, <2>7, RowPut
    <2>11. /\ \A a \in Places : a # InChildren(c) /\ a # InSheet(c) => Held(h, a) = Held(g, a)
           /\ Shaped(h) /\ Held(h, InChildren(c)) = Canvas!ToSet(kids) /\ Held(h, InSheet(c)) = {sheet} \ {None}
      <3>1. h.rows[c].children = kids /\ h.rows[c].sheet = sheet /\ Once(h.rows[c].children)
        BY <2>6, <2>9, <2>10
      <3>2. /\ \A a \in Places : a # InChildren(c) /\ a # InSheet(c) => Held(h, a) = Held(g, a)
            /\ Shaped(h) /\ Held(h, InChildren(c)) = Canvas!ToSet(h.rows[c].children)
            /\ Held(h, InSheet(c)) = {h.rows[c].sheet} \ {None}
        BY <2>1, <2>10, <3>1, OfARow
      <3>3. QED
        BY <3>1, <3>2
    <2>12. Canvas!Here(h) = Canvas!Here(g)
      BY <2>9, <2>10 DEF Canvas!Here
    <2>13. CASE d.type = "sheet"
      <3>1. At(d) = InSheet(c)
        BY <2>13 DEF At
      <3>2. Held(h, InSheet(c)) = {r} /\ Held(h, InChildren(c)) = Held(g, InChildren(c))
        BY <1>1, <2>5, <2>6, <2>8, <2>11, <2>13
      <3>3. QED
        BY <2>4, <2>10, <2>11, <2>12, <2>13, <3>1, <3>2
    <2>14. CASE d.type = "children"
      <3>1. At(d) = InChildren(c)
        BY <2>14 DEF At
      <3>2. Held(h, InSheet(c)) = Held(g, InSheet(c)) /\ Held(h, InChildren(c)) = Held(g, InChildren(c)) \cup {r}
        BY <2>5, <2>6, <2>8, <2>11, <2>14
      <3>3. QED
        BY <2>4, <2>10, <2>11, <2>12, <2>14, <3>1, <3>2
    <2>15. QED
      BY <1>3, <2>13, <2>14
  <1>4. QED
    BY <1>2, <1>3

\* A row drawn that shows other rows.
LEMMA ShowsPut ==
    ASSUME NEW row, NEW s,
           row = [here |-> row.here, children |-> row.children, sheet |-> row.sheet, shows |-> row.shows]
    PROVE  [row EXCEPT !.shows = s] = [here |-> row.here, children |-> row.children,
                                       sheet |-> row.sheet, shows |-> s]
  OBVIOUS

\* A show action changes neither what is there nor where.
LEMMA ShowIs ==
    ASSUME NEW g, Shaped(g), NEW c \in CanvasRows, NEW r \in CanvasRows, NEW old,
           NEW h, h = Canvas!EnsureShowAction(g, c, r, old)
    PROVE  /\ Shaped(h) /\ h.pages = g.pages /\ Canvas!Here(h) = Canvas!Here(g)
           /\ \A a \in Places : Held(h, a) = Held(g, a)
  <1> DEFINE row == g.rows[c]
             new == [here |-> row.here, children |-> row.children, sheet |-> row.sheet,
                     shows |-> (row.shows \ {old}) \cup {r}]
  <1>1. g \in Graphs /\ row \in RowsDrawn /\ Once(row.children)
    BY DEF Shaped, Graphs
  <1>2. row = [here |-> row.here, children |-> row.children, sheet |-> row.sheet, shows |-> row.shows]
    BY <1>1 DEF RowsDrawn
  <1>3. [row EXCEPT !.shows = (row.shows \ {old}) \cup {r}] = new
    BY <1>2, ShowsPut
  <1>4. h = [g EXCEPT !.rows[c] = [row EXCEPT !.shows = (row.shows \ {old}) \cup {r}]]
    BY DEF Canvas!EnsureShowAction
  <1>5. h = [g EXCEPT !.rows[c] = new]
    BY <1>3, <1>4
  <1>6. new \in RowsDrawn /\ new.children = row.children /\ new.sheet = row.sheet /\ new.here = row.here
    BY <1>1 DEF RowsDrawn
  <1> HIDE DEF new
  <1>7. /\ h \in Graphs /\ h.pages = g.pages /\ h.rows[c] = new
        /\ \A x \in CanvasRows : x # c => h.rows[x] = g.rows[x]
    BY <1>1, <1>5, <1>6, RowPut
  <1>8. h.rows[c].children = row.children /\ h.rows[c].sheet = row.sheet /\ h.rows[c].here = row.here
    BY <1>6, <1>7
  <1>9. Shaped(h) /\ \A a \in Places : Held(h, a) = Held(g, a)
    <2>1. /\ \A a \in Places : a # InChildren(c) /\ a # InSheet(c) => Held(h, a) = Held(g, a)
          /\ Held(h, InChildren(c)) = Held(g, InChildren(c))
          /\ Held(h, InSheet(c)) = Held(g, InSheet(c))
          /\ Shaped(h)
      BY <1>1, <1>7, <1>8, OfARow
    <2>2. QED
      BY <2>1
  <1>10. Canvas!Here(h) = Canvas!Here(g)
    BY <1>7, <1>8 DEF Canvas!Here
  <1>11. QED
    BY <1>7, <1>9, <1>10

\* A row that was nowhere is put in one place, and the graph stays a forest.
LEMMA ForestKept ==
    ASSUME NEW g, Forest(g), NEW h, Shaped(h), NEW r \in Canvas!Here(h), NEW place \in Places,
           Canvas!Here(g) \subseteq Canvas!Here(h),
           \A a \in Places : a # place => Held(h, a) \subseteq Held(g, a) \ {r},
           Held(h, place) \subseteq Held(g, place) \cup {r}
    PROVE  Forest(h)
  <1>1. \A a, b \in Places : Held(g, a) \cap Held(g, b) # {} => a = b
    BY DEF Forest
  <1>2. \A a \in Places : Held(g, a) \subseteq Canvas!Here(g)
    BY DEF Forest
  <1>3. ASSUME NEW a \in Places, NEW b \in Places, NEW x \in Held(h, a), x \in Held(h, b) PROVE a = b
    <2>1. CASE x = r
      BY <1>3, <2>1
    <2>2. CASE x # r
      <3>1. x \in Held(g, a) /\ x \in Held(g, b)
        BY <1>3, <2>2
      <3>2. QED
        BY <1>1, <3>1
    <2>3. QED
      BY <2>1, <2>2
  <1>4. ASSUME NEW a \in Places PROVE Held(h, a) \subseteq Canvas!Here(h)
    BY <1>2
  <1>5. QED
    BY <1>3, <1>4 DEF Forest

\* What goes with the rows it is in leaves a forest.
LEMMA ForestPruned ==
    ASSUME NEW g, Forest(g), NEW h, Shaped(h),
           \A a \in Places : Held(h, a) \subseteq Held(g, a) \cap Canvas!Here(h)
    PROVE  Forest(h)
  <1>1. \A a, b \in Places : Held(g, a) \cap Held(g, b) # {} => a = b
    BY DEF Forest
  <1>2. \A a, b \in Places : Held(h, a) \cap Held(h, b) # {} => Held(g, a) \cap Held(g, b) # {}
    OBVIOUS
  <1>3. \A a, b \in Places : Held(h, a) \cap Held(h, b) # {} => a = b
    BY <1>1, <1>2
  <1>4. QED
    BY <1>3 DEF Forest

-----------------------------------------------------------------------------
(* The steps of the canvas *)

After == [pages |-> pages', rows |-> rows']

\* The inductive invariant of the canvas: its pages are listed and those that
\* are not are empty, its rows were made, and they are a forest.
CanvasInv ==
    /\ pageIds \in Seq(CanvasPages)
    /\ \A p \in CanvasPages \ Canvas!ToSet(pageIds) : pages[p].rows = << >> /\ pages[p].footer = None
    /\ drawn \subseteq CanvasRows /\ Canvas!Here(Canvas!Graph) \subseteq drawn
    /\ Forest(Canvas!Graph)

LEMMA GraphIs ==
    /\ Canvas!Graph.pages = pages /\ Canvas!Graph.rows = rows
    /\ Canvas!Graph' = After /\ After.pages = pages' /\ After.rows = rows'
  BY DEF Canvas!Graph, After

LEMMA PagesListed ==
    ASSUME CanvasInv
    PROVE  Canvas!ToSet(pageIds) \subseteq CanvasPages
  BY Listed DEF CanvasInv

\* Another graph on the same pages.
LEMMA BecomeKeeps ==
    ASSUME CanvasInv, NEW h, Forest(h), Canvas!Become(h),
           \A q \in CanvasPages \ Canvas!ToSet(pageIds) : h.pages[q] = pages[q],
           drawn' \subseteq CanvasRows, drawn \subseteq drawn', Canvas!Here(h) \subseteq drawn'
    PROVE  CanvasInv'
  <1>1. h \in Graphs /\ pages' = h.pages /\ rows' = h.rows /\ pageIds' = pageIds
    BY DEF Forest, Shaped, Canvas!Become
  <1>2. h = Canvas!Graph'
    <2>1. h = [pages |-> h.pages, rows |-> h.rows]
      BY <1>1 DEF Graphs
    <2>2. QED
      BY <1>1, <2>1, GraphIs DEF After
  <1>3. Forest(Canvas!Graph') /\ Canvas!Here(Canvas!Graph') \subseteq drawn'
    BY <1>2
  <1>4. \A q \in CanvasPages \ Canvas!ToSet(pageIds') : pages'[q].rows = << >> /\ pages'[q].footer = None
    BY <1>1 DEF CanvasInv
  <1>5. pageIds' \in Seq(CanvasPages)
    BY <1>1 DEF CanvasInv
  <1>6. Forest(Canvas!Graph)'
    BY <1>3 DEF Forest, Shaped, Once, Held
  <1>7. QED
    BY <1>3, <1>4, <1>5, <1>6 DEF CanvasInv

\* A drop in a container ends in the graph it is given, but for what shows.
LEMMA DropEnds ==
    ASSUME NEW g, Shaped(g), NEW d, NEW r \in CanvasRows, Canvas!ApplyStructuralContainerDrop(g, d, r),
           d.type = "sheet" => d.container \in CanvasRows
    PROVE  \E h : /\ Canvas!Become(h) /\ Shaped(h) /\ h.pages = g.pages /\ Canvas!Here(h) = Canvas!Here(g)
                  /\ \A a \in Places : Held(h, a) = Held(g, a)
  <1>1. CASE Canvas!Become(g)
    BY <1>1
  <1>2. CASE /\ d.type = "sheet"
             /\ Canvas!Become(Canvas!EnsureShowAction(g, d.container, r, rows[d.container].sheet))
    <2> DEFINE h == Canvas!EnsureShowAction(g, d.container, r, rows[d.container].sheet)
    <2>1. d.container \in CanvasRows /\ Canvas!Become(h)
      BY <1>2
    <2>2. h = Canvas!EnsureShowAction(g, d.container, r, rows[d.container].sheet)
      OBVIOUS
    <2> HIDE DEF h
    <2>3. /\ Shaped(h) /\ h.pages = g.pages /\ Canvas!Here(h) = Canvas!Here(g)
          /\ \A a \in Places : Held(h, a) = Held(g, a)
      BY <2>1, <2>2, ShowIs
    <2>4. QED
      BY <2>1, <2>3
  <1>3. QED
    BY <1>1, <1>2 DEF Canvas!ApplyStructuralContainerDrop

\* What a move, or an add, does to the places.
LEMMA PutIs ==
    ASSUME CanvasInv, NEW g, Shaped(g), NEW r \in CanvasRows, r \in Canvas!Here(g),
           \A a \in Places : Held(g, a) \subseteq Held(Canvas!Graph, a) \ {r},
           Canvas!Here(Canvas!Graph) \subseteq Canvas!Here(g),
           \A q \in CanvasPages \ Canvas!ToSet(pageIds) : g.pages[q] = pages[q],
           NEW p \in Canvas!ToSet(pageIds), NEW d, Aimed(Canvas!Graph, p, d),
           Canvas!ApplyStructuralContainerDrop(Canvas!InsertIntoLocation(g, r, d), d, r)
    PROVE  \E h : /\ Canvas!Become(h) /\ Forest(h) /\ Canvas!Here(h) = Canvas!Here(g)
                  /\ \A q \in CanvasPages \ Canvas!ToSet(pageIds) : h.pages[q] = pages[q]
                  /\ At(d) \in Places
                  /\ Held(h, At(d)) = IF d.type = "sheet" THEN {r} ELSE Held(g, At(d)) \cup {r}
                  /\ \A a \in Places : a # At(d) => Held(h, a) = Held(g, a)
  <1>1. p \in CanvasPages /\ Forest(Canvas!Graph)
    BY PagesListed DEF CanvasInv
  <1>2. Canvas!PageRows(Canvas!Graph, p) \subseteq Canvas!Here(Canvas!Graph)
    BY SubtreeIs DEF Canvas!PageRows
  <1>3. d.type # "page" => d.container \in CanvasRows /\ g.rows[d.container].here
    BY <1>2 DEF Aimed, Canvas!Here
  <1>4. d.page \in CanvasPages /\ d.page = p /\ d.index \in Int /\ d.type \in {"page", "sheet", "children"}
    BY <1>1 DEF Aimed
  <1> DEFINE k == Canvas!InsertIntoLocation(g, r, d)
  <1>5. \A a \in Places : r \notin Held(g, a)
    OBVIOUS
  <1>6. k = Canvas!InsertIntoLocation(g, r, d) /\ Canvas!ApplyStructuralContainerDrop(k, d, r)
    OBVIOUS
  <1> HIDE DEF k
  <1>7. /\ Shaped(k) /\ At(d) \in Places
        /\ Held(k, At(d)) = IF d.type = "sheet" THEN {r} ELSE Held(g, At(d)) \cup {r}
        /\ \A a \in Places : a # At(d) => Held(k, a) = Held(g, a)
        /\ Canvas!Here(k) = Canvas!Here(g)
        /\ \A q \in CanvasPages : q # d.page => k.pages[q] = g.pages[q]
    BY <1>3, <1>4, <1>5, <1>6, InsertIs
  <1>8. d.type = "sheet" => d.container \in CanvasRows
    BY <1>3
  <1>9. PICK h : /\ Canvas!Become(h) /\ Shaped(h) /\ h.pages = k.pages /\ Canvas!Here(h) = Canvas!Here(k)
                 /\ \A a \in Places : Held(h, a) = Held(k, a)
    BY <1>6, <1>7, <1>8, DropEnds
  <1>10. \A a \in Places : a # At(d) => Held(h, a) \subseteq Held(Canvas!Graph, a) \ {r}
    BY <1>7, <1>9
  <1>11. Held(h, At(d)) \subseteq Held(Canvas!Graph, At(d)) \cup {r}
    BY <1>7, <1>9
  <1>12. r \in Canvas!Here(h) /\ Canvas!Here(Canvas!Graph) \subseteq Canvas!Here(h)
    BY <1>7, <1>9
  <1>13. Forest(h)
    BY <1>1, <1>7, <1>9, <1>10, <1>11, <1>12, ForestKept
  <1>14. \A q \in CanvasPages \ Canvas!ToSet(pageIds) : h.pages[q] = pages[q]
    BY <1>4, <1>7, <1>9
  <1>15. QED
    BY <1>7, <1>9, <1>13, <1>14

LEMMA MoveKeeps ==
    ASSUME CanvasInv, NEW r \in CanvasRows, NEW p \in CanvasPages, Canvas!Drag(r, p),
           NEW dest \in Canvas!ToSet(pageIds), NEW d \in Canvas!Destinations(dest), Canvas!MoveRow(r, p, d)
    PROVE  CanvasInv'
  <1> DEFINE g == Canvas!RemoveFromLocation(Canvas!Graph, p, r)
  <1>1. /\ dest \in CanvasPages /\ Forest(Canvas!Graph) /\ Shaped(Canvas!Graph) /\ p \in Canvas!ToSet(pageIds)
        /\ r \in Canvas!PageRows(Canvas!Graph, p)
    BY PagesListed DEF CanvasInv, Forest, Canvas!Drag
  <1>2. /\ Canvas!ApplyStructuralContainerDrop(Canvas!InsertIntoLocation(g, r, d), d, r) /\ drawn' = drawn
        /\ g = Canvas!RemoveFromLocation(Canvas!Graph, p, r)
    BY DEF Canvas!MoveRow
  <1> HIDE DEF g
  <1>3. /\ Shaped(g) /\ \A a \in Places : Held(g, a) = Held(Canvas!Graph, a) \ {r}
        /\ Canvas!Here(g) = Canvas!Here(Canvas!Graph)
        /\ \A q \in CanvasPages : q # p => g.pages[q] = Canvas!Graph.pages[q]
    BY <1>1, <1>2, RemoveIs
  <1>4. Aimed(Canvas!Graph, dest, d)
    BY <1>1, DestinationIs
  <1>5. r \in Canvas!Here(Canvas!Graph)
    BY <1>1, SubtreeIs DEF Canvas!PageRows
  <1>6. \A q \in CanvasPages \ Canvas!ToSet(pageIds) : g.pages[q] = pages[q]
    BY <1>1, <1>3, GraphIs
  <1>7. PICK h : /\ Canvas!Become(h) /\ Forest(h) /\ Canvas!Here(h) = Canvas!Here(g)
                 /\ \A q \in CanvasPages \ Canvas!ToSet(pageIds) : h.pages[q] = pages[q]
    BY <1>2, <1>3, <1>4, <1>5, <1>6, PutIs
  <1>8. drawn' \subseteq CanvasRows /\ drawn \subseteq drawn' /\ Canvas!Here(h) \subseteq drawn'
    BY <1>2, <1>3, <1>7 DEF CanvasInv
  <1>9. QED
    BY <1>7, <1>8, BecomeKeeps

\* A new row is there, and nothing holds it.
WithNew(r) == [Canvas!Graph EXCEPT !.rows[r] = Canvas!NewRow]

LEMMA NewRowIs ==
    /\ Canvas!NewRow \in RowsDrawn /\ Canvas!NewRow.here
    /\ Canvas!NewRow.children = << >> /\ Canvas!NewRow.sheet = None
  <1> DEFINE m == Canvas!Missing
  <1>1. m = [here |-> FALSE, children |-> << >>, sheet |-> None, shows |-> {}]
    BY DEF Canvas!Missing
  <1>2. Canvas!NewRow = [m EXCEPT !.here = TRUE]
    BY DEF Canvas!NewRow
  <1> HIDE DEF m
  <1>3. << >> \in Seq(CanvasRows)
    OBVIOUS
  <1>4. m \in RowsDrawn /\ m.children = << >> /\ m.sheet = None
    BY <1>1, <1>3 DEF RowsDrawn
  <1>5. [m EXCEPT !.here = TRUE] \in RowsDrawn
    BY <1>4 DEF RowsDrawn
  <1>6. [m EXCEPT !.here = TRUE].here
    BY <1>4 DEF RowsDrawn
  <1>7. [m EXCEPT !.here = TRUE].children = m.children
    BY <1>4 DEF RowsDrawn
  <1>8. [m EXCEPT !.here = TRUE].sheet = m.sheet
    BY <1>4 DEF RowsDrawn
  <1>9. QED
    BY <1>2, <1>4, <1>5, <1>6, <1>7, <1>8, Zenon

LEMMA NewIs ==
    ASSUME CanvasInv, NEW r \in CanvasRows, r \notin drawn, NEW g, g = WithNew(r)
    PROVE  /\ Shaped(g) /\ g.pages = pages
           /\ Canvas!Here(g) = Canvas!Here(Canvas!Graph) \cup {r}
           /\ \A a \in Places : Held(g, a) \subseteq Held(Canvas!Graph, a) \ {r}
           /\ \A a \in Places : a # InChildren(r) /\ a # InSheet(r) => Held(g, a) = Held(Canvas!Graph, a)
  <1> DEFINE old == Canvas!Graph
             new == Canvas!NewRow
  <1>1. Forest(old) /\ Shaped(old) /\ old \in Graphs /\ r \notin Canvas!Here(old)
    BY DEF CanvasInv, Forest, Shaped
  <1>4. new \in RowsDrawn /\ new.here /\ new.children = << >> /\ new.sheet = None
    BY NewRowIs
  <1>5. g = [old EXCEPT !.rows[r] = new]
    BY DEF WithNew
  <1> HIDE DEF old, new
  <1>6. /\ g \in Graphs /\ g.pages = old.pages /\ g.rows[r] = new
        /\ \A x \in CanvasRows : x # r => g.rows[x] = old.rows[x]
    <2>1. old \in Graphs /\ new \in RowsDrawn
      BY <1>1, <1>4
    <2>2. QED
      BY <2>1, <1>5 DEF Graphs
  <1>7. Once(g.rows[r].children) /\ Canvas!ToSet(g.rows[r].children) = {} /\ {g.rows[r].sheet} \ {None} = {}
    BY <1>4, <1>6, NoneListed
  <1>8. /\ \A a \in Places : a # InChildren(r) /\ a # InSheet(r) => Held(g, a) = Held(old, a)
        /\ Shaped(g) /\ Held(g, InChildren(r)) = {} /\ Held(g, InSheet(r)) = {}
    <2>1. /\ \A a \in Places : a # InChildren(r) /\ a # InSheet(r) => Held(g, a) = Held(old, a)
          /\ Shaped(g) /\ Held(g, InChildren(r)) = Canvas!ToSet(g.rows[r].children)
          /\ Held(g, InSheet(r)) = {g.rows[r].sheet} \ {None}
      BY <1>1, <1>6, <1>7, OfARow
    <2>2. QED
      BY <1>7, <2>1
  <1>9. \A a \in Places : Held(old, a) \subseteq Canvas!Here(old)
    BY <1>1 DEF Forest
  <1>10. Canvas!Here(g) = Canvas!Here(old) \cup {r}
    BY <1>4, <1>6 DEF Canvas!Here
  <1>11. \A a \in Places : Held(g, a) \subseteq Held(old, a) \ {r}
    BY <1>1, <1>8, <1>9
  <1>12. QED
    BY <1>6, <1>8, <1>10, <1>11, GraphIs DEF old

LEMMA AddKeeps ==
    ASSUME CanvasInv, NEW r \in CanvasRows,
           NEW dest \in Canvas!ToSet(pageIds), NEW d \in Canvas!Destinations(dest), Canvas!AddRow(r, d)
    PROVE  CanvasInv'
  <1> DEFINE g == WithNew(r)
  <1>1. /\ r \notin drawn /\ drawn' = drawn \cup {r} /\ g = WithNew(r)
        /\ Canvas!ApplyStructuralContainerDrop(Canvas!InsertIntoLocation(g, r, d), d, r)
    BY DEF Canvas!AddRow, WithNew
  <1> HIDE DEF g
  <1>2. /\ Shaped(g) /\ g.pages = pages
        /\ Canvas!Here(g) = Canvas!Here(Canvas!Graph) \cup {r}
        /\ \A a \in Places : Held(g, a) \subseteq Held(Canvas!Graph, a) \ {r}
    BY <1>1, NewIs
  <1>3. Aimed(Canvas!Graph, dest, d)
    BY PagesListed, DestinationIs DEF CanvasInv, Forest
  <1>4. PICK h : /\ Canvas!Become(h) /\ Forest(h) /\ Canvas!Here(h) = Canvas!Here(g)
                 /\ \A q \in CanvasPages \ Canvas!ToSet(pageIds) : h.pages[q] = pages[q]
    <2>1. r \in Canvas!Here(g) /\ Canvas!Here(Canvas!Graph) \subseteq Canvas!Here(g)
      BY <1>2
    <2>2. \A q \in CanvasPages \ Canvas!ToSet(pageIds) : g.pages[q] = pages[q]
      BY <1>2
    <2>3. QED
      BY <1>1, <1>2, <1>3, <2>1, <2>2, PutIs
  <1>5. drawn' \subseteq CanvasRows /\ drawn \subseteq drawn' /\ Canvas!Here(h) \subseteq drawn'
    BY <1>1, <1>2, <1>4 DEF CanvasInv
  <1>6. QED
    BY <1>4, <1>5, BecomeKeeps

\* A row that nothing holds is made the footer of a page.
WithFooter(g, p, r) == [g EXCEPT !.pages[p].footer = r]

LEMMA FooterIs ==
    ASSUME CanvasInv, NEW g, Shaped(g), NEW r \in CanvasRows, r \in Canvas!Here(g),
           \A a \in Places : Held(g, a) \subseteq Held(Canvas!Graph, a) \ {r},
           Canvas!Here(Canvas!Graph) \subseteq Canvas!Here(g),
           \A q \in CanvasPages \ Canvas!ToSet(pageIds) : g.pages[q] = pages[q],
           NEW dest \in Canvas!ToSet(pageIds), NEW h, h = WithFooter(g, dest, r)
    PROVE  /\ Forest(h) /\ Canvas!Here(h) = Canvas!Here(g)
           /\ \A q \in CanvasPages \ Canvas!ToSet(pageIds) : h.pages[q] = pages[q]
           /\ InFooter(dest) \in Places /\ Held(h, InFooter(dest)) = {r}
           /\ \A a \in Places : a # InFooter(dest) => Held(h, a) = Held(g, a)
  <1>1. dest \in CanvasPages /\ Forest(Canvas!Graph) /\ r # None
    BY PagesListed, CanvasConstants DEF CanvasInv
  <1>2. /\ Shaped(h) /\ h.rows = g.rows /\ Held(h, InFooter(dest)) = {r} \ {None}
        /\ \A a \in Places : a # InFooter(dest) => Held(h, a) = Held(g, a)
        /\ \A q \in CanvasPages : q # dest => h.pages[q] = g.pages[q]
    <2>1. r \in CanvasRows \cup {None}
      OBVIOUS
    <2>2. h = [g EXCEPT !.pages[dest].footer = r]
      BY DEF WithFooter
    <2>3. QED
      BY <1>1, <2>1, <2>2, FooterPut
  <1>3. Canvas!Here(h) = Canvas!Here(g)
    BY <1>2 DEF Canvas!Here
  <1>4. InFooter(dest) \in Places
    BY <1>1, PlacesAre
  <1>5. \A a \in Places : a # InFooter(dest) => Held(h, a) \subseteq Held(Canvas!Graph, a) \ {r}
    BY <1>2
  <1>6. Held(h, InFooter(dest)) \subseteq Held(Canvas!Graph, InFooter(dest)) \cup {r}
    BY <1>2
  <1>7. r \in Canvas!Here(h) /\ Canvas!Here(Canvas!Graph) \subseteq Canvas!Here(h)
    BY <1>3
  <1>8. Forest(h)
    BY <1>1, <1>2, <1>4, <1>5, <1>6, <1>7, ForestKept
  <1>9. \A q \in CanvasPages \ Canvas!ToSet(pageIds) : h.pages[q] = pages[q]
    BY <1>2
  <1>10. Held(h, InFooter(dest)) = {r}
    BY <1>1, <1>2
  <1>11. QED
    BY <1>2, <1>3, <1>4, <1>8, <1>9, <1>10

LEMMA MoveToFooterKeeps ==
    ASSUME CanvasInv, NEW r \in CanvasRows, NEW p \in CanvasPages, Canvas!Drag(r, p),
           NEW dest \in Canvas!ToSet(pageIds), Canvas!MoveRowToFooter(r, p, dest)
    PROVE  CanvasInv'
  <1> DEFINE g == Canvas!RemoveFromLocation(Canvas!Graph, p, r)
             h == WithFooter(g, dest, r)
  <1>1. /\ Forest(Canvas!Graph) /\ p \in Canvas!ToSet(pageIds) /\ r \in Canvas!PageRows(Canvas!Graph, p)
    BY DEF CanvasInv, Canvas!Drag
  <1>2. Canvas!Become(h) /\ drawn' = drawn /\ g = Canvas!RemoveFromLocation(Canvas!Graph, p, r)
    BY DEF Canvas!MoveRowToFooter, WithFooter
  <1> HIDE DEF g
  <1>3. /\ Shaped(g) /\ \A a \in Places : Held(g, a) = Held(Canvas!Graph, a) \ {r}
        /\ Canvas!Here(g) = Canvas!Here(Canvas!Graph)
        /\ \A q \in CanvasPages : q # p => g.pages[q] = Canvas!Graph.pages[q]
    BY <1>1, <1>2, RemoveIs
  <1>4. r \in Canvas!Here(g)
    BY <1>1, <1>3, SubtreeIs DEF Canvas!PageRows
  <1>5. \A q \in CanvasPages \ Canvas!ToSet(pageIds) : g.pages[q] = pages[q]
    BY <1>1, <1>3, GraphIs
  <1>6. drawn' \subseteq CanvasRows /\ drawn \subseteq drawn' /\ Canvas!Here(g) \subseteq drawn'
    BY <1>2, <1>3 DEF CanvasInv
  <1>7. h = WithFooter(g, dest, r)
    OBVIOUS
  <1> HIDE DEF h
  <1>8. /\ Forest(h) /\ Canvas!Here(h) = Canvas!Here(g)
        /\ \A q \in CanvasPages \ Canvas!ToSet(pageIds) : h.pages[q] = pages[q]
    BY <1>3, <1>4, <1>5, <1>7, FooterIs
  <1>9. QED
    BY <1>2, <1>6, <1>8, BecomeKeeps

LEMMA AddAsFooterKeeps ==
    ASSUME CanvasInv, NEW r \in CanvasRows, NEW dest \in Canvas!ToSet(pageIds), Canvas!AddRowAsFooter(r, dest)
    PROVE  CanvasInv'
  <1> DEFINE g == WithNew(r)
             h == WithFooter(g, dest, r)
  <1>1. r \notin drawn /\ drawn' = drawn \cup {r} /\ g = WithNew(r)
    BY DEF Canvas!AddRowAsFooter
  <1>2. Canvas!Become(h)
    <2>1. Canvas!Become([Canvas!Graph EXCEPT !.rows[r] = Canvas!NewRow, !.pages[dest].footer = r])
      BY DEF Canvas!AddRowAsFooter
    <2>2. [Canvas!Graph EXCEPT !.rows[r] = Canvas!NewRow, !.pages[dest].footer = r] = h
      BY DEF WithNew, WithFooter
    <2> HIDE DEF h
    <2>3. QED
      BY <2>1, <2>2
  <1>3. h = WithFooter(g, dest, r)
    OBVIOUS
  <1> HIDE DEF g, h
  <1>4. /\ Shaped(g) /\ g.pages = pages
        /\ Canvas!Here(g) = Canvas!Here(Canvas!Graph) \cup {r}
        /\ \A a \in Places : Held(g, a) \subseteq Held(Canvas!Graph, a) \ {r}
    BY <1>1, NewIs
  <1>5. r \in Canvas!Here(g) /\ Canvas!Here(Canvas!Graph) \subseteq Canvas!Here(g)
    BY <1>4
  <1>6. \A q \in CanvasPages \ Canvas!ToSet(pageIds) : g.pages[q] = pages[q]
    BY <1>4
  <1>7. drawn' \subseteq CanvasRows /\ drawn \subseteq drawn' /\ Canvas!Here(g) \subseteq drawn'
    BY <1>1, <1>4 DEF CanvasInv
  <1>8. /\ Forest(h) /\ Canvas!Here(h) = Canvas!Here(g)
        /\ \A q \in CanvasPages \ Canvas!ToSet(pageIds) : h.pages[q] = pages[q]
    BY <1>3, <1>4, <1>5, <1>6, FooterIs
  <1>9. QED
    BY <1>2, <1>7, <1>8, BecomeKeeps

\* What is reached from some of the pages.
Reach(g, ids) == UNION {Canvas!PageRows(g, p) : p \in ids}

LEMMA ReachIs ==
    ASSUME NEW g, Forest(g), NEW ids \in SUBSET CanvasPages
    PROVE  /\ Reach(g, ids) \subseteq Canvas!Here(g)
           /\ \A p \in ids : Canvas!PageRootIds(g, p) \subseteq Reach(g, ids)
           /\ \A c \in Reach(g, ids) : Canvas!Links(g, c) \subseteq Reach(g, ids)
           /\ \A S : /\ \A p \in ids : Canvas!PageRootIds(g, p) \subseteq S
                     /\ \A c \in S \cap Canvas!Here(g) : Canvas!Links(g, c) \subseteq S
                     => Reach(g, ids) \subseteq S
           /\ \A r \in Reach(g, ids) : \/ \E p \in ids : r \in Canvas!PageRootIds(g, p)
                                       \/ \E c \in Reach(g, ids) : r \in Canvas!Links(g, c)
  <1>1. \A p \in ids : Canvas!PageRows(g, p) \subseteq Canvas!Here(g)
    BY SubtreeIs DEF Canvas!PageRows
  <1>2. Canvas!Here(g) \subseteq CanvasRows
    BY DEF Canvas!Here
  <1>3. ASSUME NEW p \in ids PROVE Canvas!PageRootIds(g, p) \subseteq Canvas!PageRows(g, p)
    BY ForestLinks, SubtreeIs DEF Canvas!PageRows
  <1>4. ASSUME NEW p \in ids, NEW c \in Canvas!PageRows(g, p)
        PROVE  Canvas!Links(g, c) \subseteq Canvas!PageRows(g, p)
    <2>1. Canvas!Links(g, c) \subseteq Canvas!Here(g)
      BY <1>1, <1>2, ForestLinks
    <2>2. Canvas!Links(g, c) \cap Canvas!Here(g) \subseteq Canvas!PageRows(g, p)
      BY SubtreeIs DEF Canvas!PageRows
    <2>3. QED
      BY <2>1, <2>2
  <1>5. ASSUME NEW S, \A p \in ids : Canvas!PageRootIds(g, p) \subseteq S,
               \A c \in S \cap Canvas!Here(g) : Canvas!Links(g, c) \subseteq S,
               NEW p \in ids
        PROVE  Canvas!PageRows(g, p) \subseteq S
    <2>1. /\ Canvas!PageRootIds(g, p) \cap Canvas!Here(g) \subseteq S
          /\ \A c \in S \cap Canvas!Here(g) : Canvas!Links(g, c) \cap Canvas!Here(g) \subseteq S
      BY <1>5
    <2>2. QED
      BY <2>1, SubtreeIs DEF Canvas!PageRows
  <1>6. ASSUME NEW p \in ids, NEW r \in Canvas!PageRows(g, p)
        PROVE  \/ r \in Canvas!PageRootIds(g, p)
               \/ \E c \in Canvas!PageRows(g, p) : r \in Canvas!Links(g, c)
    BY SubtreeIs DEF Canvas!PageRows
  <1>7. QED
    BY <1>1, <1>3, <1>4, <1>5, <1>6 DEF Reach

OfPagesAndRows(h) ==
    h = [pages |-> h.pages, rows |-> h.rows] /\ h.rows = [r \in CanvasRows |-> h.rows[r]]

\* Rows that refer to none but one another are kept, the others are dropped.
Prunes(g, kept, h) ==
    /\ kept \subseteq Canvas!Here(g) /\ \A c \in kept : Canvas!Links(g, c) \subseteq kept
    /\ OfPagesAndRows(h) /\ h.pages \in [CanvasPages -> PageRecords]
    /\ \A q \in CanvasPages : \/ h.pages[q] = g.pages[q] /\ Canvas!PageRootIds(g, q) \subseteq kept
                              \/ h.pages[q].rows = << >> /\ h.pages[q].footer = None
    /\ \A c \in CanvasRows : h.rows[c] = IF c \in kept THEN g.rows[c] ELSE Canvas!Missing

LEMMA KeptIs ==
    ASSUME NEW g, Forest(g), NEW kept, NEW h, Prunes(g, kept, h)
    PROVE  /\ Forest(h) /\ Canvas!Here(h) = kept
           /\ \A c \in kept : Canvas!Links(h, c) = Canvas!Links(g, c)
           /\ \A a \in Places : Held(h, a) \subseteq Held(g, a)
  <1> USE DEF Prunes
  <1>1. /\ g \in Graphs /\ Shaped(g) /\ kept \subseteq CanvasRows
        /\ \A c \in kept : g.rows[c].here /\ g.rows[c] \in RowsDrawn /\ Once(g.rows[c].children)
        /\ \A p \in CanvasPages : Once(g.pages[p].rows)
    BY DEF Forest, Shaped, Graphs, Canvas!Here
  <1>2. /\ Canvas!Missing \in RowsDrawn /\ ~ Canvas!Missing.here
        /\ Canvas!Missing.children = << >> /\ Canvas!Missing.sheet = None
    <2> DEFINE m == Canvas!Missing
    <2>1. m = [here |-> FALSE, children |-> << >>, sheet |-> None, shows |-> {}]
      BY DEF Canvas!Missing
    <2>2. << >> \in Seq(CanvasRows)
      OBVIOUS
    <2> HIDE DEF m
    <2>3. m \in RowsDrawn
      BY <2>1, <2>2 DEF RowsDrawn
    <2>4. ~ m.here /\ m.children = << >> /\ m.sheet = None
      BY <2>1
    <2>5. QED
      BY <2>3, <2>4 DEF m
  <1>3. /\ \A c \in kept : h.rows[c] = g.rows[c]
        /\ \A c \in CanvasRows \ kept : h.rows[c] = Canvas!Missing
    BY <1>1
  <1>4. h.rows \in [CanvasRows -> RowsDrawn]
    <2>1. \A c \in CanvasRows : (IF c \in kept THEN g.rows[c] ELSE Canvas!Missing) \in RowsDrawn
      BY <1>1, <1>2
    <2>2. h.rows = [c \in CanvasRows |-> h.rows[c]]
      BY DEF OfPagesAndRows
    <2>3. \A c \in CanvasRows : h.rows[c] \in RowsDrawn
      BY <2>1
    <2>4. QED
      BY <2>2, <2>3
  <1>5. h \in Graphs
    BY <1>4 DEF Graphs, OfPagesAndRows
  <1>6. \A c \in CanvasRows : c \notin kept => h.rows[c].children = << >> /\ h.rows[c].sheet = None /\ ~ h.rows[c].here
    BY <1>2, <1>3
  <1>7. Canvas!Here(h) = kept
    <2>1. \A c \in CanvasRows : h.rows[c].here <=> c \in kept
      BY <1>1, <1>3, <1>6
    <2>2. QED
      BY <1>1, <2>1 DEF Canvas!Here
  <1>8. Shaped(h)
    <2>1. \A c \in CanvasRows : Once(h.rows[c].children)
      BY <1>1, <1>3, <1>6, NoneListed
    <2>2. \A q \in CanvasPages : Once(h.pages[q].rows)
      BY <1>1, NoneListed
    <2>3. QED
      BY <1>5, <2>1, <2>2 DEF Shaped
  <1>9. ASSUME NEW q \in CanvasPages
        PROVE  /\ Held(h, InRows(q)) \subseteq Held(g, InRows(q)) \cap kept
               /\ Held(h, InFooter(q)) \subseteq Held(g, InFooter(q)) \cap kept
    <2>1. CASE h.pages[q] = g.pages[q] /\ Canvas!PageRootIds(g, q) \subseteq kept
      <3>1. Held(h, InRows(q)) = Held(g, InRows(q)) /\ Held(h, InFooter(q)) = Held(g, InFooter(q))
        BY <2>1, HeldSame
      <3>2. Held(g, InRows(q)) \subseteq kept /\ Held(g, InFooter(q)) \subseteq kept
        BY <2>1, LinksAre
      <3>3. QED
        BY <3>1, <3>2
    <2>2. CASE h.pages[q].rows = << >> /\ h.pages[q].footer = None
      <3>1. Held(h, InRows(q)) = Canvas!ToSet(h.pages[q].rows) /\ Held(h, InFooter(q)) = {h.pages[q].footer} \ {None}
        BY HeldIs
      <3>2. Held(h, InRows(q)) = {} /\ Held(h, InFooter(q)) = {}
        BY <2>2, <3>1, NoneListed
      <3>3. QED
        BY <3>2
    <2>3. QED
      BY <2>1, <2>2
  <1>10. ASSUME NEW c \in kept
         PROVE  Held(h, InChildren(c)) = Held(g, InChildren(c)) /\ Held(h, InSheet(c)) = Held(g, InSheet(c))
    <2>1. c \in CanvasRows /\ h.rows[c] = g.rows[c]
      BY <1>1, <1>3
    <2>2. h.rows[c].children = g.rows[c].children /\ h.rows[c].sheet = g.rows[c].sheet
      BY <2>1
    <2>3. QED
      BY <2>1, <2>2, HeldSame, Zenon
  <1>11. ASSUME NEW c \in CanvasRows
         PROVE  /\ Held(h, InChildren(c)) \subseteq Held(g, InChildren(c)) \cap kept
                /\ Held(h, InSheet(c)) \subseteq Held(g, InSheet(c)) \cap kept
    <2>1. CASE c \in kept
      <3>1. Held(g, InChildren(c)) \subseteq kept /\ Held(g, InSheet(c)) \subseteq kept
        BY <2>1, LinksAre
      <3>2. QED
        BY <1>10, <2>1, <3>1
    <2>2. CASE c \notin kept
      <3>1. Held(h, InChildren(c)) = Canvas!ToSet(h.rows[c].children) /\ Held(h, InSheet(c)) = {h.rows[c].sheet} \ {None}
        BY HeldIs
      <3>2. Held(h, InChildren(c)) = {} /\ Held(h, InSheet(c)) = {}
        BY <1>6, <2>2, <3>1, NoneListed
      <3>3. QED
        BY <3>2
    <2>3. QED
      BY <2>1, <2>2
  <1>12. \A a \in Places : Held(h, a) \subseteq Held(g, a) \cap Canvas!Here(h)
    BY <1>7, <1>9, <1>11, PlacesAre
  <1>13. Forest(h)
    BY <1>8, <1>12, ForestPruned
  <1>14. \A c \in kept : Canvas!Links(h, c) = Canvas!Links(g, c)
    <2> SUFFICES ASSUME NEW c \in kept PROVE Canvas!Links(h, c) = Canvas!Links(g, c)
      OBVIOUS
    <2>1. Canvas!Links(h, c) = Held(h, InChildren(c)) \cup Held(h, InSheet(c))
      BY HeldIs
    <2>2. Canvas!Links(g, c) = Held(g, InChildren(c)) \cup Held(g, InSheet(c))
      BY HeldIs
    <2>3. QED
      BY <1>10, <2>1, <2>2
  <1>15. QED
    BY <1>7, <1>12, <1>13, <1>14

\* What nothing holds is not reached.
LEMMA Unheld ==
    ASSUME NEW g, Forest(g), NEW ids \in SUBSET CanvasPages, NEW r, \A a \in Places : r \notin Held(g, a)
    PROVE  r \notin Reach(g, ids)
  <1>1. Reach(g, ids) \subseteq CanvasRows
    BY ReachIs DEF Canvas!Here
  <1>2. /\ \A p \in CanvasPages : r \notin Canvas!PageRootIds(g, p)
        /\ \A c \in CanvasRows : r \notin Canvas!Links(g, c)
    BY LinksAre, PlacesAre
  <1>3. QED
    BY <1>1, <1>2, ReachIs

\* REMOVE_ROW leaves a forest, without the row.
LEMMA RemoveRowIs ==
    ASSUME CanvasInv, NEW r \in CanvasRows, NEW p \in CanvasPages, Canvas!Drag(r, p),
           NEW g, g = Canvas!RemoveFromLocation(Canvas!Graph, p, r),
           NEW h, h = Canvas!CleanupOrphanedRows(g),
           NEW ids, ids = Canvas!ToSet(pageIds)
    PROVE  /\ Forest(g) /\ \A a \in Places : Held(g, a) = Held(Canvas!Graph, a) \ {r}
           /\ Forest(h) /\ Canvas!Here(h) = Reach(g, ids) /\ Canvas!Here(h) \subseteq Canvas!Here(Canvas!Graph)
           /\ \A c \in Reach(g, ids) : Canvas!Links(h, c) = Canvas!Links(g, c)
           /\ \A a \in Places : Held(h, a) \subseteq Held(g, a)
           /\ h.pages = g.pages
           /\ \A q \in CanvasPages \ ids : h.pages[q] = pages[q]
  <1>1. /\ Forest(Canvas!Graph) /\ p \in ids /\ r \in Canvas!PageRows(Canvas!Graph, p) /\ ids \in SUBSET CanvasPages
    BY PagesListed DEF CanvasInv, Canvas!Drag
  <1>2. /\ h = [g EXCEPT !.rows = [x \in CanvasRows |-> IF x \in Canvas!Reachable(g) THEN g.rows[x] ELSE Canvas!Missing]]
        /\ Canvas!Reachable(g) = Reach(g, ids)
    BY DEF Canvas!CleanupOrphanedRows, Canvas!Reachable, Reach
  <1>3. /\ Shaped(g) /\ \A a \in Places : Held(g, a) = Held(Canvas!Graph, a) \ {r}
        /\ Canvas!Here(g) = Canvas!Here(Canvas!Graph)
        /\ \A q \in CanvasPages : q # p => g.pages[q] = Canvas!Graph.pages[q]
    BY <1>1, RemoveIs
  <1>4. Forest(g)
    <2>1. \A a \in Places : Held(g, a) \subseteq Held(Canvas!Graph, a) \cap Canvas!Here(g)
      BY <1>1, <1>3 DEF Forest
    <2>2. QED
      BY <1>1, <1>3, <2>1, ForestPruned
  <1>5. g \in Graphs /\ g = [pages |-> g.pages, rows |-> g.rows]
    BY <1>3 DEF Shaped, Graphs
  <1>6. /\ h.pages = g.pages
        /\ \A x \in CanvasRows : h.rows[x] = IF x \in Reach(g, ids) THEN g.rows[x] ELSE Canvas!Missing
        /\ OfPagesAndRows(h)
    <2> DEFINE new == [x \in CanvasRows |-> IF x \in Reach(g, ids) THEN g.rows[x] ELSE Canvas!Missing]
    <2>1. h = [g EXCEPT !.rows = new]
      BY <1>2
    <2> HIDE DEF new
    <2>2. h.pages = g.pages /\ h.rows = new /\ h = [pages |-> h.pages, rows |-> h.rows]
      BY <1>5, <2>1
    <2>3. new = [x \in CanvasRows |-> new[x]] /\ \A x \in CanvasRows : new[x] = IF x \in Reach(g, ids) THEN g.rows[x] ELSE Canvas!Missing
      BY DEF new
    <2>4. QED
      BY <2>2, <2>3 DEF OfPagesAndRows
  <1>7. \A q \in CanvasPages \ ids : g.pages[q] = pages[q] /\ pages[q].rows = << >> /\ pages[q].footer = None
    BY <1>1, <1>3, GraphIs DEF CanvasInv
  <1>8. /\ Forest(h) /\ Canvas!Here(h) = Reach(g, ids)
        /\ \A c \in Reach(g, ids) : Canvas!Links(h, c) = Canvas!Links(g, c)
        /\ \A a \in Places : Held(h, a) \subseteq Held(g, a)
    <2>1. /\ Reach(g, ids) \in SUBSET Canvas!Here(g)
          /\ \A c \in Reach(g, ids) : Canvas!Links(g, c) \subseteq Reach(g, ids)
          /\ \A q \in ids : Canvas!PageRootIds(g, q) \subseteq Reach(g, ids)
      BY <1>1, <1>4, ReachIs
    <2>2. h.pages \in [CanvasPages -> PageRecords]
      BY <1>5, <1>6 DEF Graphs
    <2>3. \A q \in CanvasPages : \/ h.pages[q] = g.pages[q] /\ Canvas!PageRootIds(g, q) \subseteq Reach(g, ids)
                                 \/ h.pages[q].rows = << >> /\ h.pages[q].footer = None
      BY <1>6, <1>7, <2>1
    <2>4. Prunes(g, Reach(g, ids), h)
      BY <1>6, <2>1, <2>2, <2>3 DEF Prunes
    <2>5. QED
      BY <1>4, <2>4, KeptIs
  <1>9. Canvas!Here(h) \subseteq Canvas!Here(Canvas!Graph)
    BY <1>1, <1>3, <1>4, <1>8, ReachIs
  <1>10. \A q \in CanvasPages \ ids : h.pages[q] = pages[q]
    BY <1>6, <1>7
  <1>11. QED
    BY <1>3, <1>4, <1>6, <1>8, <1>9, <1>10

LEMMA RemoveKeeps ==
    ASSUME CanvasInv, NEW r \in CanvasRows, NEW p \in CanvasPages, Canvas!Drag(r, p), Canvas!RemoveRow(r, p)
    PROVE  CanvasInv'
  <1> DEFINE g == Canvas!RemoveFromLocation(Canvas!Graph, p, r)
             h == Canvas!CleanupOrphanedRows(g)
  <1>1. /\ Canvas!Become(h) /\ drawn' = drawn /\ g = Canvas!RemoveFromLocation(Canvas!Graph, p, r)
        /\ h = Canvas!CleanupOrphanedRows(g)
    BY DEF Canvas!RemoveRow
  <1> HIDE DEF g, h
  <1>2. /\ Forest(h) /\ Canvas!Here(h) \subseteq Canvas!Here(Canvas!Graph)
        /\ \A q \in CanvasPages \ Canvas!ToSet(pageIds) : h.pages[q] = pages[q]
    BY <1>1, RemoveRowIs
  <1>3. drawn' \subseteq CanvasRows /\ drawn \subseteq drawn' /\ Canvas!Here(h) \subseteq drawn'
    BY <1>1, <1>2 DEF CanvasInv
  <1>4. QED
    BY <1>1, <1>2, <1>3, BecomeKeeps

LEMMA DropKeeps ==
    ASSUME CanvasInv, Canvas!Drop
    PROVE  CanvasInv'
  <1>1. PICK r \in CanvasRows, dest \in Canvas!ToSet(pageIds) :
          \/ \E p \in CanvasPages, d \in Canvas!Destinations(dest) : Canvas!Drag(r, p) /\ Canvas!MoveRow(r, p, d)
          \/ \E d \in Canvas!Destinations(dest) : Canvas!AddRow(r, d)
          \/ \E p \in CanvasPages : Canvas!Drag(r, p) /\ Canvas!MoveRowToFooter(r, p, dest)
          \/ Canvas!AddRowAsFooter(r, dest)
          \/ Canvas!Drag(r, dest) /\ Canvas!RemoveRow(r, dest)
    BY DEF Canvas!Drop
  <1>2. dest \in CanvasPages
    BY PagesListed
  <1>3. CASE \E p \in CanvasPages, d \in Canvas!Destinations(dest) : Canvas!Drag(r, p) /\ Canvas!MoveRow(r, p, d)
    BY <1>3, MoveKeeps
  <1>4. CASE \E d \in Canvas!Destinations(dest) : Canvas!AddRow(r, d)
    BY <1>4, AddKeeps
  <1>5. CASE \E p \in CanvasPages : Canvas!Drag(r, p) /\ Canvas!MoveRowToFooter(r, p, dest)
    BY <1>5, MoveToFooterKeeps
  <1>6. CASE Canvas!AddRowAsFooter(r, dest)
    BY <1>6, AddAsFooterKeeps
  <1>7. CASE Canvas!Drag(r, dest) /\ Canvas!RemoveRow(r, dest)
    BY <1>2, <1>7, RemoveKeeps
  <1>8. QED
    BY <1>1, <1>3, <1>4, <1>5, <1>6, <1>7

LEMMA AddPageKeeps ==
    ASSUME CanvasInv, NEW p \in CanvasPages, Canvas!AddPage(p)
    PROVE  CanvasInv'
  <1> DEFINE g == Canvas!Graph
             h == After
  <1>1. /\ p \notin Canvas!ToSet(pageIds) /\ pageIds' = Append(pageIds, p)
        /\ pages' = [pages EXCEPT ![p] = Canvas!EmptyPage] /\ rows' = rows /\ drawn' = drawn
    BY DEF Canvas!AddPage
  <1>2. Canvas!EmptyPage.rows = << >> /\ Canvas!EmptyPage.footer = None /\ Canvas!EmptyPage \in PageRecords
    <2>1. << >> \in Seq(CanvasRows)
      OBVIOUS
    <2>2. QED
      BY <2>1 DEF Canvas!EmptyPage, PageRecords
  <1>3. Forest(g) /\ Shaped(g) /\ g \in Graphs /\ pages \in [CanvasPages -> PageRecords] /\ g.pages = pages /\ g.rows = rows
    BY GraphIs DEF CanvasInv, Forest, Shaped, Graphs
  <1>4. pages[p].rows = << >> /\ pages[p].footer = None
    BY <1>1 DEF CanvasInv
  <1>5. \A q \in CanvasPages : pages'[q].rows = pages[q].rows /\ pages'[q].footer = pages[q].footer
    <2>1. pages'[p] = Canvas!EmptyPage /\ \A q \in CanvasPages : q # p => pages'[q] = pages[q]
      BY <1>1, <1>3
    <2>2. QED
      BY <1>2, <1>4, <2>1
  <1>6. pages' \in [CanvasPages -> PageRecords]
    BY <1>1, <1>2, <1>3
  <1>7. h \in Graphs /\ h.pages = pages' /\ h.rows = rows
    BY <1>1, <1>3, <1>6 DEF After, Graphs
  <1> HIDE DEF g, h
  <1>8. \A a \in Places : Held(h, a) = Held(g, a)
    <2>1. \A q \in CanvasPages : Held(h, InRows(q)) = Held(g, InRows(q)) /\ Held(h, InFooter(q)) = Held(g, InFooter(q))
      BY <1>3, <1>5, <1>7, HeldSame
    <2>2. \A c \in CanvasRows : Held(h, InChildren(c)) = Held(g, InChildren(c)) /\ Held(h, InSheet(c)) = Held(g, InSheet(c))
      BY <1>3, <1>7, HeldSame
    <2>3. QED
      BY <2>1, <2>2, PlacesAre
  <1>9. Canvas!Here(h) = Canvas!Here(g)
    BY <1>3, <1>7 DEF Canvas!Here
  <1>10. Shaped(h)
    <2>1. \A q \in CanvasPages : Once(h.pages[q].rows)
      BY <1>3, <1>5, <1>7 DEF Shaped
    <2>2. \A c \in CanvasRows : Once(h.rows[c].children)
      BY <1>3, <1>7 DEF Shaped
    <2>3. QED
      BY <1>7, <2>1, <2>2 DEF Shaped
  <1>11. Forest(h)
    <2>1. \A a \in Places : Held(h, a) \subseteq Held(g, a) \cap Canvas!Here(h)
      BY <1>3, <1>8, <1>9 DEF Forest
    <2>2. QED
      BY <1>3, <1>10, <2>1, ForestPruned
  <1>12. pageIds' \in Seq(CanvasPages) /\ Canvas!ToSet(pageIds') = Canvas!ToSet(pageIds) \cup {p}
    BY <1>1, Appended DEF CanvasInv
  <1>13. \A q \in CanvasPages \ Canvas!ToSet(pageIds') : pages'[q].rows = << >> /\ pages'[q].footer = None
    BY <1>5, <1>12 DEF CanvasInv
  <1>14. Canvas!Here(h) \subseteq drawn' /\ drawn' \subseteq CanvasRows
    BY <1>1, <1>9 DEF CanvasInv, g
  <1>15. QED
    <2>1. Canvas!Graph' = h
      BY GraphIs DEF h
    <2>2. Forest(Canvas!Graph') /\ Canvas!Here(Canvas!Graph') \subseteq drawn'
      BY <1>11, <1>14, <2>1
    <2>3. Forest(Canvas!Graph)'
      BY <2>2 DEF Forest, Shaped, Once, Held
    <2>4. QED
      BY <1>12, <1>13, <1>14, <2>2, <2>3 DEF CanvasInv

LEMMA RemovePageKeeps ==
    ASSUME CanvasInv, NEW p \in CanvasPages, Canvas!RemovePage(p)
    PROVE  CanvasInv'
  <1> DEFINE g == Canvas!Graph
             h == After
             ids == Canvas!ToSet(pageIds')
             kept == Reach(g, ids)
  <1>1. /\ pageIds' = Canvas!Without(pageIds, p) /\ drawn' = drawn
        /\ pages' = [pages EXCEPT ![p] = Canvas!EmptyPage]
        /\ rows' = [r \in CanvasRows |-> IF r \in kept THEN rows[r] ELSE Canvas!Missing]
    BY DEF Canvas!RemovePage, Reach
  <1>2. Canvas!EmptyPage.rows = << >> /\ Canvas!EmptyPage.footer = None /\ Canvas!EmptyPage \in PageRecords
    <2>1. << >> \in Seq(CanvasRows)
      OBVIOUS
    <2>2. QED
      BY <2>1 DEF Canvas!EmptyPage, PageRecords
  <1>3. Forest(g) /\ pages \in [CanvasPages -> PageRecords] /\ g.pages = pages /\ g.rows = rows
    BY GraphIs DEF CanvasInv, Forest, Shaped, Graphs
  <1>4. /\ pageIds' \in Seq(CanvasPages) /\ ids = Canvas!ToSet(pageIds) \ {p} /\ ids \in SUBSET CanvasPages
    <2>1. pageIds \in Seq(CanvasPages)
      BY DEF CanvasInv
    <2>2. QED
      BY <1>1, <2>1, WithoutIs, PagesListed
  <1>5. h.pages = pages' /\ h.rows = rows' /\ OfPagesAndRows(h)
    BY <1>1 DEF After, OfPagesAndRows
  <1> HIDE DEF g, h, kept, ids
  <1>6. /\ kept \in SUBSET Canvas!Here(g) /\ \A c \in kept : Canvas!Links(g, c) \subseteq kept
        /\ \A q \in ids : Canvas!PageRootIds(g, q) \subseteq kept
    BY <1>3, <1>4, ReachIs DEF kept
  <1>7. pages' \in [CanvasPages -> PageRecords]
    BY <1>1, <1>2, <1>3
  <1>8. \A q \in CanvasPages \ ids : pages'[q].rows = << >> /\ pages'[q].footer = None
    <2>1. pages'[p] = Canvas!EmptyPage /\ \A q \in CanvasPages : q # p => pages'[q] = pages[q]
      BY <1>1, <1>3
    <2>2. QED
      BY <1>2, <1>4, <2>1 DEF CanvasInv
  <1>9. \A q \in ids : pages'[q] = pages[q]
    <2>1. \A q \in CanvasPages : q # p => pages'[q] = pages[q]
      BY <1>1, <1>3
    <2>2. QED
      BY <1>4, <2>1
  <1>10. \A q \in CanvasPages : \/ h.pages[q] = g.pages[q] /\ Canvas!PageRootIds(g, q) \subseteq kept
                                \/ h.pages[q].rows = << >> /\ h.pages[q].footer = None
    BY <1>3, <1>5, <1>6, <1>8, <1>9
  <1>11. /\ \A r \in CanvasRows : h.rows[r] = IF r \in kept THEN g.rows[r] ELSE Canvas!Missing
         /\ h.pages \in [CanvasPages -> PageRecords]
    BY <1>1, <1>3, <1>5, <1>7
  <1>12. Forest(h) /\ Canvas!Here(h) = kept
    <2>1. Prunes(g, kept, h)
      BY <1>5, <1>6, <1>10, <1>11 DEF Prunes
    <2>2. QED
      BY <1>3, <2>1, KeptIs
  <1>13. Canvas!Here(h) \subseteq drawn' /\ drawn' \subseteq CanvasRows
    BY <1>1, <1>6, <1>12 DEF CanvasInv, g
  <1>14. QED
    <2>1. Canvas!Graph' = h
      BY GraphIs DEF h
    <2>2. Forest(Canvas!Graph') /\ Canvas!Here(Canvas!Graph') \subseteq drawn'
      BY <1>12, <1>13, <2>1
    <2>3. Forest(Canvas!Graph)'
      BY <2>2 DEF Forest, Shaped, Once, Held
    <2>4. QED
      BY <1>4, <1>8, <1>13, <2>2, <2>3 DEF CanvasInv, ids

LEMMA StillKeeps ==
    ASSUME CanvasInv, pageIds' = pageIds, pages' = pages, rows' = rows, drawn' = drawn
    PROVE  CanvasInv'
  <1>1. Canvas!Graph' = Canvas!Graph
    BY DEF Canvas!Graph
  <1>2. Forest(Canvas!Graph') /\ Canvas!Here(Canvas!Graph') \subseteq drawn'
    BY <1>1 DEF CanvasInv
  <1>3. Forest(Canvas!Graph)'
    BY <1>2 DEF Forest, Shaped, Once, Held
  <1>4. QED
    BY <1>2, <1>3 DEF CanvasInv

\* At first every row is in the list of one page.
LEMMA CanvasStarts ==
    ASSUME Canvas!Init
    PROVE  CanvasInv
  <1> DEFINE g == Canvas!Graph
             first(r) == IF \E p \in CanvasPages : Canvas!Contains(StartRows[p], r) THEN Canvas!NewRow ELSE Canvas!Missing
  <1>1. /\ pageIds = StartPages /\ drawn = {r \in CanvasRows : rows[r].here}
        /\ rows = [r \in CanvasRows |-> first(r)]
        /\ pages = [p \in CanvasPages |-> [Canvas!EmptyPage EXCEPT !.rows = StartRows[p]]]
    BY DEF Canvas!Init
  <1>2. g.pages = pages /\ g.rows = rows
    BY GraphIs
  <1>3. /\ Canvas!Missing \in RowsDrawn /\ Canvas!NewRow \in RowsDrawn
        /\ Canvas!Missing.children = << >> /\ Canvas!NewRow.children = << >>
        /\ Canvas!Missing.sheet = None /\ Canvas!NewRow.sheet = None /\ Canvas!NewRow.here
    <2>1. << >> \in Seq(CanvasRows)
      OBVIOUS
    <2>2. QED
      BY <2>1, NewRowIs DEF Canvas!Missing, RowsDrawn
  <1>4. \A p \in CanvasPages : pages[p].rows = StartRows[p] /\ pages[p].footer = None /\ pages[p] \in PageRecords
    <2> SUFFICES ASSUME NEW p \in CanvasPages
                 PROVE  pages[p].rows = StartRows[p] /\ pages[p].footer = None /\ pages[p] \in PageRecords
      OBVIOUS
    <2>1. pages[p] = [Canvas!EmptyPage EXCEPT !.rows = StartRows[p]]
      BY <1>1
    <2>2. StartRows[p] \in Seq(CanvasRows)
      BY CanvasConstants
    <2> DEFINE s == StartRows[p]
               m == Canvas!EmptyPage
    <2>3. m = [rows |-> << >>, footer |-> None]
      BY DEF Canvas!EmptyPage
    <2> HIDE DEF s, m
    <2>4. [m EXCEPT !.rows = s] = [rows |-> s, footer |-> None]
      BY <2>3
    <2>5. pages[p] = [rows |-> s, footer |-> None]
      BY <2>1, <2>4 DEF s, m
    <2>6. QED
      BY <2>2, <2>5 DEF s, PageRecords
  <1>5. \A r \in CanvasRows : rows[r] = first(r)
    BY <1>1
  <1>6. \A r \in CanvasRows : rows[r] \in RowsDrawn /\ rows[r].children = << >> /\ rows[r].sheet = None
    BY <1>3, <1>5
  <1>7. \A r \in CanvasRows, p \in CanvasPages : r \in Canvas!ToSet(StartRows[p]) => rows[r].here
    <2> SUFFICES ASSUME NEW r \in CanvasRows, NEW p \in CanvasPages, r \in Canvas!ToSet(StartRows[p])
                 PROVE  rows[r].here
      OBVIOUS
    <2>1. Canvas!Contains(StartRows[p], r)
      BY CanvasConstants, Listed
    <2>2. first(r) = Canvas!NewRow
      BY <2>1
    <2>3. QED
      BY <1>3, <1>5, <2>2
  <1> HIDE DEF g, first
  <1>8. g \in Graphs
    <2>1. rows \in [CanvasRows -> RowsDrawn] /\ pages \in [CanvasPages -> PageRecords]
      BY <1>1, <1>4, <1>6
    <2>2. QED
      BY <2>1 DEF g, Canvas!Graph, Graphs
  <1>9. Shaped(g)
    BY <1>2, <1>4, <1>6, <1>8, CanvasConstants, NoneListed DEF Shaped
  <1>10. /\ \A p \in CanvasPages : Held(g, InRows(p)) = Canvas!ToSet(StartRows[p]) /\ Held(g, InFooter(p)) = {}
         /\ \A c \in CanvasRows : Held(g, InChildren(c)) = {} /\ Held(g, InSheet(c)) = {}
    <2>1. \A p \in CanvasPages : /\ Held(g, InRows(p)) = Canvas!ToSet(g.pages[p].rows)
                                 /\ Held(g, InFooter(p)) = {g.pages[p].footer} \ {None}
      BY HeldIs
    <2>2. \A c \in CanvasRows : /\ Held(g, InChildren(c)) = Canvas!ToSet(g.rows[c].children)
                                /\ Held(g, InSheet(c)) = {g.rows[c].sheet} \ {None}
      BY HeldIs
    <2>3. \A c \in CanvasRows : Held(g, InChildren(c)) = {} /\ Held(g, InSheet(c)) = {}
      BY <1>2, <1>6, <2>2, NoneListed
    <2>4. QED
      BY <1>2, <1>4, <2>1, <2>3
  <1>11. ASSUME NEW a \in Places, NEW b \in Places, Held(g, a) \cap Held(g, b) # {} PROVE a = b
    <2>1. PICK p \in CanvasPages : a = InRows(p)
      BY <1>10, <1>11, PlacesAre
    <2>2. PICK q \in CanvasPages : b = InRows(q)
      BY <1>10, <1>11, PlacesAre
    <2>3. QED
      BY <1>10, <1>11, <2>1, <2>2, CanvasConstants
  <1>12. Canvas!Here(g) = drawn
    BY <1>1, <1>2 DEF Canvas!Here
  <1>13. ASSUME NEW a \in Places PROVE Held(g, a) \subseteq Canvas!Here(g)
    <2> SUFFICES ASSUME NEW r \in Held(g, a) PROVE r \in Canvas!Here(g)
      OBVIOUS
    <2>1. PICK p \in CanvasPages : a = InRows(p)
      BY <1>10, PlacesAre
    <2>2. r \in Canvas!ToSet(StartRows[p])
      BY <1>10, <2>1
    <2>3. r \in CanvasRows
      BY <1>8, HeldAreRows
    <2>4. QED
      BY <1>2, <1>7, <2>2, <2>3 DEF Canvas!Here
  <1>14. Forest(g)
    BY <1>9, <1>11, <1>13 DEF Forest
  <1>15. \A p \in CanvasPages \ Canvas!ToSet(pageIds) : pages[p].rows = << >> /\ pages[p].footer = None
    BY <1>1, <1>4, CanvasConstants
  <1>16. pageIds \in Seq(CanvasPages) /\ drawn \subseteq CanvasRows
    BY <1>1, CanvasConstants
  <1>17. QED
    BY <1>12, <1>14, <1>15, <1>16 DEF CanvasInv, g

LEMMA CanvasSafe == Canvas!Spec => []CanvasInv
  <1>1. Canvas!Init => CanvasInv
    BY CanvasStarts
  <1>2. CanvasInv /\ [Canvas!Next]_(Canvas!vars) => CanvasInv'
    <2> SUFFICES ASSUME CanvasInv, [Canvas!Next]_(Canvas!vars) PROVE CanvasInv'
      OBVIOUS
    <2>1. CASE Canvas!Drop
      BY <2>1, DropKeeps
    <2>2. CASE \E r \in CanvasRows : Canvas!SetActiveRow(r)
      BY <2>2, StillKeeps DEF Canvas!SetActiveRow, Canvas!graph
    <2>3. CASE \E p \in CanvasPages : Canvas!AddPage(p)
      BY <2>3, AddPageKeeps
    <2>4. CASE \E p \in CanvasPages : Canvas!RemovePage(p)
      BY <2>4, RemovePageKeeps
    <2>5. CASE UNCHANGED Canvas!vars
      BY <2>5, StillKeeps DEF Canvas!vars, Canvas!graph
    <2>6. QED
      BY <2>1, <2>2, <2>3, <2>4, <2>5 DEF Canvas!Next
  <1>3. QED
    BY <1>1, <1>2, PTL DEF Canvas!Spec

-----------------------------------------------------------------------------
(* What a forest of places is *)

LEMMA OneOrNone ==
    ASSUME NEW S, \A x, y \in S : x = y
    PROVE  IsFiniteSet(S) /\ (S = {} => Cardinality(S) = 0) /\ (S # {} => Cardinality(S) = 1)
  <1>1. CASE S = {}
    BY <1>1, FS_EmptySet
  <1>2. CASE S # {}
    <2>1. PICK x \in S : S = {x}
      BY <1>2
    <2>2. QED
      BY <1>2, <2>1, FS_Singleton
  <1>3. QED
    BY <1>1, <1>2

LEMMA CountedAlike == \A S : Canvas!Cardinality(S) = Cardinality(S)
  BY DEF Canvas!Cardinality, Cardinality

LEMMA InvIsAForest ==
    ASSUME CanvasInv
    PROVE  GraphIsAForest
  <1> DEFINE g == Canvas!Graph
  <1>1. /\ Forest(g) /\ g.pages = pages /\ g.rows = rows
        /\ \A p \in CanvasPages : Once(pages[p].rows) /\ pages[p].rows \in Seq(CanvasRows)
        /\ \A c \in CanvasRows : Once(rows[c].children) /\ rows[c].children \in Seq(CanvasRows)
    BY GraphIs DEF CanvasInv, Forest, Shaped, Graphs, PageRecords, RowsDrawn
  <1> HIDE DEF g
  <1>2. ASSUME NEW r \in CanvasRows
        PROVE  Canvas!Places(r) <= 1
    <2> DEFINE A == {p \in CanvasPages : Canvas!Contains(pages[p].rows, r)}
               B == {p \in CanvasPages : pages[p].footer = r}
               C == {c \in CanvasRows : Canvas!Contains(rows[c].children, r)}
               D == {c \in CanvasRows : rows[c].sheet = r}
    <2>1. \A a, b \in Places : r \in Held(g, a) /\ r \in Held(g, b) => a = b
      BY <1>1 DEF Forest
    <2>2. r # None
      BY CanvasConstants
    <2>3. \A p \in A : InRows(p) \in Places /\ r \in Held(g, InRows(p))
      BY <1>1, HeldIs, Listed, PlacesAre
    <2>4. \A p \in B : InFooter(p) \in Places /\ r \in Held(g, InFooter(p))
      <3> SUFFICES ASSUME NEW p \in B PROVE InFooter(p) \in Places /\ r \in Held(g, InFooter(p))
        OBVIOUS
      <3>1. p \in CanvasPages /\ g.pages[p].footer = r
        BY <1>1
      <3>2. Held(g, InFooter(p)) = {g.pages[p].footer} \ {None}
        BY <3>1, HeldIs
      <3>3. QED
        BY <2>2, <3>1, <3>2, PlacesAre
    <2>5. \A c \in C : InChildren(c) \in Places /\ r \in Held(g, InChildren(c))
      BY <1>1, HeldIs, Listed, PlacesAre
    <2>6. \A c \in D : InSheet(c) \in Places /\ r \in Held(g, InSheet(c))
      <3> SUFFICES ASSUME NEW c \in D PROVE InSheet(c) \in Places /\ r \in Held(g, InSheet(c))
        OBVIOUS
      <3>1. c \in CanvasRows /\ g.rows[c].sheet = r
        BY <1>1
      <3>2. Held(g, InSheet(c)) = {g.rows[c].sheet} \ {None}
        BY <3>1, HeldIs
      <3>3. QED
        BY <2>2, <3>1, <3>2, PlacesAre
    <2> HIDE DEF A, B, C, D
    <2>7. /\ \A x, y \in A : x = y
          /\ \A x, y \in B : x = y
          /\ \A x, y \in C : x = y
          /\ \A x, y \in D : x = y
      BY <2>1, <2>3, <2>4, <2>5, <2>6, PlacesDiffer
    <2>8. /\ A # {} => B = {} /\ C = {} /\ D = {}
          /\ B # {} => C = {} /\ D = {}
          /\ C # {} => D = {}
      BY <2>1, <2>3, <2>4, <2>5, <2>6, PlacesDiffer
    <2>9. Canvas!Places(r) = Cardinality(A) + Cardinality(B) + Cardinality(C) + Cardinality(D)
      <3>1. Canvas!Places(r) = Canvas!Cardinality(A) + Canvas!Cardinality(B) + Canvas!Cardinality(C) + Canvas!Cardinality(D)
        BY DEF Canvas!Places, A, B, C, D
      <3>2. QED
        BY <3>1, CountedAlike
    <2>10. /\ A = {} => Cardinality(A) = 0
           /\ A # {} => Cardinality(A) = 1
           /\ B = {} => Cardinality(B) = 0
           /\ B # {} => Cardinality(B) = 1
           /\ C = {} => Cardinality(C) = 0
           /\ C # {} => Cardinality(C) = 1
           /\ D = {} => Cardinality(D) = 0
           /\ D # {} => Cardinality(D) = 1
      BY <2>7, OneOrNone
    <2>11. QED
      BY <2>8, <2>9, <2>10
  <1>3. ASSUME NEW r \in (UNION {Canvas!Links(g, c) : c \in CanvasRows})
                           \cup (UNION {Canvas!PageRootIds(g, p) : p \in CanvasPages})
        PROVE  rows[r].here
    <2>1. r \in Canvas!Here(g)
      BY <1>1, ForestLinks
    <2>2. QED
      BY <1>1, <2>1 DEF Canvas!Here
  <1>4. QED
    BY <1>1, <1>2, <1>3 DEF GraphIsAForest, Canvas!GraphIsAForest, Once, g

\* However rows are dragged, a row that is referred to exists, and is referred
\* to from one place of one page or row, once: no drop of flatGraph.ts leaves a
\* row behind where it was, under two containers, or a reference to a row that
\* has gone.
THEOREM CanvasIsAForest == Canvas!Spec => []GraphIsAForest
  <1>1. CanvasInv => GraphIsAForest
    BY InvIsAForest
  <1>2. QED
    BY <1>1, CanvasSafe, PTL

-----------------------------------------------------------------------------
(* What a drop takes off the canvas *)

\* When all references of g are those of h but the ones to X, which h reaches,
\* and to Y, only what is below Y is lost.
LEMMA Rewired ==
    ASSUME NEW g, Forest(g), NEW h, Forest(h), NEW ids \in SUBSET CanvasPages,
           NEW X \in SUBSET Reach(h, ids), NEW Y,
           \A p \in ids : Canvas!PageRootIds(g, p) \ (X \cup Y) \subseteq Canvas!PageRootIds(h, p),
           \A c \in Canvas!Here(g) \cap Reach(h, ids) : Canvas!Links(g, c) \ (X \cup Y) \subseteq Canvas!Links(h, c)
    PROVE  Reach(g, ids) \subseteq Reach(h, ids) \cup Canvas!Subtree(g, Y)
  <1> DEFINE S == Reach(h, ids) \cup Canvas!Subtree(g, Y)
  <1>1. /\ \A p \in ids : Canvas!PageRootIds(h, p) \subseteq Reach(h, ids)
        /\ \A c \in Reach(h, ids) : Canvas!Links(h, c) \subseteq Reach(h, ids)
    BY ReachIs
  <1>2. /\ Y \cap Canvas!Here(g) \subseteq Canvas!Subtree(g, Y)
        /\ \A c \in Canvas!Subtree(g, Y) : Canvas!Links(g, c) \cap Canvas!Here(g) \subseteq Canvas!Subtree(g, Y)
    BY SubtreeIs
  <1>3. /\ \A c \in Canvas!Here(g) : Canvas!Links(g, c) \subseteq Canvas!Here(g)
        /\ \A p \in ids : Canvas!PageRootIds(g, p) \subseteq Canvas!Here(g)
    BY ForestLinks
  <1>4. \A p \in ids : Canvas!PageRootIds(g, p) \subseteq S
    BY <1>1, <1>2, <1>3
  <1>5. ASSUME NEW c \in S \cap Canvas!Here(g) PROVE Canvas!Links(g, c) \subseteq S
    <2>1. CASE c \in Reach(h, ids)
      BY <1>1, <1>2, <1>3, <1>5, <2>1
    <2>2. CASE c \in Canvas!Subtree(g, Y)
      BY <1>2, <1>3, <1>5, <2>2
    <2>3. QED
      BY <1>5, <2>1, <2>2
  <1> HIDE DEF S
  <1>6. Reach(g, ids) \subseteq S
    BY <1>4, <1>5, ReachIs
  <1>7. QED
    BY <1>6 DEF S

LEMMA BelowNothing ==
    ASSUME NEW g, NEW Y, Y \cap Canvas!Here(g) = {}
    PROVE  Canvas!Subtree(g, Y) = {}
  <1>1. Y \cap Canvas!Here(g) \subseteq {} /\ \A c \in {} \cap Canvas!Here(g) : Canvas!Links(g, c) \cap Canvas!Here(g) \subseteq {}
    OBVIOUS
  <1>2. Canvas!Subtree(g, Y) \subseteq {}
    BY <1>1, SubtreeIs
  <1>3. QED
    BY <1>2

\* Two rows that refer to the same row are one, and no page lists it.
LEMMA OneReferrer ==
    ASSUME NEW g, Forest(g)
    PROVE  /\ \A c, k \in CanvasRows : \A x : x \in Canvas!Links(g, c) /\ x \in Canvas!Links(g, k) => c = k
           /\ \A c \in CanvasRows, p \in CanvasPages : \A x :
                 ~ (x \in Canvas!Links(g, c) /\ x \in Canvas!PageRootIds(g, p))
  <1>1. \A a, b \in Places : \A x : x \in Held(g, a) /\ x \in Held(g, b) => a = b
    BY DEF Forest
  <1>2. ASSUME NEW c \in CanvasRows, NEW k \in CanvasRows, NEW x,
               x \in Canvas!Links(g, c), x \in Canvas!Links(g, k)
        PROVE  c = k
    <2>1. PICK a \in {InChildren(c), InSheet(c)} : x \in Held(g, a)
      BY <1>2, LinksAre
    <2>2. PICK b \in {InChildren(k), InSheet(k)} : x \in Held(g, b)
      BY <1>2, LinksAre
    <2>3. a \in Places /\ b \in Places
      BY <2>1, <2>2, PlacesAre
    <2>4. a = b
      BY <1>1, <2>1, <2>2, <2>3
    <2>5. QED
      BY <2>1, <2>2, <2>4, PlacesDiffer
  <1>3. ASSUME NEW c \in CanvasRows, NEW p \in CanvasPages, NEW x,
               x \in Canvas!Links(g, c), x \in Canvas!PageRootIds(g, p)
        PROVE  FALSE
    <2>1. PICK a \in {InChildren(c), InSheet(c)} : x \in Held(g, a)
      BY <1>3, LinksAre
    <2>2. PICK b \in {InRows(p), InFooter(p)} : x \in Held(g, b)
      BY <1>3, LinksAre
    <2>3. a \in Places /\ b \in Places
      BY <2>1, <2>2, PlacesAre
    <2>4. a = b
      BY <1>1, <2>1, <2>2, <2>3
    <2>5. QED
      BY <2>1, <2>2, <2>4, PlacesDiffer
  <1>4. QED
    BY <1>2, <1>3

\* A row that is reached is not below the rows it refers to.
LEMMA NoCycle ==
    ASSUME NEW g, Forest(g), NEW ids \in SUBSET CanvasPages, NEW c \in Reach(g, ids),
           NEW q \in Canvas!Links(g, c)
    PROVE  c \notin Canvas!Subtree(g, {q})
  <1> SUFFICES ASSUME c \in Canvas!Subtree(g, {q}) PROVE FALSE
    OBVIOUS
  <1> DEFINE B == Canvas!Subtree(g, {q})
             T == Reach(g, ids) \ B
  <1>1. /\ Reach(g, ids) \subseteq CanvasRows /\ c \in CanvasRows /\ B \subseteq CanvasRows
        /\ \A p \in ids : Canvas!PageRootIds(g, p) \subseteq Reach(g, ids)
        /\ \A k \in Reach(g, ids) : Canvas!Links(g, k) \subseteq Reach(g, ids)
    BY ReachIs, SubtreeIs, ForestLinks
  <1>2. \A x \in B : x = q \/ \E k \in B : x \in Canvas!Links(g, k)
    BY SubtreeIs
  <1>3. \A x \in B : \E k \in B : x \in Canvas!Links(g, k)
    BY <1>2
  <1> HIDE DEF B
  <1>4. \A p \in ids : Canvas!PageRootIds(g, p) \subseteq T
    BY <1>1, <1>3, OneReferrer
  <1>5. \A k \in T \cap Canvas!Here(g) : Canvas!Links(g, k) \subseteq T
    BY <1>1, <1>3, OneReferrer
  <1> HIDE DEF T
  <1>6. Reach(g, ids) \subseteq T
    BY <1>4, <1>5, ReachIs
  <1>7. QED
    BY <1>6 DEF T, B

\* The places of the pages, and of the rows that are there.
InUse(g) ==
    {InRows(p) : p \in CanvasPages} \cup {InFooter(p) : p \in CanvasPages}
      \cup {InChildren(c) : c \in Canvas!Here(g)} \cup {InSheet(c) : c \in Canvas!Here(g)}

\* A row that is put in a place of g, which is reached; in a sheet it replaces
\* the one there.
LEMMA PutTakes ==
    ASSUME NEW g, Forest(g), NEW h, Forest(h), NEW ids \in SUBSET CanvasPages,
           NEW r \in CanvasRows, NEW place \in Places,
           \/ \E p \in ids : place = InRows(p) \/ place = InFooter(p)
           \/ \E c \in Reach(g, ids) \ Canvas!Subtree(g, {r}) : place = InChildren(c) \/ place = InSheet(c),
           r \in Held(h, place),
           \A a \in InUse(g) : a # place => Held(g, a) \ {r} \subseteq Held(h, a),
           NEW Y \in SUBSET Held(g, place), Held(g, place) \ ({r} \cup Y) \subseteq Held(h, place),
           Y = {} \/ \E c \in Reach(g, ids) : place = InSheet(c)
    PROVE  Reach(g, ids) \subseteq Reach(h, ids) \cup Canvas!Subtree(g, Y)
  <1>1. /\ Reach(g, ids) \subseteq Canvas!Here(g) /\ Canvas!Here(g) \subseteq CanvasRows
        /\ \A p \in ids : Canvas!PageRootIds(h, p) \subseteq Reach(h, ids)
        /\ \A c \in Reach(h, ids) : Canvas!Links(h, c) \subseteq Reach(h, ids)
    BY ReachIs, ForestLinks
  <1>2. ASSUME NEW p \in ids PROVE Canvas!PageRootIds(g, p) \ ({r} \cup Y) \subseteq Canvas!PageRootIds(h, p)
    <2>1. InRows(p) \in InUse(g) /\ InFooter(p) \in InUse(g)
      BY DEF InUse
    <2>2. /\ Held(g, InRows(p)) \ ({r} \cup Y) \subseteq Held(h, InRows(p))
          /\ Held(g, InFooter(p)) \ ({r} \cup Y) \subseteq Held(h, InFooter(p))
      BY <2>1
    <2>3. QED
      BY <2>2, LinksAre
  <1>3. ASSUME NEW c \in Canvas!Here(g) PROVE Canvas!Links(g, c) \ ({r} \cup Y) \subseteq Canvas!Links(h, c)
    <2>1. InChildren(c) \in InUse(g) /\ InSheet(c) \in InUse(g)
      BY DEF InUse
    <2>2. /\ Held(g, InChildren(c)) \ ({r} \cup Y) \subseteq Held(h, InChildren(c))
          /\ Held(g, InSheet(c)) \ ({r} \cup Y) \subseteq Held(h, InSheet(c))
      BY <2>1
    <2>3. QED
      BY <2>2, LinksAre
  <1>4. r \in Reach(h, ids)
    <2>1. ASSUME NEW p \in ids, place = InRows(p) \/ place = InFooter(p) PROVE r \in Reach(h, ids)
      <3>1. r \in Canvas!PageRootIds(h, p)
        BY <2>1, LinksAre
      <3>2. QED
        BY <1>1, <3>1
    <2>2. ASSUME NEW c \in Reach(g, ids) \ Canvas!Subtree(g, {r}), place = InChildren(c) \/ place = InSheet(c)
          PROVE  r \in Reach(h, ids)
      <3> DEFINE all == {r} \cup Y
      <3>1. Reach(g, ids) \subseteq Reach(h, ids) \cup Canvas!Subtree(g, all)
        <4>1. \A p \in ids : Canvas!PageRootIds(g, p) \ ({} \cup all) \subseteq Canvas!PageRootIds(h, p)
          BY <1>2
        <4>2. \A k \in Canvas!Here(g) \cap Reach(h, ids) : Canvas!Links(g, k) \ ({} \cup all) \subseteq Canvas!Links(h, k)
          BY <1>3
        <4>3. {} \in SUBSET Reach(h, ids)
          OBVIOUS
        <4> HIDE DEF all
        <4>4. QED
          BY <4>1, <4>2, <4>3, Rewired
      <3>2. \A q \in Y : c \notin Canvas!Subtree(g, {q})
        <4> SUFFICES ASSUME NEW q \in Y PROVE c \notin Canvas!Subtree(g, {q})
          OBVIOUS
        <4>1. q \in Canvas!Links(g, c)
          BY <2>2, LinksAre
        <4>2. QED
          BY <2>2, <4>1, NoCycle
      <3>3. c \notin Canvas!Subtree(g, all)
        <4> DEFINE B == Canvas!Subtree(g, {r}) \cup UNION {Canvas!Subtree(g, {q}) : q \in Y}
        <4>1. all \cap Canvas!Here(g) \subseteq B
          BY SubtreeIs
        <4>2. \A k \in B \cap Canvas!Here(g) : Canvas!Links(g, k) \cap Canvas!Here(g) \subseteq B
          <5> SUFFICES ASSUME NEW k \in B PROVE Canvas!Links(g, k) \cap Canvas!Here(g) \subseteq B
            OBVIOUS
          <5>1. CASE k \in Canvas!Subtree(g, {r})
            <6>1. Canvas!Links(g, k) \cap Canvas!Here(g) \subseteq Canvas!Subtree(g, {r})
              BY <5>1, SubtreeIs
            <6>2. QED
              BY <6>1
          <5>2. ASSUME NEW q \in Y, k \in Canvas!Subtree(g, {q})
                PROVE  Canvas!Links(g, k) \cap Canvas!Here(g) \subseteq B
            <6>1. Canvas!Links(g, k) \cap Canvas!Here(g) \subseteq Canvas!Subtree(g, {q})
              BY <5>2, SubtreeIs
            <6>2. QED
              BY <6>1
          <5>3. QED
            BY <5>1, <5>2
        <4>3. c \notin B
          BY <2>2, <3>2
        <4> HIDE DEF all, B
        <4>4. Canvas!Subtree(g, all) \subseteq B
          BY <4>1, <4>2, SubtreeIs
        <4>5. QED
          BY <4>3, <4>4
      <3>4. c \in Reach(h, ids)
        BY <2>2, <3>1, <3>3
      <3>5. r \in Canvas!Links(h, c)
        BY <2>2, LinksAre
      <3>6. QED
        BY <1>1, <3>4, <3>5
    <2>3. QED
      BY <2>1, <2>2
  <1>5. {r} \in SUBSET Reach(h, ids)
    BY <1>4
  <1>6. QED
    BY <1>2, <1>3, <1>5, Rewired

\* What a step loses is below a row that is removed, or a sheet another replaces.
LosesLittle ==
    LET lost == Canvas!Reachable(Canvas!Graph) \ Canvas!Reachable(Canvas!Graph)'
    IN  lost # {} =>
          \E r \in lost :
              /\ lost \subseteq Canvas!Subtree(Canvas!Graph, {r})
              /\ ~ rows'[r].here
                   \/ \E c \in CanvasRows : rows[c].sheet = r /\ rows'[c].sheet \notin {None, r}

LEMMA LosesIs ==
    ASSUME CanvasInv, NEW h, Forest(h), Canvas!Become(h), NEW ids, ids = Canvas!ToSet(pageIds),
           NEW Y, Reach(Canvas!Graph, ids) \subseteq Reach(h, ids) \cup Canvas!Subtree(Canvas!Graph, Y),
           \/ Y = {}
           \/ \E q \in Reach(Canvas!Graph, ids) \ Reach(h, ids) :
                 /\ Y = {q}
                 /\ ~ h.rows[q].here
                      \/ \E c \in CanvasRows : rows[c].sheet = q /\ h.rows[c].sheet \notin {None, q}
    PROVE  LosesLittle
  <1>1. h \in Graphs /\ pages' = h.pages /\ rows' = h.rows /\ pageIds' = pageIds
    BY DEF Forest, Shaped, Canvas!Become
  <1>2. Canvas!Graph' = h
    <2>1. h = [pages |-> h.pages, rows |-> h.rows]
      BY <1>1 DEF Graphs
    <2>2. QED
      BY <1>1, <2>1, GraphIs DEF After
  <1>3. Canvas!Reachable(Canvas!Graph) = Reach(Canvas!Graph, ids)
    BY DEF Canvas!Reachable, Reach
  <1>4. Canvas!Reachable(Canvas!Graph)' = Reach(h, ids)
    <2>1. Canvas!Reachable(Canvas!Graph)' = UNION {Canvas!PageRows(Canvas!Graph', p) : p \in Canvas!ToSet(pageIds')}
      BY DEF Canvas!Reachable, Canvas!PageRows, Canvas!Subtree, Canvas!Here, Canvas!IsClosed, Canvas!Links,
             Canvas!PageRootIds, Canvas!ToSet
    <2>2. QED
      BY <1>1, <1>2, <2>1 DEF Reach
  <1>5. CASE Y = {}
    <2>1. Canvas!Subtree(Canvas!Graph, Y) = {}
      BY <1>5, BelowNothing
    <2>2. QED
      BY <1>3, <1>4, <2>1 DEF LosesLittle
  <1>6. ASSUME NEW q \in Reach(Canvas!Graph, ids) \ Reach(h, ids), Y = {q},
               ~ h.rows[q].here
                 \/ \E c \in CanvasRows : rows[c].sheet = q /\ h.rows[c].sheet \notin {None, q}
        PROVE  LosesLittle
    <2> DEFINE lost == Canvas!Reachable(Canvas!Graph) \ Canvas!Reachable(Canvas!Graph)'
    <2>1. q \in lost /\ lost \subseteq Canvas!Subtree(Canvas!Graph, {q})
      BY <1>3, <1>4, <1>6
    <2>2. ~ rows'[q].here \/ \E c \in CanvasRows : rows[c].sheet = q /\ rows'[c].sheet \notin {None, q}
      BY <1>1, <1>6
    <2> HIDE DEF lost
    <2>3. \E x \in lost :
             /\ lost \subseteq Canvas!Subtree(Canvas!Graph, {x})
             /\ ~ rows'[x].here
                  \/ \E c \in CanvasRows : rows[c].sheet = x /\ rows'[c].sheet \notin {None, x}
      BY <2>1, <2>2
    <2>4. QED
      BY <2>3 DEF LosesLittle, lost
  <1>7. QED
    BY <1>5, <1>6

\* A row that is put somewhere takes the place of a sheet at most.
LEMMA PutLoses ==
    ASSUME CanvasInv, NEW g, Shaped(g), NEW r \in CanvasRows, r \in Canvas!Here(g),
           \A a \in Places : Held(g, a) \subseteq Held(Canvas!Graph, a) \ {r},
           \A a \in InUse(Canvas!Graph) : Held(Canvas!Graph, a) \ {r} \subseteq Held(g, a),
           Canvas!Here(Canvas!Graph) \subseteq Canvas!Here(g),
           \A q \in CanvasPages \ Canvas!ToSet(pageIds) : g.pages[q] = pages[q],
           NEW p \in Canvas!ToSet(pageIds), NEW d, Aimed(Canvas!Graph, p, d),
           d.container \notin Canvas!Subtree(Canvas!Graph, {r}),
           Canvas!ApplyStructuralContainerDrop(Canvas!InsertIntoLocation(g, r, d), d, r)
    PROVE  LosesLittle
  <1> DEFINE old   == Canvas!Graph
             ids   == Canvas!ToSet(pageIds)
             place == At(d)
             c     == d.container
             Y     == IF d.type = "sheet" THEN Held(old, place) \ {r} ELSE {}
  <1>1. PICK h : /\ Canvas!Become(h) /\ Forest(h) /\ place \in Places
                 /\ Held(h, place) = IF d.type = "sheet" THEN {r} ELSE Held(g, place) \cup {r}
                 /\ \A a \in Places : a # place => Held(h, a) = Held(g, a)
    BY PutIs
  <1>2. Forest(old) /\ ids \in SUBSET CanvasPages /\ p \in ids /\ old.rows = rows
    BY PagesListed, GraphIs DEF CanvasInv
  <1>3. /\ d.type = "page" => place = InRows(p)
        /\ d.type # "page" => c \in Reach(old, ids) \ Canvas!Subtree(old, {r})
        /\ d.type = "sheet" => place = InSheet(c)
        /\ d.type \notin {"page", "sheet"} => place = InChildren(c)
    BY DEF Aimed, At, Reach
  <1>4. Reach(old, ids) \subseteq Canvas!Here(old) /\ Canvas!Here(old) \subseteq CanvasRows
    BY <1>2, ReachIs, ForestLinks
  <1>5. InUse(old) \subseteq Places /\ place \in InUse(old)
    BY <1>2, <1>3, <1>4, PlacesAre DEF InUse
  <1> HIDE DEF old, ids, place, c
  <1>6. Reach(old, ids) \subseteq Reach(h, ids) \cup Canvas!Subtree(old, Y)
    <2>1. \/ \E k \in ids : place = InRows(k) \/ place = InFooter(k)
          \/ \E k \in Reach(old, ids) \ Canvas!Subtree(old, {r}) : place = InChildren(k) \/ place = InSheet(k)
      BY <1>2, <1>3
    <2>2. r \in Held(h, place)
      BY <1>1
    <2>3. \A a \in InUse(old) : a # place => Held(old, a) \ {r} \subseteq Held(h, a)
      BY <1>1, <1>5 DEF old
    <2>4. Y \in SUBSET Held(old, place) /\ Held(old, place) \ ({r} \cup Y) \subseteq Held(h, place)
      BY <1>1, <1>5 DEF old
    <2>5. Y = {} \/ \E k \in Reach(old, ids) : place = InSheet(k)
      BY <1>3
    <2> HIDE DEF Y
    <2>6. QED
      BY <1>1, <1>2, <2>1, <2>2, <2>3, <2>4, <2>5, PutTakes
  <1>7. CASE Y = {}
    BY <1>1, <1>6, <1>7, LosesIs DEF old, ids
  <1>8. CASE Y # {}
    <2>1. d.type = "sheet" /\ place = InSheet(c) /\ c \in Reach(old, ids) /\ c \in CanvasRows
      BY <1>3, <1>4, <1>8
    <2>2. Held(old, place) = {old.rows[c].sheet} \ {None}
      BY <2>1, HeldIs
    <2> DEFINE q == old.rows[c].sheet
    <2>3. Y = {q} /\ q # r /\ q # None /\ q \in Held(old, place)
      BY <1>8, <2>1, <2>2
    <2>4. q \in Reach(old, ids)
      <3>1. q \in Canvas!Links(old, c)
        BY <2>1, <2>3, LinksAre
      <3>2. QED
        BY <1>2, <2>1, <3>1, ReachIs
    <2>5. q \notin Reach(h, ids)
      <3>1. \A a, b \in Places : q \in Held(old, a) /\ q \in Held(old, b) => a = b
        BY <1>2 DEF Forest
      <3>2. \A a \in Places : q \notin Held(h, a)
        <4> SUFFICES ASSUME NEW a \in Places, q \in Held(h, a) PROVE FALSE
          OBVIOUS
        <4>1. a # place
          BY <1>1, <2>1, <2>3
        <4>2. q \in Held(old, a)
          BY <1>1, <4>1 DEF old
        <4>3. QED
          BY <1>1, <2>3, <3>1, <4>1, <4>2
      <3>3. QED
        BY <1>1, <1>2, <3>2, Unheld
    <2>6. h.rows[c].sheet = r
      <3>1. Held(h, InSheet(c)) = {h.rows[c].sheet} \ {None}
        BY <2>1, HeldIs
      <3>2. Held(h, InSheet(c)) = {r}
        BY <1>1, <2>1
      <3>3. QED
        BY <3>1, <3>2
    <2>7. rows[c].sheet = q /\ h.rows[c].sheet \notin {None, q}
      BY <1>2, <2>3, <2>6, CanvasConstants
    <2>8. Reach(old, ids) \subseteq Reach(h, ids) \cup Canvas!Subtree(old, {q})
      BY <1>6, <2>3
    <2> HIDE DEF q, Y
    <2>9. \E x \in Reach(old, ids) \ Reach(h, ids) :
             /\ {q} = {x}
             /\ ~ h.rows[x].here \/ \E k \in CanvasRows : rows[k].sheet = x /\ h.rows[k].sheet \notin {None, x}
      BY <2>1, <2>4, <2>5, <2>7
    <2>10. QED
      BY <1>1, <2>8, <2>9, LosesIs DEF old, ids
  <1>9. QED
    BY <1>7, <1>8

LEMMA InUseArePlaces ==
    ASSUME NEW g
    PROVE  InUse(g) \subseteq Places
  <1>1. Canvas!Here(g) \subseteq CanvasRows
    BY DEF Canvas!Here
  <1>2. QED
    BY <1>1, PlacesAre DEF InUse

LEMMA MoveLoses ==
    ASSUME CanvasInv, NEW r \in CanvasRows, NEW p \in CanvasPages, Canvas!Drag(r, p),
           NEW dest \in Canvas!ToSet(pageIds), NEW d \in Canvas!Destinations(dest),
           ~ Canvas!WithinItself(r, d), Canvas!MoveRow(r, p, d)
    PROVE  LosesLittle
  <1> DEFINE g == Canvas!RemoveFromLocation(Canvas!Graph, p, r)
  <1>1. /\ dest \in CanvasPages /\ Forest(Canvas!Graph) /\ Shaped(Canvas!Graph) /\ p \in Canvas!ToSet(pageIds)
        /\ r \in Canvas!PageRows(Canvas!Graph, p)
    BY PagesListed DEF CanvasInv, Forest, Canvas!Drag
  <1>2. /\ Canvas!ApplyStructuralContainerDrop(Canvas!InsertIntoLocation(g, r, d), d, r)
        /\ g = Canvas!RemoveFromLocation(Canvas!Graph, p, r)
    BY DEF Canvas!MoveRow
  <1> HIDE DEF g
  <1>3. /\ Shaped(g) /\ \A a \in Places : Held(g, a) = Held(Canvas!Graph, a) \ {r}
        /\ Canvas!Here(g) = Canvas!Here(Canvas!Graph)
        /\ \A q \in CanvasPages : q # p => g.pages[q] = Canvas!Graph.pages[q]
    BY <1>1, <1>2, RemoveIs
  <1>4. Aimed(Canvas!Graph, dest, d)
    BY <1>1, DestinationIs
  <1>5. r \in Canvas!Here(g)
    BY <1>1, <1>3, SubtreeIs DEF Canvas!PageRows
  <1>6. \A q \in CanvasPages \ Canvas!ToSet(pageIds) : g.pages[q] = pages[q]
    BY <1>1, <1>3, GraphIs
  <1>7. d.container \notin Canvas!Subtree(Canvas!Graph, {r})
    BY DEF Canvas!WithinItself
  <1>8. /\ \A a \in InUse(Canvas!Graph) : Held(Canvas!Graph, a) \ {r} \subseteq Held(g, a)
        /\ \A a \in Places : Held(g, a) \subseteq Held(Canvas!Graph, a) \ {r}
        /\ Canvas!Here(Canvas!Graph) \subseteq Canvas!Here(g)
    BY <1>3, InUseArePlaces
  <1>9. QED
    BY <1>2, <1>3, <1>4, <1>5, <1>6, <1>7, <1>8, PutLoses

LEMMA NewHolds ==
    ASSUME CanvasInv, NEW r \in CanvasRows, r \notin drawn
    PROVE  /\ Canvas!Subtree(Canvas!Graph, {r}) = {}
           /\ \A a \in InUse(Canvas!Graph) : a # InChildren(r) /\ a # InSheet(r) /\ r \notin Held(Canvas!Graph, a)
  <1>1. r \notin Canvas!Here(Canvas!Graph)
    BY DEF CanvasInv
  <1>2. \A a \in InUse(Canvas!Graph) : a # InChildren(r) /\ a # InSheet(r)
    BY <1>1, PlacesDiffer DEF InUse
  <1>3. \A a \in InUse(Canvas!Graph) : r \notin Held(Canvas!Graph, a)
    BY <1>1, InUseArePlaces DEF CanvasInv, Forest
  <1>4. QED
    BY <1>1, <1>2, <1>3, BelowNothing

LEMMA AddLoses ==
    ASSUME CanvasInv, NEW r \in CanvasRows,
           NEW dest \in Canvas!ToSet(pageIds), NEW d \in Canvas!Destinations(dest), Canvas!AddRow(r, d)
    PROVE  LosesLittle
  <1> DEFINE g == WithNew(r)
  <1>1. /\ r \notin drawn /\ g = WithNew(r)
        /\ Canvas!ApplyStructuralContainerDrop(Canvas!InsertIntoLocation(g, r, d), d, r)
    BY DEF Canvas!AddRow, WithNew
  <1> HIDE DEF g
  <1>2. /\ Shaped(g) /\ g.pages = pages
        /\ Canvas!Here(g) = Canvas!Here(Canvas!Graph) \cup {r}
        /\ \A a \in Places : Held(g, a) \subseteq Held(Canvas!Graph, a) \ {r}
        /\ \A a \in Places : a # InChildren(r) /\ a # InSheet(r) => Held(g, a) = Held(Canvas!Graph, a)
    BY <1>1, NewIs
  <1>3. Aimed(Canvas!Graph, dest, d)
    BY PagesListed, DestinationIs DEF CanvasInv, Forest
  <1>4. r \in Canvas!Here(g) /\ Canvas!Here(Canvas!Graph) \subseteq Canvas!Here(g)
    BY <1>2
  <1>5. \A q \in CanvasPages \ Canvas!ToSet(pageIds) : g.pages[q] = pages[q]
    BY <1>2
  <1>6. d.container \notin Canvas!Subtree(Canvas!Graph, {r})
    BY <1>1, NewHolds
  <1>7. \A a \in InUse(Canvas!Graph) : Held(Canvas!Graph, a) \ {r} \subseteq Held(g, a)
    BY <1>1, <1>2, NewHolds, InUseArePlaces
  <1>8. QED
    BY <1>1, <1>2, <1>3, <1>4, <1>5, <1>6, <1>7, PutLoses

\* The footer of a page without one loses nothing.
LEMMA FooterLoses ==
    ASSUME CanvasInv, NEW g, Shaped(g), NEW r \in CanvasRows, r \in Canvas!Here(g),
           \A a \in Places : Held(g, a) \subseteq Held(Canvas!Graph, a) \ {r},
           \A a \in InUse(Canvas!Graph) : Held(Canvas!Graph, a) \ {r} \subseteq Held(g, a),
           Canvas!Here(Canvas!Graph) \subseteq Canvas!Here(g),
           \A q \in CanvasPages \ Canvas!ToSet(pageIds) : g.pages[q] = pages[q],
           NEW dest \in Canvas!ToSet(pageIds), pages[dest].footer = None,
           NEW h, h = WithFooter(g, dest, r), Canvas!Become(h)
    PROVE  LosesLittle
  <1> DEFINE old == Canvas!Graph
             ids == Canvas!ToSet(pageIds)
             place == InFooter(dest)
             none == {}
  <1>1. /\ Forest(h) /\ Held(h, place) = {r} /\ place \in Places
        /\ \A a \in Places : a # place => Held(h, a) = Held(g, a)
    BY FooterIs
  <1>2. Forest(old) /\ ids \in SUBSET CanvasPages /\ dest \in ids /\ dest \in CanvasPages /\ old.pages = pages
    BY PagesListed, GraphIs DEF CanvasInv
  <1>3. Held(old, place) = {}
    <2>1. Held(old, place) = {old.pages[dest].footer} \ {None}
      BY <1>2, HeldIs
    <2>2. QED
      BY <1>2, <2>1
  <1>4. \A a \in InUse(old) : a # place => Held(old, a) \ {r} \subseteq Held(h, a)
    BY <1>1, InUseArePlaces
  <1>5. Canvas!Become(h) /\ r \in Held(h, place)
    BY <1>1
  <1>6. \E k \in ids : place = InRows(k) \/ place = InFooter(k)
    BY <1>2
  <1>7. none \in SUBSET Held(old, place) /\ Held(old, place) \ ({r} \cup none) \subseteq Held(h, place) /\ none = {}
    BY <1>3
  <1> HIDE DEF old, ids, place, none
  <1>8. Reach(old, ids) \subseteq Reach(h, ids) \cup Canvas!Subtree(old, none)
    BY <1>1, <1>2, <1>4, <1>5, <1>6, <1>7, PutTakes
  <1>9. QED
    BY <1>1, <1>5, <1>7, <1>8, LosesIs DEF old, ids

LEMMA MoveToFooterLoses ==
    ASSUME CanvasInv, NEW r \in CanvasRows, NEW p \in CanvasPages, Canvas!Drag(r, p),
           NEW dest \in Canvas!ToSet(pageIds), pages[dest].footer = None, Canvas!MoveRowToFooter(r, p, dest)
    PROVE  LosesLittle
  <1> DEFINE g == Canvas!RemoveFromLocation(Canvas!Graph, p, r)
             h == WithFooter(g, dest, r)
  <1>1. /\ Forest(Canvas!Graph) /\ p \in Canvas!ToSet(pageIds) /\ r \in Canvas!PageRows(Canvas!Graph, p)
    BY DEF CanvasInv, Canvas!Drag
  <1>2. Canvas!Become(h) /\ g = Canvas!RemoveFromLocation(Canvas!Graph, p, r)
    BY DEF Canvas!MoveRowToFooter, WithFooter
  <1> HIDE DEF g
  <1>3. /\ Shaped(g) /\ \A a \in Places : Held(g, a) = Held(Canvas!Graph, a) \ {r}
        /\ Canvas!Here(g) = Canvas!Here(Canvas!Graph)
        /\ \A q \in CanvasPages : q # p => g.pages[q] = Canvas!Graph.pages[q]
    BY <1>1, <1>2, RemoveIs
  <1>4. r \in Canvas!Here(g)
    BY <1>1, <1>3, SubtreeIs DEF Canvas!PageRows
  <1>5. \A q \in CanvasPages \ Canvas!ToSet(pageIds) : g.pages[q] = pages[q]
    BY <1>1, <1>3, GraphIs
  <1>6. /\ \A a \in InUse(Canvas!Graph) : Held(Canvas!Graph, a) \ {r} \subseteq Held(g, a)
        /\ \A a \in Places : Held(g, a) \subseteq Held(Canvas!Graph, a) \ {r}
        /\ Canvas!Here(Canvas!Graph) \subseteq Canvas!Here(g)
    BY <1>3, InUseArePlaces
  <1>7. h = WithFooter(g, dest, r)
    OBVIOUS
  <1> HIDE DEF h
  <1>8. QED
    BY <1>2, <1>3, <1>4, <1>5, <1>6, <1>7, FooterLoses

LEMMA AddAsFooterLoses ==
    ASSUME CanvasInv, NEW r \in CanvasRows, NEW dest \in Canvas!ToSet(pageIds), pages[dest].footer = None,
           Canvas!AddRowAsFooter(r, dest)
    PROVE  LosesLittle
  <1> DEFINE g == WithNew(r)
             h == WithFooter(g, dest, r)
  <1>1. r \notin drawn /\ g = WithNew(r)
    BY DEF Canvas!AddRowAsFooter
  <1>2. Canvas!Become(h)
    <2>1. Canvas!Become([Canvas!Graph EXCEPT !.rows[r] = Canvas!NewRow, !.pages[dest].footer = r])
      BY DEF Canvas!AddRowAsFooter
    <2>2. [Canvas!Graph EXCEPT !.rows[r] = Canvas!NewRow, !.pages[dest].footer = r] = h
      BY DEF WithNew, WithFooter
    <2> HIDE DEF h
    <2>3. QED
      BY <2>1, <2>2
  <1>3. h = WithFooter(g, dest, r)
    OBVIOUS
  <1> HIDE DEF g, h
  <1>4. /\ Shaped(g) /\ g.pages = pages
        /\ Canvas!Here(g) = Canvas!Here(Canvas!Graph) \cup {r}
        /\ \A a \in Places : Held(g, a) \subseteq Held(Canvas!Graph, a) \ {r}
        /\ \A a \in Places : a # InChildren(r) /\ a # InSheet(r) => Held(g, a) = Held(Canvas!Graph, a)
    BY <1>1, NewIs
  <1>5. r \in Canvas!Here(g) /\ Canvas!Here(Canvas!Graph) \subseteq Canvas!Here(g)
    BY <1>4
  <1>6. \A q \in CanvasPages \ Canvas!ToSet(pageIds) : g.pages[q] = pages[q]
    BY <1>4
  <1>7. \A a \in InUse(Canvas!Graph) : Held(Canvas!Graph, a) \ {r} \subseteq Held(g, a)
    BY <1>1, <1>4, NewHolds, InUseArePlaces
  <1>8. QED
    BY <1>2, <1>3, <1>4, <1>5, <1>6, <1>7, FooterLoses

LEMMA RemoveLoses ==
    ASSUME CanvasInv, NEW r \in CanvasRows, NEW p \in CanvasPages, Canvas!Drag(r, p), Canvas!RemoveRow(r, p)
    PROVE  LosesLittle
  <1> DEFINE old == Canvas!Graph
             ids == Canvas!ToSet(pageIds)
             g == Canvas!RemoveFromLocation(Canvas!Graph, p, r)
             h == Canvas!CleanupOrphanedRows(g)
             gone == {r}
             none == {}
  <1>1. Canvas!Become(h)
    BY DEF Canvas!RemoveRow
  <1>2. /\ g = Canvas!RemoveFromLocation(Canvas!Graph, p, r) /\ h = Canvas!CleanupOrphanedRows(g)
        /\ ids = Canvas!ToSet(pageIds)
    OBVIOUS
  <1>3. /\ Forest(old) /\ ids \in SUBSET CanvasPages /\ p \in ids /\ r \in Canvas!PageRows(old, p)
    BY PagesListed DEF CanvasInv, Canvas!Drag
  <1> HIDE DEF g, h, ids, old
  <1>4. /\ Forest(g) /\ \A a \in Places : Held(g, a) = Held(old, a) \ {r}
        /\ Forest(h) /\ Canvas!Here(h) = Reach(g, ids)
        /\ \A c \in Reach(g, ids) : Canvas!Links(h, c) = Canvas!Links(g, c)
        /\ \A a \in Places : Held(h, a) \subseteq Held(g, a)
        /\ h.pages = g.pages
    BY <1>2, RemoveRowIs DEF old
  <1>5. /\ \A c \in CanvasRows : Canvas!Links(g, c) = Canvas!Links(old, c) \ {r}
        /\ \A k \in CanvasPages : Canvas!PageRootIds(g, k) = Canvas!PageRootIds(old, k) \ {r}
    BY <1>4, LinksAre, PlacesAre
  <1>6. r \notin Reach(g, ids) /\ r \notin Reach(h, ids) /\ Reach(h, ids) \subseteq Canvas!Here(h)
    BY <1>3, <1>4, Unheld, ReachIs
  <1>7. r \in Reach(old, ids)
    BY <1>3 DEF Reach
  <1>8. ~ h.rows[r].here
    BY <1>4, <1>6 DEF Canvas!Here
  <1>9. \A k \in ids : Canvas!PageRootIds(old, k) \ (none \cup gone) \subseteq Canvas!PageRootIds(h, k)
    <2> SUFFICES ASSUME NEW k \in ids PROVE Canvas!PageRootIds(old, k) \ {r} \subseteq Canvas!PageRootIds(h, k)
      OBVIOUS
    <2>1. Canvas!PageRootIds(h, k) = Canvas!PageRootIds(g, k)
      BY <1>4 DEF Canvas!PageRootIds
    <2>2. QED
      BY <1>3, <1>5, <2>1
  <1>10. \A c \in Canvas!Here(old) \cap Reach(h, ids) : Canvas!Links(old, c) \ (none \cup gone) \subseteq Canvas!Links(h, c)
    <2>1. Reach(h, ids) \subseteq Reach(g, ids) /\ Canvas!Here(old) \subseteq CanvasRows
      BY <1>4, <1>6 DEF Canvas!Here
    <2>2. QED
      BY <1>4, <1>5, <2>1
  <1>11. none \in SUBSET Reach(h, ids)
    OBVIOUS
  <1>12. \E q \in Reach(old, ids) \ Reach(h, ids) :
            /\ gone = {q}
            /\ ~ h.rows[q].here \/ \E c \in CanvasRows : rows[c].sheet = q /\ h.rows[c].sheet \notin {None, q}
    BY <1>6, <1>7, <1>8
  <1> HIDE DEF gone, none
  <1>13. Reach(old, ids) \subseteq Reach(h, ids) \cup Canvas!Subtree(old, gone)
    BY <1>3, <1>4, <1>9, <1>10, <1>11, Rewired
  <1>14. QED
    BY <1>1, <1>2, <1>4, <1>12, <1>13, LosesIs DEF old

LEMMA DropLoses ==
    ASSUME CanvasInv, Canvas!Drop
    PROVE  LosesLittle
  <1>1. PICK r \in CanvasRows, dest \in Canvas!ToSet(pageIds) :
          \/ \E p \in CanvasPages, d \in Canvas!Destinations(dest) :
                Canvas!Drag(r, p) /\ ~ Canvas!WithinItself(r, d) /\ Canvas!MoveRow(r, p, d)
          \/ \E d \in Canvas!Destinations(dest) : Canvas!AddRow(r, d)
          \/ \E p \in CanvasPages : Canvas!Drag(r, p) /\ pages[dest].footer = None /\ Canvas!MoveRowToFooter(r, p, dest)
          \/ pages[dest].footer = None /\ Canvas!AddRowAsFooter(r, dest)
          \/ Canvas!Drag(r, dest) /\ Canvas!RemoveRow(r, dest)
    BY DEF Canvas!Drop
  <1>2. dest \in CanvasPages
    BY PagesListed
  <1>3. CASE \E p \in CanvasPages, d \in Canvas!Destinations(dest) :
                Canvas!Drag(r, p) /\ ~ Canvas!WithinItself(r, d) /\ Canvas!MoveRow(r, p, d)
    BY <1>3, MoveLoses
  <1>4. CASE \E d \in Canvas!Destinations(dest) : Canvas!AddRow(r, d)
    BY <1>4, AddLoses
  <1>5. CASE \E p \in CanvasPages : Canvas!Drag(r, p) /\ pages[dest].footer = None /\ Canvas!MoveRowToFooter(r, p, dest)
    BY <1>5, MoveToFooterLoses
  <1>6. CASE pages[dest].footer = None /\ Canvas!AddRowAsFooter(r, dest)
    BY <1>6, AddAsFooterLoses
  <1>7. CASE Canvas!Drag(r, dest) /\ Canvas!RemoveRow(r, dest)
    BY <1>2, <1>7, RemoveLoses
  <1>8. QED
    BY <1>1, <1>3, <1>4, <1>5, <1>6, <1>7

\* No drop of dropHandler.ts takes anything off the canvas but the row that is
\* removed, or the sheet that another replaces, with what is below it: a row is
\* not dropped into what it holds, so all that went with it can be reached.
THEOREM DropsLoseNothingElse == Canvas!Spec => DropsKeepTheRest
  <1>1. CanvasInv /\ [Canvas!Next]_(Canvas!vars) => [drops' # drops => LosesLittle]_(Canvas!vars)
    <2> SUFFICES ASSUME CanvasInv, Canvas!Next, drops' # drops PROVE LosesLittle
      OBVIOUS
    <2>1. Canvas!Drop
      BY DEF Canvas!Next, Canvas!SetActiveRow, Canvas!AddPage, Canvas!RemovePage
    <2>2. QED
      BY <2>1, DropLoses
  <1>2. QED
    BY <1>1, CanvasSafe, PTL DEF Canvas!Spec, DropsKeepTheRest, Canvas!DropsKeepTheRest, LosesLittle

-----------------------------------------------------------------------------
(* The camera *)

Transforms == [offset : Int, scale : {1, 2}]
Views == [camera : Transforms, painted : Transforms, seen : Transforms,
          frame : BOOLEAN, moving : BOOLEAN]

\* What is painted is the camera's, or a frame will paint it; and what is seen is
\* what is painted, but during a transition.
InStep(v) == (v.painted # v.camera => v.frame) /\ (~ v.moving => v.seen = v.painted)
AtRest(v) == v \in Views /\ InStep(v) /\ ~ v.moving /\ ~ v.frame

\* Where the camera will show a point, by how much beside the middle.
Aside(v, x) == v.camera.offset + v.camera.scale * x - Middle

LEMMA CameraConstants ==
    /\ \A f \in Camera!Flow : PagePlaces[f] \in [Camera!Page(f) -> Int] /\ PageWidths[f] \in Nat
    /\ ActivePlace \in Int /\ Middle \in Int /\ PanelInset \in Int /\ FitPadding \in Int
    /\ PanStep \in Nat /\ PanStep # 0 /\ MaxPaces \in Nat
    /\ NoPage \notin Int /\ NoPage \notin Camera!Pages
  BY CameraAssumption DEF Camera!ViewportAssumption

LEMMA ScreenIs ==
    ASSUME NEW v \in Views, NEW x \in Int
    PROVE  /\ Camera!Screen(v, x) = v.seen.offset + v.seen.scale * x
           /\ Camera!Screen(v, x) \in Int /\ v.seen.scale * x \in Int
  <1>1. v.seen.offset \in Int /\ v.seen.scale \in {1, 2}
    BY DEF Views, Transforms
  <1>2. v.seen.scale * x \in Int
    BY <1>1
  <1>3. QED
    BY <1>1, <1>2 DEF Camera!Screen

\* What the transform of a view is set to.
LEMMA ApplyIs ==
    ASSUME NEW v \in Views
    PROVE  LET w == Camera!Apply(v)
           IN  /\ w \in Views /\ w.camera = v.camera /\ w.painted = v.camera
               /\ w.seen = (IF v.moving THEN v.seen ELSE v.camera)
               /\ w.frame = v.frame /\ w.moving = v.moving
  <1>1. v.camera \in Transforms /\ v.seen \in Transforms
    BY DEF Views
  <1> HIDE DEF Transforms
  <1>2. QED
    BY <1>1 DEF Camera!Apply, Views

LEMMA SnapPanIs ==
    ASSUME NEW v \in Views, InStep(v), NEW d \in Int
    PROVE  LET w == Camera!SnapPan(v, d)
           IN  /\ w \in Views /\ InStep(w) /\ w.frame = v.frame /\ w.moving = v.moving
               /\ w.camera.offset = v.camera.offset + d /\ w.camera.scale = v.camera.scale
               /\ w.painted = w.camera
  <1> DEFINE u == [v EXCEPT !.camera.offset = @ + d]
             w == Camera!SnapPan(v, d)
  <1>1. v.camera.offset \in Int /\ v.camera.scale \in {1, 2}
    BY DEF Views, Transforms
  <1>2. /\ u \in Views /\ u.camera.offset = v.camera.offset + d /\ u.camera.scale = v.camera.scale
        /\ u.seen = v.seen /\ u.frame = v.frame /\ u.moving = v.moving
    BY <1>1 DEF Views, Transforms
  <1>3. w = Camera!Apply(u)
    BY DEF Camera!SnapPan
  <1> HIDE DEF u, w
  <1>4. /\ w \in Views /\ w.camera = u.camera /\ w.painted = u.camera
        /\ w.seen = (IF u.moving THEN u.seen ELSE u.camera) /\ w.frame = u.frame /\ w.moving = u.moving
    BY <1>2, <1>3, ApplyIs
  <1>5. InStep(w)
    BY <1>2, <1>4 DEF InStep
  <1>6. QED
    BY <1>2, <1>4, <1>5 DEF w

LEMMA SnapIs ==
    ASSUME NEW v \in Views, InStep(v), NEW x \in Int, NEW target \in Int
    PROVE  LET w == Camera!SnapTo(v, x, target)
           IN  /\ w \in Views /\ InStep(w) /\ w.frame = v.frame /\ w.moving = v.moving
               /\ w.camera.scale = v.camera.scale
               /\ AtRest(v) => AtRest(w) /\ Camera!Screen(w, x) = target /\ w.seen = w.camera
  <1> DEFINE d == target - Camera!Screen(v, x)
             w == Camera!SnapTo(v, x, target)
  <1>1. d \in Int
    BY ScreenIs
  <1>2. w = IF d = 0 THEN v ELSE Camera!SnapPan(v, d)
    BY DEF Camera!SnapTo
  <1>3. AtRest(v) => v.seen = v.camera
    BY DEF AtRest, InStep
  <1>4. CASE d = 0
    <2>1. w = v /\ Camera!Screen(v, x) = target
      BY <1>2, <1>4, ScreenIs
    <2>2. QED
      BY <2>1, <1>3
  <1>5. CASE d # 0
    <2> DEFINE u == Camera!SnapPan(v, d)
    <2>1. /\ u \in Views /\ InStep(u) /\ u.frame = v.frame /\ u.moving = v.moving
          /\ u.camera.offset = v.camera.offset + d /\ u.camera.scale = v.camera.scale
          /\ u.painted = u.camera
      BY <1>1, SnapPanIs
    <2>2. w = u
      BY <1>2, <1>5
    <2> HIDE DEF u, w
    <2>3. ASSUME AtRest(v) PROVE AtRest(u) /\ Camera!Screen(u, x) = target /\ u.seen = u.camera
      <3>1. AtRest(u) /\ u.seen = u.camera
        BY <2>1, <2>3 DEF AtRest, InStep
      <3>2. Camera!Screen(u, x) = (v.camera.offset + d) + v.camera.scale * x
        BY <2>1, <3>1, ScreenIs
      <3>3. Camera!Screen(v, x) = v.camera.offset + v.camera.scale * x
        BY <1>3, <2>3, ScreenIs
      <3>4. v.camera.offset \in Int /\ v.camera.scale * x \in Int
        <4>1. v.seen.scale * x \in Int
          BY ScreenIs
        <4>2. QED
          BY <4>1, <1>3, <2>3 DEF Views, Transforms
      <3>5. QED
        BY <1>1, <3>1, <3>2, <3>3, <3>4
    <2>4. QED
      BY <2>1, <2>2, <2>3 DEF w
  <1>6. QED
    BY <1>4, <1>5

LEMMA SmoothIs ==
    ASSUME NEW v \in Views, NEW offset \in Int
    PROVE  LET w == Camera!SmoothPanTo(v, offset)
           IN  /\ w \in Views /\ InStep(w)
               /\ w.camera.offset = offset /\ w.camera.scale = v.camera.scale
  <1> DEFINE u == [v EXCEPT !.frame = FALSE, !.moving = TRUE, !.camera.offset = offset]
             w == Camera!SmoothPanTo(v, offset)
  <1>1. v.camera \in Transforms /\ v.camera.scale \in {1, 2}
    BY DEF Views, Transforms
  <1>2. /\ u.camera = [v.camera EXCEPT !.offset = offset] /\ u.seen = v.seen /\ u.painted = v.painted
        /\ DOMAIN u = DOMAIN v
    BY Zenon DEF Views
  <1>3. u.frame = FALSE /\ u.moving = TRUE
    BY DEF Views
  <1>4. u.camera \in Transforms /\ u.camera.offset = offset /\ u.camera.scale = v.camera.scale
    BY <1>1, <1>2 DEF Transforms
  <1>5. u \in Views
    BY <1>1 DEF Views, Transforms
  <1>6. w = Camera!Apply(u)
    BY DEF Camera!SmoothPanTo
  <1> HIDE DEF u, w
  <1>7. /\ w \in Views /\ w.camera = u.camera /\ w.painted = u.camera /\ w.moving = u.moving
    BY <1>5, <1>6, ApplyIs
  <1>8. QED
    BY <1>3, <1>4, <1>7 DEF InStep, w

LEMMA PanIs ==
    ASSUME NEW v, AtRest(v), NEW x \in Int
    PROVE  LET w == Camera!PanToElement(v, x)
           IN  /\ w \in Views /\ InStep(w)
               /\ Aside(w, x) \in -3 .. 3
  <1> DEFINE d == Middle - Camera!Screen(v, x)
             w == Camera!PanToElement(v, x)
  <1>1. v \in Views /\ v.seen = v.camera /\ InStep(v)
    BY DEF AtRest, InStep
  <1>2. Camera!Screen(v, x) = v.camera.offset + v.camera.scale * x
    BY <1>1, ScreenIs
  <1>3. v.camera.offset \in Int /\ v.camera.scale * x \in Int /\ Middle \in Int
    <2>1. v.seen.scale * x \in Int
      BY <1>1, ScreenIs
    <2>2. QED
      BY <1>1, <2>1, CameraConstants DEF Views, Transforms
  <1>4. d \in Int
    BY <1>2, <1>3
  <1>5. CASE d \in -3 .. 3
    <2>1. w = v
      BY <1>5 DEF Camera!PanToElement, Camera!Tolerance
    <2>2. Aside(v, x) \in -3 .. 3
      BY <1>2, <1>3, <1>5 DEF Aside
    <2>3. QED
      BY <1>1, <2>1, <2>2
  <1>6. CASE d \notin -3 .. 3
    <2> DEFINE o == v.camera.offset + d
    <2>1. w = Camera!SmoothPanTo(v, o)
      BY <1>6 DEF Camera!PanToElement, Camera!Tolerance
    <2>2. o \in Int
      BY <1>3, <1>4
    <2>3. w \in Views /\ InStep(w) /\ w.camera.offset = o /\ w.camera.scale = v.camera.scale
      BY <1>1, <2>1, <2>2, SmoothIs
    <2> HIDE DEF w
    <2>4. Aside(w, x) = 0
      BY <1>2, <1>3, <2>3 DEF Aside
    <2>5. QED
      BY <2>3, <2>4 DEF w
  <1>7. QED
    BY <1>5, <1>6

\* A page that becomes active is in the middle.
LEMMA EnteredIs ==
    ASSUME NEW v, AtRest(v), NEW capture \in Int \cup {NoPage}
    PROVE  LET w == Camera!Entered(v, capture)
           IN  w \in Views /\ InStep(w) /\ Aside(w, ActivePlace) \in -3 .. 3
  <1> DEFINE w == Camera!Entered(v, capture)
  <1>1. v \in Views /\ InStep(v) /\ ActivePlace \in Int /\ Middle \in Int
    BY CameraConstants DEF AtRest
  <1>2. CASE capture # NoPage
    <2> DEFINE u == Camera!SnapTo(v, ActivePlace, capture)
    <2>1. AtRest(u)
      BY <1>1, <1>2, SnapIs
    <2>2. w = Camera!PanToElement(u, ActivePlace)
      BY <1>2 DEF Camera!Entered
    <2> HIDE DEF u
    <2>3. w \in Views /\ InStep(w) /\ Aside(w, ActivePlace) \in -3 .. 3
      BY <1>1, <2>1, <2>2, PanIs
    <2>4. QED
      BY <2>3
  <1>3. CASE capture = NoPage
    <2>1. w = Camera!SnapTo(v, ActivePlace, Middle)
      BY <1>3 DEF Camera!Entered
    <2>2. AtRest(w) /\ Camera!Screen(w, ActivePlace) = Middle /\ w.seen = w.camera
      BY <1>1, <2>1, SnapIs
    <2> HIDE DEF w
    <2>3. w \in Views /\ InStep(w)
      BY <2>2 DEF AtRest
    <2>4. w.camera.offset + w.camera.scale * ActivePlace = Middle
      BY <1>1, <2>2, <2>3, ScreenIs
    <2>5. w.camera.offset \in Int /\ w.camera.scale * ActivePlace \in Int
      BY <2>2, <2>3, <1>1, ScreenIs DEF Views, Transforms
    <2>6. Aside(w, ActivePlace) \in -3 .. 3
      BY <1>1, <2>4, <2>5 DEF Aside
    <2>7. QED
      BY <2>3, <2>6 DEF w
  <1>4. QED
    BY <1>2, <1>3

\* A page that is left is seen where it was.
LEMMA LeftIs ==
    ASSUME NEW v, AtRest(v), NEW f \in Camera!Flow, NEW p, NEW capture \in Int \cup {NoPage}
    PROVE  LET w == Camera!Left(v, p, f, capture)
           IN  /\ AtRest(w)
               /\ p \in Camera!Page(f) /\ capture # NoPage =>
                     Camera!Screen(w, PagePlaces[f][p]) = capture
  <1> DEFINE w == Camera!Left(v, p, f, capture)
  <1>1. CASE capture = NoPage \/ p \notin Camera!Page(f)
    BY <1>1 DEF Camera!Left
  <1>2. CASE capture # NoPage /\ p \in Camera!Page(f)
    <2>1. w = Camera!SnapTo(v, PagePlaces[f][p], capture)
      BY <1>2 DEF Camera!Left
    <2>2. PagePlaces[f][p] \in Int /\ v \in Views /\ InStep(v)
      BY <1>2, CameraConstants DEF AtRest
    <2>3. QED
      BY <1>2, <2>1, <2>2, SnapIs
  <1>3. QED
    BY <1>1, <1>2

LEMMA CenterIs ==
    ASSUME NEW v, AtRest(v), NEW f \in Camera!Flow
    PROVE  AtRest(Camera!CenterContent(v, f))
  <1> DEFINE width == PageWidths[f] * v.seen.scale
             left  == IF width <= 2 * Middle - 2 * PanelInset THEN Middle - width \div 2 ELSE PanelInset
  <1>1. v \in Views /\ InStep(v) /\ v.seen.scale \in {1, 2}
    BY DEF AtRest, Views, Transforms
  <1>2. width \in Int
    BY <1>1, CameraConstants
  <1>3. left \in Int
    <2> HIDE DEF width
    <2>1. width \div 2 \in Int
      BY <1>2
    <2>2. QED
      BY <2>1, CameraConstants
  <1>4. Camera!CenterContent(v, f) = Camera!SnapTo(v, 0, left)
    BY DEF Camera!CenterContent
  <1> HIDE DEF left
  <1>5. QED
    BY <1>1, <1>3, <1>4, SnapIs

-----------------------------------------------------------------------------
(* What the camera keeps *)

CameraTypes ==
    /\ view \in Views /\ flow \in Camera!Flow /\ page \in Camera!Page(flow) \cup {NoPage}
    /\ captured \in Int \cup {NoPage} /\ drag \in Int \cup {NoPage}
    /\ inertia \in Int /\ moved \in Int

\* A page that was moved when it was left is so where nothing moves.
MovedIsStill == moved # 0 => inertia = 0

CameraInv ==
    /\ CameraTypes /\ InStep(view) /\ MovedIsStill
    /\ Camera!SelectedIsCentered /\ Camera!CaptureIsNotStale /\ Camera!LeavingKeepsItsPlace

LEMMA CenteredIs == Camera!SelectedIsCentered <=> (aim = "page" => Aside(view, ActivePlace) \in -3 .. 3)
  BY DEF Camera!SelectedIsCentered, Camera!Tolerance, Aside

LEMMA PageOfAFlow ==
    ASSUME NEW f \in Camera!Flow, NEW p \in Camera!Page(f)
    PROVE  p \in Camera!Pages /\ p # NoPage /\ PagePlaces[f][p] \in Int
  <1>1. p \in Camera!Pages
    BY DEF Camera!Pages
  <1>2. PagePlaces[f] \in [Camera!Page(f) -> Int]
    BY CameraConstants
  <1>3. PagePlaces[f][p] \in Int
    BY <1>2
  <1>4. QED
    BY <1>1, <1>3, CameraConstants

LEMMA StillIs == ASSUME CameraInv, Camera!Still PROVE AtRest(view) /\ inertia = 0
  BY DEF CameraInv, CameraTypes, Camera!Still, AtRest

\* The same view beside itself.
LEMMA StartIs ==
    ASSUME NEW v, v = [camera |-> [offset |-> 0, scale |-> 1], painted |-> [offset |-> 0, scale |-> 1],
                       seen |-> [offset |-> 0, scale |-> 1], frame |-> FALSE, moving |-> FALSE]
    PROVE  AtRest(v)
  <1>1. v \in Views
    BY DEF Views, Transforms
  <1>2. v.frame = FALSE /\ v.moving = FALSE /\ v.painted = v.camera /\ v.seen = v.painted
    OBVIOUS
  <1>3. QED
    BY <1>1, <1>2 DEF AtRest, InStep

LEMMA CameraStarts == ASSUME Camera!Init PROVE CameraInv
  <1> DEFINE start == [camera |-> Camera!At(0, 1), painted |-> Camera!At(0, 1), seen |-> Camera!At(0, 1),
                       frame |-> FALSE, moving |-> FALSE]
  <1>1. AtRest(start)
    BY StartIs DEF Camera!At
  <1>2. PICK p \in FirstShown, f \in Camera!Flow :
           /\ p # NoPage => p \in Camera!Page(f)
           /\ flow = f /\ page = p /\ aim = (IF p = NoPage THEN "content" ELSE "page")
           /\ view = IF p = NoPage THEN Camera!CenterContent(start, f) ELSE Camera!Entered(start, NoPage)
    BY DEF Camera!Init
  <1>3. captured = NoPage /\ drag = NoPage /\ inertia = 0 /\ moved = 0
    BY DEF Camera!Init
  <1> HIDE DEF start
  <1>4. view \in Views /\ InStep(view) /\ (aim = "page" => Aside(view, ActivePlace) \in -3 .. 3)
    <2>1. CASE p = NoPage
      <3>1. AtRest(view) /\ aim = "content"
        BY <1>1, <1>2, <2>1, CenterIs
      <3>2. QED
        BY <3>1 DEF AtRest
    <2>2. CASE p # NoPage
      <3>1. view = Camera!Entered(start, NoPage)
        BY <1>2, <2>2
      <3>2. QED
        BY <1>1, <3>1, EnteredIs
    <2>3. QED
      BY <2>1, <2>2
  <1>5. CameraTypes
    BY <1>2, <1>3, <1>4 DEF CameraTypes
  <1>6. QED
    BY <1>3, <1>4, <1>5, CenteredIs
    DEF CameraInv, MovedIsStill, Camera!CaptureIsNotStale, Camera!LeavingKeepsItsPlace

LEMMA RenderKeeps ==
    ASSUME CameraInv, Camera!Still, UNCHANGED <<drag, inertia>>,
           NEW f \in Camera!Flow, NEW p \in Camera!Page(f) \cup {NoPage},
           NEW capture \in Int \cup {NoPage}, Camera!Render(f, p, capture),
           page = NoPage /\ p = NoPage => capture = NoPage,
           page # NoPage /\ p = NoPage /\ f = flow => capture = Camera!Screen(view, ActivePlace)
    PROVE  CameraInv'
  <1> DEFINE entering == page = NoPage /\ p # NoPage
             leaving  == page # NoPage /\ p = NoPage
             change   == f # flow
             followed == IF entering THEN Camera!Entered(view, capture)
                         ELSE IF leaving THEN Camera!Left(view, page, f, capture)
                         ELSE view
             reset    == IF change /\ p = NoPage THEN Camera!SnapPan(followed, -view.camera.offset)
                         ELSE followed
             centers  == p = NoPage /\ (change \/ ~ centered)
  <1>1. /\ flow' = f /\ page' = p /\ captured' = Camera!Consumed(entering, leaving, capture)
        /\ view' = IF centers THEN Camera!CenterContent(reset, f) ELSE reset
        /\ aim' = IF entering THEN "page"
                  ELSE IF centers THEN "content"
                  ELSE IF leaving THEN "none"
                  ELSE aim
        /\ moved' = IF leaving /\ page \in Camera!Page(f)
                    THEN Camera!Screen(view', PagePlaces[f][page]) - Camera!Screen(view, ActivePlace)
                    ELSE 0
    BY DEF Camera!Render
  <1>2. AtRest(view) /\ view \in Views /\ InStep(view) /\ inertia = 0 /\ inertia' = 0 /\ drag' = drag
    BY StillIs DEF AtRest
  <1>3. entering => /\ followed \in Views /\ InStep(followed)
                    /\ Aside(followed, ActivePlace) \in -3 .. 3 /\ ~ centers /\ reset = followed
    <2> SUFFICES ASSUME entering PROVE /\ followed \in Views /\ InStep(followed)
                    /\ Aside(followed, ActivePlace) \in -3 .. 3 /\ ~ centers /\ reset = followed
      OBVIOUS
    <2>1. followed = Camera!Entered(view, capture) /\ ~ centers /\ reset = followed
      OBVIOUS
    <2> HIDE DEF followed, reset, centers
    <2>2. QED
      BY <1>2, <2>1, EnteredIs
  <1>4. ~ entering => AtRest(followed)
    <2>1. CASE ~ entering /\ leaving
      <3>1. followed = Camera!Left(view, page, f, capture)
        BY <2>1
      <3> HIDE DEF followed
      <3>2. QED
        BY <1>2, <3>1, LeftIs
    <2>2. CASE ~ entering /\ ~ leaving
      BY <1>2, <2>2
    <2>3. QED
      BY <2>1, <2>2
  <1>5. ~ entering => AtRest(reset)
    <2>1. -view.camera.offset \in Int
      BY <1>2 DEF Views, Transforms
    <2>2. ASSUME NEW v, AtRest(v) PROVE AtRest(Camera!SnapPan(v, -view.camera.offset))
      <3> DEFINE w == Camera!SnapPan(v, -view.camera.offset)
      <3>1. w \in Views /\ InStep(w) /\ w.frame = v.frame /\ w.moving = v.moving
        BY <2>1, <2>2, SnapPanIs DEF AtRest
      <3>2. QED
        BY <2>2, <3>1 DEF AtRest
    <2> HIDE DEF followed
    <2>3. QED
      BY <1>4, <2>2
  <1>6. ~ entering => AtRest(view')
    <2> HIDE DEF reset, entering, centers
    <2>1. QED
      BY <1>1, <1>5, CenterIs
  <1>7. view' \in Views /\ InStep(view') /\ (aim' = "page" => Aside(view', ActivePlace) \in -3 .. 3)
    <2>1. CASE entering
      <3>1. view' = followed
        BY <1>1, <1>3, <2>1
      <3> HIDE DEF followed
      <3>2. QED
        BY <1>3, <2>1, <3>1
    <2>2. CASE ~ entering
      <3>1. view' \in Views /\ InStep(view')
        BY <1>6, <2>2 DEF AtRest
      <3>2. ASSUME aim' = "page" PROVE Aside(view', ActivePlace) \in -3 .. 3
        <4>1. ~ centers /\ ~ leaving /\ aim = "page"
          BY <1>1, <2>2, <3>2
        <4>2. ~ (change /\ p = NoPage)
          BY <4>1
        <4>3. view' = view
          BY <1>1, <2>2, <4>1, <4>2
        <4>4. QED
          BY <4>1, <4>3, CenteredIs DEF CameraInv
      <3>3. QED
        BY <3>1, <3>2
    <2>3. QED
      BY <2>1, <2>2
  <1>8. captured' \in Int \cup {NoPage} /\ (page' = NoPage => captured' = NoPage)
    BY <1>1 DEF Camera!Consumed
  <1>9. moved' \in Int /\ (aim' # "content" => moved' = 0)
    <2>1. CASE leaving /\ page \in Camera!Page(f)
      <3>1. PagePlaces[f][page] \in Int /\ ActivePlace \in Int
        BY <2>1, PageOfAFlow, CameraConstants
      <3>2. Camera!Screen(view', PagePlaces[f][page]) \in Int /\ Camera!Screen(view, ActivePlace) \in Int
        BY <1>2, <1>7, <3>1, ScreenIs
      <3>3. moved' = Camera!Screen(view', PagePlaces[f][page]) - Camera!Screen(view, ActivePlace)
        BY <1>1, <2>1
      <3>4. ASSUME aim' # "content" PROVE moved' = 0
        <4>1. ~ change /\ ~ centers
          BY <1>1, <2>1, <3>4
        <4>2. view' = Camera!Left(view, page, f, capture)
          BY <1>1, <2>1, <4>1
        <4>3. capture = Camera!Screen(view, ActivePlace) /\ capture # NoPage
          BY <2>1, <3>2, <4>1, CameraConstants
        <4>4. Camera!Screen(view', PagePlaces[f][page]) = capture
          BY <1>2, <2>1, <4>2, <4>3, LeftIs
        <4>5. QED
          BY <3>2, <3>3, <4>3, <4>4
      <3>5. QED
        BY <3>2, <3>3, <3>4
    <2>2. CASE ~ (leaving /\ page \in Camera!Page(f))
      BY <1>1, <2>2
    <2>3. QED
      BY <2>1, <2>2
  <1>10. CameraTypes'
    BY <1>1, <1>2, <1>7, <1>8, <1>9 DEF CameraTypes, CameraInv
  <1>11. Camera!SelectedIsCentered'
    BY <1>7 DEF Camera!SelectedIsCentered, Camera!Tolerance, Aside
  <1>12. QED
    BY <1>2, <1>7, <1>8, <1>9, <1>10, <1>11
    DEF CameraInv, MovedIsStill, Camera!CaptureIsNotStale, Camera!LeavingKeepsItsPlace

LEMMA PannedIs ==
    ASSUME NEW v \in Views, InStep(v), NEW d \in Int
    PROVE  Camera!Pan(v, d) \in Views /\ InStep(Camera!Pan(v, d))
  <1> DEFINE u == [v EXCEPT !.camera.offset = @ + d]
             w == Camera!Pan(v, d)
  <1>1. v.camera.offset \in Int /\ v.camera.scale \in {1, 2}
    BY DEF Views, Transforms
  <1>2. u.camera \in Transforms
    BY <1>1 DEF Views, Transforms
  <1>3. w.camera = u.camera /\ w.painted = v.painted /\ w.seen = v.seen /\ w.moving = v.moving
    BY Zenon DEF Camera!Pan, Views
  <1>4. w.frame
    BY Zenon DEF Camera!Pan, Views
  <1>5. u \in Views
    BY <1>1 DEF Views, Transforms
  <1>6. w = [u EXCEPT !.frame = TRUE]
    BY DEF Camera!Pan
  <1> HIDE DEF u, w
  <1>7. w \in Views
    BY <1>5, <1>6 DEF Views
  <1>8. QED
    BY <1>3, <1>4, <1>7 DEF InStep, w

\* A view whose camera was set to something else, in the next frame.
Placed(v, offset, scale) == [v EXCEPT !.camera = Camera!At(offset, scale), !.frame = TRUE]

LEMMA PlacedIs ==
    ASSUME NEW v \in Views, InStep(v), NEW offset \in Int, NEW scale \in {1, 2}
    PROVE  Placed(v, offset, scale) \in Views /\ InStep(Placed(v, offset, scale))
  <1> DEFINE c == Camera!At(offset, scale)
             w == [v EXCEPT !.camera = c, !.frame = TRUE]
  <1>1. c \in Transforms
    BY DEF Camera!At, Transforms
  <1> HIDE DEF c
  <1>2. w.camera = c /\ w.painted = v.painted /\ w.seen = v.seen /\ w.moving = v.moving
    BY Zenon DEF Views
  <1>3. w.frame
    BY Zenon DEF Views
  <1>4. w \in Views
    BY <1>1 DEF Views
  <1> HIDE DEF w
  <1>5. InStep(w)
    BY <1>2, <1>3 DEF InStep
  <1>6. QED
    BY <1>4, <1>5 DEF w, c, Placed

LEMMA ClampIs == ASSUME NEW s \in Int PROVE Camera!Clamp(s) \in {1, 2}
  BY DEF Camera!Clamp

LEMMA ZoomedIs ==
    ASSUME NEW v \in Views, InStep(v), NEW x \in Int, NEW scale \in {1, 2}
    PROVE  Camera!ZoomAt(v, x, scale) \in Views /\ InStep(Camera!ZoomAt(v, x, scale))
  <1> DEFINE new    == Camera!Clamp(scale)
             offset == x - ((x - v.camera.offset) * new) \div v.camera.scale
  <1>1. new \in {1, 2}
    BY ClampIs
  <1>2. v.camera.offset \in Int /\ v.camera.scale \in {1, 2}
    BY DEF Views, Transforms
  <1>3. offset \in Int
    <2> HIDE DEF new
    <2>1. (x - v.camera.offset) * new \in Int
      BY <1>1, <1>2
    <2>2. ((x - v.camera.offset) * new) \div v.camera.scale \in Int
      BY <1>2, <2>1
    <2>3. QED
      BY <2>2
  <1>4. Camera!ZoomAt(v, x, scale) = Placed(v, offset, new)
    BY DEF Camera!ZoomAt, Placed
  <1> HIDE DEF offset, new
  <1>5. QED
    BY <1>1, <1>3, <1>4, PlacedIs

LEMMA FittedIs ==
    ASSUME NEW v \in Views, InStep(v), NEW width \in Nat
    PROVE  Camera!FitToBounds(v, width) \in Views /\ InStep(Camera!FitToBounds(v, width))
  <1> DEFINE new    == IF width * 2 + 2 * FitPadding <= 2 * Middle THEN 2 ELSE 1
             offset == Middle - (width * new) \div 2
  <1>1. new \in {1, 2}
    OBVIOUS
  <1>2. offset \in Int
    <2> HIDE DEF new
    <2>1. width * new \in Int
      BY <1>1
    <2>2. QED
      BY <2>1, CameraConstants
  <1>3. Camera!FitToBounds(v, width) = Placed(v, offset, new)
    BY DEF Camera!FitToBounds, Placed
  <1> HIDE DEF offset, new
  <1>4. QED
    BY <1>1, <1>2, <1>3, PlacedIs

\* What a gesture makes of the view, nothing being selected by it.
LEMMA MovesKeeps ==
    ASSUME CameraInv, NEW v \in Views, InStep(v), Camera!Moves(v),
           drag' \in Int \cup {NoPage}, inertia' \in Int
    PROVE  CameraInv'
  <1>1. view' = v /\ aim' = "none" /\ moved' = 0 /\ UNCHANGED <<flow, page, captured>>
    BY DEF Camera!Moves
  <1>2. CameraTypes'
    BY <1>1 DEF CameraInv, CameraTypes
  <1>3. Camera!SelectedIsCentered'
    BY <1>1 DEF Camera!SelectedIsCentered
  <1>4. QED
    BY <1>1, <1>2, <1>3
    DEF CameraInv, MovedIsStill, Camera!CaptureIsNotStale, Camera!LeavingKeepsItsPlace

LEMMA FrameKeeps == ASSUME CameraInv, Camera!Frame PROVE CameraInv'
  <1> DEFINE u      == Camera!Apply(view)
             v      == [u EXCEPT !.frame = FALSE]
             slower == PanStep * (inertia \div (2 * PanStep))
  <1>1. /\ inertia' = slower
        /\ view' = (IF slower # 0 THEN Camera!Pan(v, slower) ELSE v)
        /\ aim' = (IF slower # 0 THEN "none" ELSE aim)
        /\ UNCHANGED <<flow, page, captured, drag, moved>>
    BY DEF Camera!Frame
  <1>2. view \in Views /\ InStep(view) /\ inertia \in Int
    BY DEF CameraInv, CameraTypes
  <1>3. slower \in Int
    <2>1. PanStep \in Nat /\ 2 * PanStep \in Nat /\ 2 * PanStep > 0
      BY CameraConstants
    <2>2. inertia \div (2 * PanStep) \in Int
      BY <1>2, <2>1
    <2>3. QED
      BY <2>1, <2>2
  <1>4. /\ u \in Views /\ u.camera = view.camera /\ u.painted = view.camera
        /\ u.seen = (IF view.moving THEN view.seen ELSE view.camera) /\ u.moving = view.moving
    BY <1>2, ApplyIs
  <1> HIDE DEF u
  <1>5. v \in Views
    BY <1>4 DEF Views
  <1>6. v.camera = u.camera /\ v.painted = u.painted /\ v.seen = u.seen /\ v.moving = u.moving
    BY <1>4, Zenon DEF Views
  <1> HIDE DEF v, slower
  <1>7. InStep(v) /\ v.camera = view.camera
    BY <1>4, <1>6 DEF InStep
  <1>8. view' \in Views /\ InStep(view')
    BY <1>1, <1>3, <1>5, <1>7, PannedIs
  <1>9. CameraTypes'
    BY <1>1, <1>3, <1>8 DEF CameraInv, CameraTypes
  <1>10. Camera!SelectedIsCentered'
    <2> SUFFICES ASSUME aim' = "page" PROVE Aside(view', ActivePlace) \in -3 .. 3
      BY DEF Camera!SelectedIsCentered, Camera!Tolerance, Aside
    <2>1. view'.camera = view.camera /\ aim = "page"
      BY <1>1, <1>7
    <2>2. Aside(view', ActivePlace) = Aside(view, ActivePlace)
      BY <2>1 DEF Aside
    <2>3. QED
      BY <2>1, <2>2, CenteredIs DEF CameraInv
  <1>11. moved # 0 => slower = 0
    <2> SUFFICES ASSUME inertia = 0 PROVE slower = 0
      BY DEF CameraInv, MovedIsStill
    <2>1. PanStep \in Nat /\ 2 * PanStep \in Nat /\ 2 * PanStep > 0
      BY CameraConstants
    <2>2. 0 \div (2 * PanStep) = 0
      BY <2>1
    <2>3. QED
      BY <2>1, <2>2 DEF slower
  <1>12. QED
    BY <1>1, <1>8, <1>9, <1>10, <1>11
    DEF CameraInv, MovedIsStill, Camera!CaptureIsNotStale, Camera!LeavingKeepsItsPlace

LEMMA TransitionKeeps == ASSUME CameraInv, Camera!TransitionEnds PROVE CameraInv'
  <1> DEFINE v == [view EXCEPT !.moving = FALSE, !.seen = view.painted]
  <1>1. /\ view' = v /\ UNCHANGED <<flow, page, captured, drag, inertia, aim, moved>>
        /\ view \in Views /\ InStep(view)
    BY DEF Camera!TransitionEnds, CameraInv, CameraTypes
  <1>2. view.painted \in Transforms
    BY <1>1 DEF Views
  <1>3. v \in Views
    BY <1>1, <1>2 DEF Views
  <1>4. v.camera = view.camera /\ v.painted = view.painted /\ v.frame = view.frame /\ v.seen = view.painted
    BY <1>1, Zenon DEF Views
  <1> HIDE DEF v
  <1>5. InStep(v)
    BY <1>1, <1>4 DEF InStep
  <1>6. CameraTypes'
    BY <1>1, <1>3 DEF CameraInv, CameraTypes
  <1>7. Camera!SelectedIsCentered'
    BY <1>1, <1>4 DEF CameraInv, Camera!SelectedIsCentered
  <1>8. QED
    BY <1>1, <1>5, <1>6, <1>7
    DEF CameraInv, MovedIsStill, Camera!CaptureIsNotStale, Camera!LeavingKeepsItsPlace

LEMMA SelectKeeps == ASSUME CameraInv, NEW p \in Camera!Pages, Camera!Select(p) PROVE CameraInv'
  <1>1. Camera!Still /\ UNCHANGED <<drag, inertia>> /\ p \in Camera!Page(flow) /\ flow \in Camera!Flow
    BY DEF Camera!Select, Camera!Ready, CameraInv, CameraTypes
  <1>2. view \in Views /\ PagePlaces[flow][p] \in Int /\ ActivePlace \in Int /\ p # NoPage
    BY <1>1, PageOfAFlow, CameraConstants DEF CameraInv, CameraTypes
  <1>3. /\ Camera!Screen(view, PagePlaces[flow][p]) \in Int
        /\ Camera!Screen(view, ActivePlace) \in Int
    BY <1>2, ScreenIs
  <1>4. CASE page = NoPage
    <2>1. Camera!Render(flow, p, Camera!Screen(view, PagePlaces[flow][p]))
      BY <1>4 DEF Camera!Select
    <2>2. QED
      BY <1>1, <1>2, <1>3, <2>1, RenderKeeps
  <1>5. CASE page # NoPage
    <2>1. Camera!Render(flow, p, Camera!Screen(view, ActivePlace))
      BY <1>5 DEF Camera!Select, Camera!Here
    <2>2. QED
      BY <1>1, <1>2, <1>3, <2>1, RenderKeeps
  <1>6. QED
    BY <1>4, <1>5

LEMMA ClearKeeps == ASSUME CameraInv, Camera!Clear PROVE CameraInv'
  <1>1. /\ Camera!Still /\ UNCHANGED <<drag, inertia>> /\ page # NoPage /\ flow \in Camera!Flow
        /\ view \in Views
    BY DEF Camera!Clear, Camera!Ready, CameraInv, CameraTypes
  <1>2. Camera!Screen(view, ActivePlace) \in Int
    BY <1>1, ScreenIs, CameraConstants
  <1>3. Camera!Render(flow, NoPage, Camera!Screen(view, ActivePlace))
    BY <1>1 DEF Camera!Clear, Camera!Here
  <1>4. QED
    BY <1>1, <1>2, <1>3, RenderKeeps

LEMMA ShowKeeps == ASSUME CameraInv, NEW p \in Camera!Pages, Camera!Show(p) PROVE CameraInv'
  <1>1. /\ Camera!Still /\ UNCHANGED <<drag, inertia>> /\ p \in Camera!Page(flow) /\ flow \in Camera!Flow
        /\ captured \in Int \cup {NoPage} /\ Camera!Render(flow, p, captured)
    BY DEF Camera!Show, Camera!Ready, CameraInv, CameraTypes
  <1>2. p # NoPage
    BY <1>1, PageOfAFlow
  <1>3. QED
    BY <1>1, <1>2, RenderKeeps

LEMMA ChooseFlowKeeps ==
    ASSUME CameraInv, NEW f \in Camera!Flow, NEW p \in Camera!Page(f) \cup {NoPage},
           Camera!ChooseFlow(f, p)
    PROVE  CameraInv'
  <1>1. /\ Camera!Still /\ UNCHANGED <<drag, inertia>> /\ f # flow /\ Camera!Render(f, p, captured)
        /\ captured \in Int \cup {NoPage} /\ (page = NoPage => captured = NoPage)
    BY DEF Camera!ChooseFlow, Camera!Ready, CameraInv, CameraTypes, Camera!CaptureIsNotStale
  <1>2. QED
    BY <1>1, RenderKeeps

LEMMA GesturesKeep ==
    ASSUME CameraInv,
           \/ \E d \in {-PanStep, PanStep} : Camera!Wheel(d)
           \/ \E s \in Camera!Scales : Camera!Zoom(Middle, s) \/ Camera!Zoom(0, s)
           \/ Camera!FitToView \/ Camera!PointerDown \/ Camera!EndPan
           \/ \E d \in {0, PanStep} : Camera!PointerMove(d)
    PROVE  CameraInv'
  <1>1. /\ view \in Views /\ InStep(view) /\ drag \in Int \cup {NoPage} /\ inertia \in Int
        /\ flow \in Camera!Flow
    BY DEF CameraInv, CameraTypes
  <1>2. /\ PanStep \in Int /\ -PanStep \in Int /\ Middle \in Int /\ NoPage \notin Int
        /\ \A f \in Camera!Flow : PageWidths[f] \in Nat
    BY CameraConstants
  <1>3. CASE \E d \in {-PanStep, PanStep} : Camera!Wheel(d)
    <2> PICK d \in {-PanStep, PanStep} : Camera!Wheel(d)
      BY <1>3
    <2>1. Camera!Moves(Camera!Pan(view, d)) /\ UNCHANGED <<drag, inertia>> /\ d \in Int
      BY <1>2 DEF Camera!Wheel
    <2>2. QED
      BY <1>1, <2>1, PannedIs, MovesKeeps
  <1>4. CASE \E s \in Camera!Scales : Camera!Zoom(Middle, s) \/ Camera!Zoom(0, s)
    <2> PICK s \in {1, 2}, x \in {Middle, 0} : Camera!Zoom(x, s)
      BY <1>4 DEF Camera!Scales
    <2>1. Camera!Moves(Camera!ZoomAt(view, x, s)) /\ UNCHANGED <<drag, inertia>> /\ x \in Int
      BY <1>2 DEF Camera!Zoom
    <2>2. QED
      BY <1>1, <2>1, ZoomedIs, MovesKeeps
  <1>5. CASE Camera!FitToView
    <2>1. Camera!Moves(Camera!FitToBounds(view, PageWidths[flow])) /\ UNCHANGED <<drag, inertia>>
      BY <1>5 DEF Camera!FitToView
    <2>2. QED
      BY <1>1, <1>2, <2>1, FittedIs, MovesKeeps
  <1>6. CASE Camera!PointerDown
    BY <1>1, <1>6, MovesKeeps DEF Camera!PointerDown
  <1>7. CASE Camera!EndPan
    <2>1. drag # NoPage /\ Camera!Moves(view) /\ drag' = NoPage /\ inertia' = 2 * drag
      BY <1>7 DEF Camera!EndPan
    <2>2. inertia' \in Int
      BY <1>1, <2>1
    <2>3. QED
      BY <1>1, <2>1, <2>2, MovesKeeps
  <1>8. CASE \E d \in {0, PanStep} : Camera!PointerMove(d)
    <2> PICK d \in {0, PanStep} : Camera!PointerMove(d)
      BY <1>8
    <2>1. /\ Camera!Moves(Camera!Pan(view, d)) /\ drag' = d /\ inertia' = inertia /\ d \in Int
      BY <1>2 DEF Camera!PointerMove
    <2>2. QED
      BY <1>1, <2>1, PannedIs, MovesKeeps
  <1>9. QED
    BY <1>3, <1>4, <1>5, <1>6, <1>7, <1>8

LEMMA CameraSteps == CameraInv /\ [Camera!Next]_(Camera!vars) => CameraInv'
  <1> SUFFICES ASSUME CameraInv, [Camera!Next]_(Camera!vars) PROVE CameraInv'
    OBVIOUS
  <1>1. CASE \E p \in Camera!Pages : Camera!Select(p) \/ Camera!Show(p)
    BY <1>1, SelectKeeps, ShowKeeps
  <1>2. CASE Camera!Clear
    BY <1>2, ClearKeeps
  <1>3. CASE \E f \in Camera!Flow : \E p \in Camera!Page(f) \cup {NoPage} : Camera!ChooseFlow(f, p)
    BY <1>3, ChooseFlowKeeps
  <1>4. CASE \/ \E d \in {-PanStep, PanStep} : Camera!Wheel(d)
             \/ \E s \in Camera!Scales : Camera!Zoom(Middle, s) \/ Camera!Zoom(0, s)
             \/ Camera!FitToView \/ Camera!PointerDown \/ Camera!EndPan
             \/ \E d \in {0, PanStep} : Camera!PointerMove(d)
    BY <1>4, GesturesKeep
  <1>5. CASE Camera!Frame
    BY <1>5, FrameKeeps
  <1>6. CASE Camera!TransitionEnds
    BY <1>6, TransitionKeeps
  <1>7. CASE UNCHANGED Camera!vars
    BY <1>7 DEF Camera!vars, CameraInv, CameraTypes, InStep, MovedIsStill, Camera!SelectedIsCentered,
                Camera!CaptureIsNotStale, Camera!LeavingKeepsItsPlace
  <1>8. QED
    BY <1>1, <1>2, <1>3, <1>4, <1>5, <1>6, <1>7 DEF Camera!Next

LEMMA CameraIsSound == Camera!Spec => []CameraInv
  <1>1. Camera!Init => CameraInv
    BY CameraStarts
  <1>2. QED
    BY <1>1, CameraSteps, PTL DEF Camera!Spec

-----------------------------------------------------------------------------
(* Pages and rows, and the addresses of them *)

\* Numbers have a least one.
LEMMA Least ==
    ASSUME NEW S \in SUBSET Nat, S # {} PROVE \E m \in S : \A x \in S : m <= x
  <1> DEFINE T == {k \in Nat : \A x \in S : k <= x}
  <1>1. PICK n \in S : TRUE
    OBVIOUS
  <1>2. 0 \in T /\ T \in SUBSET Nat /\ n \in Nat /\ \A k \in T : k <= n
    BY <1>1
  <1>3. PICK m \in T : \A k \in T : m >= k
    <2> HIDE DEF T
    <2>1. QED
      BY <1>2, Greatest
  <1>4. m \in S
    <2> SUFFICES ASSUME m \notin S PROVE m + 1 \in T
      BY <1>3
    <2>1. m \in Nat /\ \A x \in S : m <= x /\ m # x /\ x \in Nat
      BY <1>3
    <2>2. QED
      BY <2>1
  <1>5. QED
    BY <1>4

LEMMA SelectionConstants ==
    /\ FirstFlow \in Chosen!Flow /\ Addresses \subseteq Seq(STRING)
    /\ Chosen!Flow \subseteq STRING /\ Chosen!Pages \subseteq STRING /\ Chosen!Row \subseteq STRING
    /\ Chosen!NoId \in STRING
    /\ Chosen!NoId \notin Chosen!Pages /\ Chosen!NoId \notin Chosen!Row
    /\ Chosen!Pages \cap Chosen!Row = {}
    /\ \A f \in Chosen!Flow : FlowPages[f] \in Seq(Chosen!Pages) /\ FlowPages[f] # << >>
    /\ \A f, g \in Chosen!Flow : \A i \in DOMAIN FlowPages[f], j \in DOMAIN FlowPages[g] :
          FlowPages[f][i] = FlowPages[g][j] => f = g /\ i = j
  BY ChosenAssumption DEF Chosen!SelectionAssumption

LEMMA PathConstants ==
    ASSUME NEW r \in Chosen!Row
    PROVE  /\ RowPaths[r] \in Seq(Chosen!Row) /\ RowPaths[r] # << >>
           /\ RowPaths[r][Len(RowPaths[r])] = r /\ RowPages[r] \in Chosen!Pages
           /\ \A i \in DOMAIN RowPaths[r] :
                 /\ RowPaths[RowPaths[r][i]] = SubSeq(RowPaths[r], 1, i)
                 /\ RowPages[RowPaths[r][i]] = RowPages[r]
  BY ChosenAssumption DEF Chosen!SelectionAssumption, Chosen!Last

\* Every flow has a page.
AllLive == \A f \in Chosen!Flow : Chosen!Live(f) # {}

LEMMA LiveIs ==
    ASSUME NEW f \in Chosen!Flow
    PROVE  \A p : p \in Chosen!Live(f) <=> p \notin removed /\ \E i \in DOMAIN FlowPages[f] : p = FlowPages[f][i]
  BY DEF Chosen!Live, Chosen!Range

LEMMA LiveIsAPage == ASSUME NEW f \in Chosen!Flow PROVE Chosen!Live(f) \subseteq Chosen!Pages
  BY DEF Chosen!Live, Chosen!Pages

\* The first page of a flow that is not in a set is one of the flow's.
LEMMA FirstIs ==
    ASSUME NEW f \in Chosen!Flow, NEW ps, NEW p \in Chosen!Range(FlowPages[f]), p \notin ps
    PROVE  Chosen!FirstBut(f, ps) \in Chosen!Range(FlowPages[f]) \ ps
  <1> DEFINE S == {i \in DOMAIN FlowPages[f] : FlowPages[f][i] \notin ps}
  <1>1. FlowPages[f] \in Seq(Chosen!Pages)
    BY SelectionConstants
  <1>2. S \in SUBSET Nat /\ S # {}
    BY <1>1 DEF Chosen!Range
  <1>3. PICK m \in S : \A n \in S : m <= n
    <2> HIDE DEF S
    <2>1. QED
      BY <1>2, Least
  <1>4. \E i \in DOMAIN FlowPages[f] :
           FlowPages[f][i] \notin ps /\ \A j \in DOMAIN FlowPages[f] : FlowPages[f][j] \notin ps => i <= j
    BY <1>3
  <1>5. PICK i \in DOMAIN FlowPages[f] :
           FlowPages[f][i] \notin ps /\ Chosen!FirstBut(f, ps) = FlowPages[f][i]
    BY <1>4 DEF Chosen!FirstBut
  <1>6. QED
    BY <1>5 DEF Chosen!Range

LEMMA FirstIsLive ==
    ASSUME AllLive, NEW f \in Chosen!Flow PROVE Chosen!FirstBut(f, removed) \in Chosen!Live(f)
  <1>1. PICK p : p \in Chosen!Live(f)
    BY DEF AllLive
  <1>2. QED
    BY <1>1, FirstIs DEF Chosen!Live

\* Rows opened one inside the other, all there.
Chained(p, rs) ==
    /\ rs \in Seq(Chosen!Row)
    /\ \A i \in 1 .. Len(rs) : rs[i] \in Chosen!On(p)
    /\ \A i \in 2 .. Len(rs) : Chosen!IsChild(rs[i - 1], rs[i])

\* What is inside a row that is there, and was not removed, is there.
LEMMA ChildIsThere ==
    ASSUME NEW p, NEW parent \in Chosen!On(p), NEW r, Chosen!IsChild(parent, r), r \notin removed
    PROVE  r \in Chosen!On(p)
  <1>1. /\ parent \in Chosen!Row /\ r \in Chosen!Row /\ RowPaths[r] = Append(RowPaths[parent], r)
        /\ RowPages[parent] = p /\ p \notin removed /\ Chosen!Range(RowPaths[parent]) \cap removed = {}
    BY DEF Chosen!On, Chosen!IsChild
  <1> DEFINE path == RowPaths[parent]
             n    == Len(path)
  <1>2. path \in Seq(Chosen!Row) /\ path # << >> /\ path[n] = parent
    BY <1>1, PathConstants
  <1>3. n \in Nat /\ n >= 1 /\ n \in DOMAIN RowPaths[r] /\ RowPaths[r][n] = parent
    BY <1>1, <1>2
  <1>4. RowPages[r] = p
    <2>1. RowPages[RowPaths[r][n]] = RowPages[r]
      BY <1>1, <1>3, PathConstants
    <2>2. QED
      BY <1>1, <1>3, <2>1
  <1>5. \A x \in Chosen!Range(RowPaths[r]) : x = r \/ x \in Chosen!Range(path)
    BY <1>1, <1>2 DEF Chosen!Range
  <1>6. QED
    BY <1>1, <1>4, <1>5 DEF Chosen!On

LEMMA ValidatedIs ==
    ASSUME NEW p, NEW segments \in Seq(STRING)
    PROVE  Chained(p, Chosen!Validated(p, segments))
  <1> DEFINE rs == Chosen!Validated(p, segments)
  <1>1. CASE segments = << >> \/ p = Chosen!NoId \/ segments[1] \notin Chosen!On(p)
    <2>1. rs = << >>
      BY <1>1 DEF Chosen!Validated
    <2> HIDE DEF rs
    <2>2. rs \in Seq(Chosen!Row) /\ Len(rs) = 0
      BY <2>1
    <2>3. Chained(p, rs)
      BY <2>2 DEF Chained
    <2>4. QED
      BY <2>3 DEF rs
  <1>2. CASE segments # << >> /\ p # Chosen!NoId /\ segments[1] \in Chosen!On(p)
    <2> DEFINE chains == {n \in 1 .. Len(segments) :
                             \A i \in 2 .. n : Chosen!IsChild(segments[i - 1], segments[i])
                                               /\ segments[i] \notin removed}
    <2>1. Len(segments) \in Nat /\ Len(segments) >= 1
      BY <1>2
    <2>2. 1 \in chains /\ chains \in SUBSET Nat /\ \A n \in chains : n <= Len(segments)
      BY <2>1
    <2>3. \E n \in chains : \A m \in chains : n >= m
      <3> HIDE DEF chains
      <3>1. QED
        BY <2>1, <2>2, Greatest
    <2>4. \E n \in chains : \A m \in chains : m <= n
      BY <2>2, <2>3
    <2>5. PICK n \in chains : rs = SubSeq(segments, 1, n)
      BY <1>2, <2>4 DEF Chosen!Validated
    <2>6. /\ n \in 1 .. Len(segments)
          /\ \A i \in 2 .. n : Chosen!IsChild(segments[i - 1], segments[i]) /\ segments[i] \notin removed
      OBVIOUS
    <2> HIDE DEF chains
    <2>7. \A i \in 1 .. n : segments[i] \in Chosen!On(p)
      <3> DEFINE S == {k \in 0 .. n : k = 0 \/ segments[k] \in Chosen!On(p)}
      <3>1. 0 \in S
        BY <2>6
      <3>2. ASSUME NEW k \in 0 .. n - 1, k \in S PROVE k + 1 \in S
        <4>1. k = 0 => segments[k + 1] \in Chosen!On(p)
          BY <1>2
        <4>2. ASSUME k # 0 PROVE segments[k + 1] \in Chosen!On(p)
          <5>1. k + 1 \in 2 .. n /\ (k + 1) - 1 = k
            BY <4>2, <2>6
          <5>2. Chosen!IsChild(segments[k], segments[k + 1]) /\ segments[k + 1] \notin removed
            BY <2>6, <5>1
          <5>3. segments[k] \in Chosen!On(p)
            BY <3>2, <4>2
          <5>4. QED
            BY <5>2, <5>3, ChildIsThere
        <4>3. QED
          BY <4>1, <4>2, <2>6
      <3> HIDE DEF S
      <3>3. 0 .. n \subseteq S
        <4>1. n \in Nat /\ \A k \in 0 .. n - 1 : k \in S => k + 1 \in S
          BY <2>1, <2>6, <3>2
        <4>2. QED
          BY <3>1, <4>1, CountingUp
      <3>4. QED
        BY <2>6, <3>3 DEF S
    <2>8. \A i \in 1 .. n : segments[i] \in Chosen!Row
      BY <2>7 DEF Chosen!On
    <2>9. rs \in Seq(Chosen!Row) /\ Len(rs) = n /\ \A i \in 1 .. n : rs[i] = segments[i]
      BY <2>5, <2>6, <2>8, SubSeqProperties
    <2> HIDE DEF rs
    <2>10. \A i \in 2 .. n : Chosen!IsChild(rs[i - 1], rs[i])
      BY <2>6, <2>9
    <2>11. QED
      BY <2>7, <2>9, <2>10 DEF Chained, rs
  <1>3. QED
    BY <1>1, <1>2

\* Rows that are there are taken as they are.
LEMMA ValidatedAsTheyAre ==
    ASSUME NEW p, p # Chosen!NoId, NEW rs, Chained(p, rs)
    PROVE  Chosen!Validated(p, rs) = rs
  <1>1. CASE rs = << >>
    BY <1>1 DEF Chosen!Validated
  <1>2. CASE rs # << >>
    <2> DEFINE n == Len(rs)
               chains == {m \in 1 .. n : \A i \in 2 .. m : Chosen!IsChild(rs[i - 1], rs[i]) /\ rs[i] \notin removed}
    <2>1. rs \in Seq(Chosen!Row) /\ n \in Nat /\ n >= 1
      BY <1>2 DEF Chained
    <2>2. rs[1] \in Chosen!On(p)
      BY <2>1 DEF Chained
    <2>3. \A i \in 1 .. n : rs[i] \notin removed
      <3> SUFFICES ASSUME NEW i \in 1 .. n PROVE rs[i] \notin removed
        OBVIOUS
      <3>1. rs[i] \in Chosen!Row /\ Chosen!Range(RowPaths[rs[i]]) \cap removed = {}
        BY DEF Chained, Chosen!On
      <3>2. rs[i] \in Chosen!Range(RowPaths[rs[i]])
        BY <3>1, PathConstants DEF Chosen!Range
      <3>3. QED
        BY <3>1, <3>2
    <2>4. n \in chains /\ \A m \in chains : m <= n /\ m \in Nat
      BY <2>1, <2>3 DEF Chained
    <2>5. Chosen!Validated(p, rs) = SubSeq(rs, 1, CHOOSE m \in chains : \A k \in chains : k <= m)
      BY <1>2, <2>2 DEF Chosen!Validated
    <2> HIDE DEF chains
    <2>6. (CHOOSE m \in chains : \A k \in chains : k <= m) = n
      BY <2>1, <2>4
    <2>7. QED
      BY <2>1, <2>5, <2>6, SubSeqFull
  <1>3. QED
    BY <1>1, <1>2

Selections == [flow : Chosen!Flow, page : Chosen!Pages \cup {Chosen!NoId},
               row : Chosen!Row \cup {Chosen!NoId}, stack : Seq(Chosen!Row)]

\* The rows that are open, the outermost first.
Opened(s) == IF s.row = Chosen!NoId THEN << >> ELSE << s.row >> \o s.stack

\* A selection of what is there.
Valid(s) ==
    /\ s \in Selections
    /\ s.page # Chosen!NoId => s.page \in Chosen!Live(s.flow)
    /\ s.page = Chosen!NoId => s.row = Chosen!NoId
    /\ s.row = Chosen!NoId => s.stack = << >>
    /\ Chained(s.page, Opened(s))

LEMMA SelectedIs ==
    ASSUME NEW f, NEW p, NEW r, NEW stack
    PROVE  LET s == Chosen!Selected(f, p, r, stack)
           IN  s.flow = f /\ s.page = p /\ s.row = r /\ s.stack = stack
  BY DEF Chosen!Selected

LEMMA SelectedType ==
    ASSUME NEW f \in Chosen!Flow, NEW p \in Chosen!Pages \cup {Chosen!NoId},
           NEW r \in Chosen!Row \cup {Chosen!NoId}, NEW stack \in Seq(Chosen!Row)
    PROVE  Chosen!Selected(f, p, r, stack) \in Selections
  BY DEF Chosen!Selected, Selections

LEMMA ItIsSelected ==
    ASSUME NEW s \in Selections
    PROVE  s = Chosen!Selected(s.flow, s.page, s.row, s.stack)
  BY DEF Chosen!Selected, Selections

LEMMA FieldsOf ==
    ASSUME NEW s \in Selections
    PROVE  /\ s.flow \in Chosen!Flow /\ s.page \in Chosen!Pages \cup {Chosen!NoId}
           /\ s.row \in Chosen!Row \cup {Chosen!NoId} /\ s.stack \in Seq(Chosen!Row)
  BY DEF Selections

LEMMA NothingChained == ASSUME NEW p PROVE Chained(p, << >>)
  <1>1. << >> \in Seq(Chosen!Row) /\ Len(<< >>) = 0
    OBVIOUS
  <1>2. QED
    BY <1>1 DEF Chained

\* A selection without rows, and one with rows.
LEMMA BareIsValid ==
    ASSUME NEW f \in Chosen!Flow, NEW p \in Chosen!Live(f) \cup {Chosen!NoId}
    PROVE  Valid(Chosen!Selected(f, p, Chosen!NoId, << >>))
  <1> DEFINE s == Chosen!Selected(f, p, Chosen!NoId, << >>)
  <1>1. s.flow = f /\ s.page = p /\ s.row = Chosen!NoId /\ s.stack = << >>
    BY SelectedIs
  <1>2. p \in Chosen!Pages \cup {Chosen!NoId} /\ << >> \in Seq(Chosen!Row)
    BY LiveIsAPage
  <1>3. s \in Selections
    BY <1>2, SelectedType
  <1> HIDE DEF s
  <1>4. Opened(s) = << >>
    BY <1>1 DEF Opened
  <1>5. Valid(s)
    BY <1>1, <1>3, <1>4, NothingChained DEF Valid
  <1>6. QED
    BY <1>5 DEF s

LEMMA RowsAreValid ==
    ASSUME NEW f \in Chosen!Flow, NEW p \in Chosen!Live(f), NEW rs, rs # << >>, Chained(p, rs)
    PROVE  /\ Valid(Chosen!Selected(f, p, Head(rs), Tail(rs)))
           /\ Opened(Chosen!Selected(f, p, Head(rs), Tail(rs))) = rs
  <1> DEFINE s == Chosen!Selected(f, p, Head(rs), Tail(rs))
  <1>1. s.flow = f /\ s.page = p /\ s.row = Head(rs) /\ s.stack = Tail(rs)
    BY Zenon DEF Chosen!Selected
  <1>2. rs \in Seq(Chosen!Row)
    BY DEF Chained
  <1>3. Head(rs) \in Chosen!Row /\ Tail(rs) \in Seq(Chosen!Row) /\ << Head(rs) >> \o Tail(rs) = rs
    BY <1>2
  <1>4. p \in Chosen!Pages /\ p # Chosen!NoId /\ Head(rs) # Chosen!NoId
    BY <1>3, LiveIsAPage, SelectionConstants
  <1>5. s \in Selections
    BY <1>3, <1>4, SelectedType
  <1> HIDE DEF s
  <1>6. Opened(s) = rs
    BY <1>1, <1>3, <1>4 DEF Opened
  <1>7. Valid(s)
    BY <1>1, <1>4, <1>5, <1>6 DEF Valid
  <1>8. QED
    BY <1>6, <1>7 DEF s

\* What an address names is there, or the first that is.
LEMMA ResolveIs ==
    ASSUME AllLive, NEW url \in Seq(STRING)
    PROVE  LET ids == Chosen!ResolveUrlIds(url)
           IN  ids[1] \in Chosen!Flow /\ ids[2] \in Chosen!Live(ids[1]) \cup {Chosen!NoId}
  <1> DEFINE ids == Chosen!ResolveUrlIds(url)
  <1>1. FirstFlow \in Chosen!Flow /\ Chosen!FirstBut(FirstFlow, removed) \in Chosen!Live(FirstFlow)
    BY SelectionConstants, FirstIsLive
  <1>2. CASE url = << >>
    <2>1. ids = << FirstFlow, Chosen!NoId >>
      BY <1>2 DEF Chosen!ResolveUrlIds
    <2>2. QED
      BY <1>1, <2>1
  <1>3. CASE url # << >> /\ url[1] \notin Chosen!Flow
    <2>1. ids = << FirstFlow, Chosen!FirstBut(FirstFlow, removed) >>
      BY <1>3 DEF Chosen!ResolveUrlIds
    <2>2. QED
      BY <1>1, <2>1
  <1>4. CASE url # << >> /\ url[1] \in Chosen!Flow
    <2> DEFINE p == IF Len(url) < 2 THEN Chosen!NoId
                    ELSE IF url[2] \in Chosen!Live(url[1]) THEN url[2]
                    ELSE Chosen!FirstBut(url[1], removed)
    <2>1. ids = << url[1], p >>
      BY <1>4 DEF Chosen!ResolveUrlIds
    <2>2. p \in Chosen!Live(url[1]) \cup {Chosen!NoId}
      BY <1>4, FirstIsLive
    <2> HIDE DEF p
    <2>3. QED
      BY <1>4, <2>1, <2>2
  <1>5. QED
    BY <1>2, <1>3, <1>4

LEMMA LoadIs ==
    ASSUME AllLive, NEW url \in Seq(STRING)
    PROVE  Valid(Chosen!Load(url))
  <1> DEFINE ids == Chosen!ResolveUrlIds(url)
             rs  == Chosen!Validated(ids[2], Chosen!Segments(url))
  <1>1. ids[1] \in Chosen!Flow /\ ids[2] \in Chosen!Live(ids[1]) \cup {Chosen!NoId}
    BY ResolveIs
  <1>2. Chosen!Segments(url) \in Seq(STRING)
    BY DEF Chosen!Segments
  <1>3. Chained(ids[2], rs)
    BY <1>2, ValidatedIs
  <1>4. ids[2] = Chosen!NoId => rs = << >>
    BY DEF Chosen!Validated
  <1>5. Chosen!Load(url) = IF rs = << >> THEN Chosen!Selected(ids[1], ids[2], Chosen!NoId, << >>)
                           ELSE Chosen!Selected(ids[1], ids[2], Head(rs), Tail(rs))
    BY DEF Chosen!Load
  <1> HIDE DEF ids, rs
  <1>6. CASE rs = << >>
    BY <1>1, <1>5, <1>6, BareIsValid
  <1>7. CASE rs # << >>
    BY <1>1, <1>3, <1>4, <1>5, <1>7, RowsAreValid
  <1>8. QED
    BY <1>6, <1>7

LEMMA SegmentsOf ==
    ASSUME NEW S, NEW f \in S, NEW p \in S, NEW rs \in Seq(S)
    PROVE  /\ << f, p >> \o rs \in Seq(S) /\ Len(<< f, p >> \o rs) >= 2
           /\ (<< f, p >> \o rs)[1] = f /\ (<< f, p >> \o rs)[2] = p
           /\ Chosen!Segments(<< f, p >> \o rs) = rs
  <1> DEFINE url == << f, p >> \o rs
  <1>1. << f, p >> \in Seq(S) /\ Len(<< f, p >>) = 2 /\ << f, p >>[1] = f /\ << f, p >>[2] = p
    OBVIOUS
  <1>2. /\ url \in Seq(S) /\ Len(url) = 2 + Len(rs) /\ Len(rs) \in Nat
        /\ \A i \in 1 .. Len(rs) : url[i + 2] = rs[i]
        /\ url[1] = f /\ url[2] = p
    BY <1>1
  <1> HIDE DEF url
  <1> DEFINE t == SubSeq(url, 3, Len(url))
  <1>3. t \in Seq(S) /\ Len(t) = Len(rs) /\ \A i \in 1 .. Len(rs) : t[i] = url[i + 2]
    <2>1. \A i \in 3 .. Len(url) : url[i] \in S
      BY <1>2
    <2>2. 3 \in Int /\ Len(url) \in Int
      BY <1>2
    <2>3. /\ t \in Seq(S) /\ Len(t) = (IF 3 <= Len(url) THEN Len(url) - 3 + 1 ELSE 0)
          /\ \A i \in 1 .. Len(url) - 3 + 1 : t[i] = url[3 + i - 1]
      BY <2>1, <2>2, SubSeqProperties
    <2> HIDE DEF t
    <2>4. Len(t) = Len(rs)
      BY <1>2, <2>3
    <2>5. ASSUME NEW i \in 1 .. Len(rs) PROVE t[i] = url[i + 2]
      <3>1. i \in 1 .. Len(url) - 3 + 1 /\ 3 + i - 1 = i + 2
        BY <1>2
      <3>2. QED
        BY <2>3, <3>1
    <2>6. QED
      BY <2>3, <2>4, <2>5
  <1>4. t = rs
    <2> HIDE DEF t
    <2>1. \A i \in 1 .. Len(t) : t[i] = rs[i]
      BY <1>2, <1>3
    <2>2. QED
      BY <1>3, <2>1, SeqEqual
  <1>5. Chosen!Segments(url) = rs
    BY <1>4 DEF Chosen!Segments
  <1>6. Len(url) >= 2
    BY <1>2
  <1>7. QED
    BY <1>2, <1>5, <1>6 DEF url

LEMMA RowsAreStrings == ASSUME NEW rs \in Seq(Chosen!Row) PROVE rs \in Seq(STRING)
  BY SelectionConstants, SeqMonotonic

LEMMA AddressOf ==
    ASSUME NEW s \in Selections
    PROVE  /\ Opened(s) \in Seq(STRING) /\ s.flow \in STRING /\ s.page \in STRING
           /\ Chosen!BuildUrl(s) = IF s.page = Chosen!NoId THEN << s.flow >>
                                   ELSE << s.flow, s.page >> \o Opened(s)
           /\ Chosen!BuildUrl(s) \in Seq(STRING)
  <1>1. /\ s.flow \in STRING /\ s.page \in STRING
        /\ s.row \in Chosen!Row \cup {Chosen!NoId} /\ s.stack \in Seq(Chosen!Row)
    BY FieldsOf, SelectionConstants
  <1>2. Opened(s) \in Seq(Chosen!Row)
    BY <1>1 DEF Opened
  <1>3. Opened(s) \in Seq(STRING)
    BY <1>2, RowsAreStrings
  <1>4. Chosen!BuildUrl(s) = IF s.page = Chosen!NoId THEN << s.flow >>
                             ELSE << s.flow, s.page >> \o Opened(s)
    BY DEF Chosen!BuildUrl, Opened
  <1>5. << s.flow >> \in Seq(STRING) /\ << s.flow, s.page >> \o Opened(s) \in Seq(STRING)
    BY <1>1, <1>3, SegmentsOf
  <1>6. QED
    BY <1>1, <1>3, <1>4, <1>5

\* The address of a selection names it.
LEMMA ResolveBack ==
    ASSUME NEW s, Valid(s)
    PROVE  /\ Chosen!ResolveUrlIds(Chosen!BuildUrl(s)) = << s.flow, s.page >>
           /\ Chosen!Validated(s.page, Chosen!Segments(Chosen!BuildUrl(s))) = Opened(s)
  <1> DEFINE url == Chosen!BuildUrl(s)
  <1>1. /\ s \in Selections /\ s.flow \in Chosen!Flow /\ Chained(s.page, Opened(s))
        /\ (s.page # Chosen!NoId => s.page \in Chosen!Live(s.flow))
    BY FieldsOf DEF Valid
  <1>2. /\ Opened(s) \in Seq(STRING) /\ s.flow \in STRING /\ s.page \in STRING
        /\ url = IF s.page = Chosen!NoId THEN << s.flow >> ELSE << s.flow, s.page >> \o Opened(s)
    BY <1>1, AddressOf
  <1> HIDE DEF url
  <1>3. CASE s.page = Chosen!NoId
    <2>1. url = << s.flow >>
      BY <1>2, <1>3
    <2>2. url # << >> /\ Len(url) = 1 /\ url[1] = s.flow
      BY <2>1
    <2>3. Chosen!ResolveUrlIds(url) = << s.flow, s.page >>
      BY <1>1, <1>3, <2>2 DEF Chosen!ResolveUrlIds
    <2>4. Chosen!Validated(s.page, Chosen!Segments(url)) = << >>
      BY <1>3 DEF Chosen!Validated
    <2>5. Opened(s) = << >>
      BY <1>3 DEF Valid, Opened
    <2>6. QED
      BY <2>3, <2>4, <2>5 DEF url
  <1>4. CASE s.page # Chosen!NoId
    <2>1. url = << s.flow, s.page >> \o Opened(s)
      BY <1>2, <1>4
    <2>2. /\ url \in Seq(STRING) /\ Len(url) >= 2 /\ url[1] = s.flow /\ url[2] = s.page
          /\ Chosen!Segments(url) = Opened(s)
      <3> DEFINE named == << s.flow, s.page >> \o Opened(s)
      <3>1. /\ named \in Seq(STRING) /\ Len(named) >= 2 /\ named[1] = s.flow /\ named[2] = s.page
            /\ Chosen!Segments(named) = Opened(s)
        BY <1>2, SegmentsOf
      <3>2. QED
        BY <2>1, <3>1
    <2>3. url # << >> /\ ~ (Len(url) < 2)
      BY <2>2
    <2>4. Chosen!ResolveUrlIds(url) = << s.flow, s.page >>
      BY <1>1, <1>4, <2>2, <2>3 DEF Chosen!ResolveUrlIds
    <2>5. Chosen!Validated(s.page, Opened(s)) = Opened(s)
      BY <1>1, <1>4, ValidatedAsTheyAre
    <2>6. QED
      BY <2>2, <2>4, <2>5 DEF url
  <1>5. QED
    BY <1>3, <1>4

LEMMA OpenedIs ==
    ASSUME NEW s, Valid(s)
    PROVE  /\ s.row = Chosen!NoId <=> Opened(s) = << >>
           /\ s.row = Chosen!NoId => s = Chosen!Selected(s.flow, s.page, Chosen!NoId, << >>)
           /\ s.row # Chosen!NoId => Head(Opened(s)) = s.row /\ Tail(Opened(s)) = s.stack
  <1>1. s \in Selections /\ s.stack \in Seq(Chosen!Row) /\ (s.row = Chosen!NoId => s.stack = << >>)
    BY FieldsOf DEF Valid
  <1>2. s = Chosen!Selected(s.flow, s.page, s.row, s.stack)
    BY <1>1, ItIsSelected
  <1>3. << s.row >> \o s.stack # << >> /\ Head(<< s.row >> \o s.stack) = s.row
        /\ Tail(<< s.row >> \o s.stack) = s.stack
    BY <1>1
  <1>4. QED
    BY <1>1, <1>2, <1>3 DEF Opened

LEMMA LoadBack == ASSUME NEW s, Valid(s) PROVE Chosen!Load(Chosen!BuildUrl(s)) = s
  <1> DEFINE url == Chosen!BuildUrl(s)
             ids == Chosen!ResolveUrlIds(url)
             rs  == Chosen!Validated(ids[2], Chosen!Segments(url))
  <1>1. ids[1] = s.flow /\ ids[2] = s.page /\ rs = Opened(s)
    BY ResolveBack
  <1>2. Chosen!Load(url) = IF rs = << >> THEN Chosen!Selected(ids[1], ids[2], Chosen!NoId, << >>)
                           ELSE Chosen!Selected(ids[1], ids[2], Head(rs), Tail(rs))
    BY DEF Chosen!Load
  <1> HIDE DEF ids, rs
  <1>3. s \in Selections
    BY DEF Valid
  <1>4. s = Chosen!Selected(s.flow, s.page, s.row, s.stack)
    BY <1>3, ItIsSelected
  <1>5. QED
    BY <1>1, <1>2, <1>4, OpenedIs

-----------------------------------------------------------------------------
(* Selecting *)

LEMMA OnIs ==
    ASSUME NEW r, NEW p
    PROVE  r \in Chosen!On(p) <=> /\ r \in Chosen!Row /\ RowPages[r] = p /\ p \notin removed
                                  /\ Chosen!Range(RowPaths[r]) \cap removed = {}
  BY DEF Chosen!On

\* Nothing but what it is: selections keep their types.
LEMMA SelectingType ==
    ASSUME NEW s \in Selections
    PROVE  /\ Chosen!Cleared(s) \in Selections
           /\ \A f \in Chosen!Flow : Chosen!SetActiveFlow(s, f) \in Selections
           /\ \A p \in Chosen!Pages : Chosen!SetActivePage(s, p) \in Selections
           /\ \A r, stack : stack \in Seq(Chosen!Row) => Chosen!SetActiveRow(s, r, stack) \in Selections
  <1>1. /\ s.flow \in Chosen!Flow /\ s.page \in Chosen!Pages \cup {Chosen!NoId}
        /\ s.row \in Chosen!Row \cup {Chosen!NoId} /\ s.stack \in Seq(Chosen!Row)
        /\ << >> \in Seq(Chosen!Row)
    BY FieldsOf
  <1>2. Chosen!Cleared(s) \in Selections
    BY <1>1, SelectedType DEF Chosen!Cleared
  <1>3. ASSUME NEW f \in Chosen!Flow PROVE Chosen!SetActiveFlow(s, f) \in Selections
    <2>1. [s EXCEPT !.flow = f].flow = f
      BY DEF Selections
    <2>2. Chosen!SetActiveFlow(s, f) = Chosen!Selected(f, Chosen!NoId, Chosen!NoId, << >>)
      BY <2>1 DEF Chosen!SetActiveFlow, Chosen!Cleared
    <2>3. QED
      BY <1>1, <2>2, SelectedType
  <1>4. ASSUME NEW p \in Chosen!Pages PROVE Chosen!SetActivePage(s, p) \in Selections
    <2>1. Chosen!Selected(s.flow, p, Chosen!NoId, << >>) \in Selections
      BY <1>1, SelectedType
    <2>2. QED
      BY <1>2, <2>1 DEF Chosen!SetActivePage
  <1>5. ASSUME NEW r, NEW stack, stack \in Seq(Chosen!Row)
        PROVE  Chosen!SetActiveRow(s, r, stack) \in Selections
    <2>1. ASSUME r \in Chosen!RowsOf(s.flow) PROVE Chosen!Selected(s.flow, RowPages[r], r, stack) \in Selections
      <3>1. r \in Chosen!Row
        BY <2>1 DEF Chosen!RowsOf, Chosen!On
      <3>2. RowPages[r] \in Chosen!Pages
        BY <3>1, PathConstants
      <3>3. QED
        BY <1>1, <1>5, <3>1, <3>2, SelectedType
    <2>2. QED
      BY <1>2, <2>1 DEF Chosen!SetActiveRow
  <1>6. QED
    BY <1>2, <1>3, <1>4, <1>5

LEMMA PopType ==
    ASSUME AllLive, NEW s \in Selections, NEW url \in Seq(STRING)
    PROVE  Chosen!PopState(s, url) \in Selections
  <1> DEFINE ids == Chosen!ResolveUrlIds(url)
             rs  == Chosen!Validated(ids[2], Chosen!Segments(url))
             to  == IF ids[1] # s.flow THEN Chosen!SetActiveFlow(s, ids[1]) ELSE s
  <1>1. ids[1] \in Chosen!Flow /\ ids[2] \in Chosen!Live(ids[1]) \cup {Chosen!NoId}
    BY ResolveIs
  <1>2. Chosen!Segments(url) \in Seq(STRING)
    BY DEF Chosen!Segments
  <1>3. rs \in Seq(Chosen!Row)
    BY <1>2, ValidatedIs DEF Chained
  <1>4. Chosen!PopState(s, url) = IF rs # << >> THEN Chosen!SetActiveRow(to, Head(rs), Tail(rs))
                                  ELSE IF ids[2] # Chosen!NoId THEN Chosen!SetActivePage(to, ids[2])
                                  ELSE to
    BY DEF Chosen!PopState
  <1> HIDE DEF ids, rs
  <1>5. to \in Selections
    BY <1>1, SelectingType
  <1> HIDE DEF to
  <1>6. CASE rs # << >>
    <2>1. Tail(rs) \in Seq(Chosen!Row)
      BY <1>3, <1>6
    <2>2. QED
      BY <1>4, <1>5, <1>6, <2>1, SelectingType
  <1>7. CASE rs = << >> /\ ids[2] # Chosen!NoId
    <2>1. ids[2] \in Chosen!Pages
      BY <1>1, <1>7, LiveIsAPage
    <2>2. QED
      BY <1>4, <1>5, <1>7, <2>1, SelectingType
  <1>8. CASE rs = << >> /\ ids[2] = Chosen!NoId
    BY <1>4, <1>5, <1>8
  <1>9. QED
    BY <1>6, <1>7, <1>8

\* What selects what is there selects what is there.
LEMMA ClearedIsValid == ASSUME NEW s, Valid(s) PROVE Valid(Chosen!Cleared(s))
  <1>1. s.flow \in Chosen!Flow
    BY FieldsOf DEF Valid
  <1>2. QED
    BY <1>1, BareIsValid DEF Chosen!Cleared

LEMMA FlowIsValid ==
    ASSUME NEW s, Valid(s), NEW f \in Chosen!Flow
    PROVE  /\ Chosen!SetActiveFlow(s, f) = Chosen!Selected(f, Chosen!NoId, Chosen!NoId, << >>)
           /\ Valid(Chosen!SetActiveFlow(s, f))
  <1>1. [s EXCEPT !.flow = f].flow = f
    BY DEF Selections, Valid
  <1>2. Chosen!SetActiveFlow(s, f) = Chosen!Selected(f, Chosen!NoId, Chosen!NoId, << >>)
    BY <1>1 DEF Chosen!SetActiveFlow, Chosen!Cleared
  <1>3. QED
    BY <1>2, BareIsValid

LEMMA PageIsValid ==
    ASSUME NEW s, Valid(s), NEW p \in Chosen!Live(s.flow)
    PROVE  Valid(Chosen!SetActivePage(s, p))
  <1>1. s.flow \in Chosen!Flow
    BY FieldsOf DEF Valid
  <1>2. Valid(Chosen!Selected(s.flow, p, Chosen!NoId, << >>))
    BY <1>1, BareIsValid
  <1>3. QED
    BY <1>2, ClearedIsValid DEF Chosen!SetActivePage

LEMMA RowIsValid ==
    ASSUME NEW s, Valid(s), NEW p \in Chosen!Live(s.flow), NEW rs, rs # << >>, Chained(p, rs)
    PROVE  Valid(Chosen!SetActiveRow(s, Head(rs), Tail(rs)))
  <1>1. s.flow \in Chosen!Flow
    BY FieldsOf DEF Valid
  <1>2. Valid(Chosen!Selected(s.flow, p, Head(rs), Tail(rs)))
    BY <1>1, RowsAreValid
  <1>3. Head(rs) \in Chosen!On(p)
    BY DEF Chained
  <1>4. RowPages[Head(rs)] = p
    BY <1>3 DEF Chosen!On
  <1>5. Valid(Chosen!Cleared(s))
    BY ClearedIsValid
  <1> DEFINE r == Head(rs)
             t == Tail(rs)
  <1> HIDE DEF r, t
  <1>6. Valid(Chosen!Selected(s.flow, p, r, t)) /\ RowPages[r] = p
    BY <1>2, <1>4 DEF r, t
  <1>7. Valid(Chosen!SetActiveRow(s, r, t))
    BY <1>5, <1>6 DEF Chosen!SetActiveRow
  <1>8. QED
    BY <1>7 DEF r, t

LEMMA ItselfIsThere == ASSUME NEW p, NEW r \in Chosen!On(p) PROVE r \notin removed
  <1>1. r \in Chosen!Row /\ Chosen!Range(RowPaths[r]) \cap removed = {}
    BY DEF Chosen!On
  <1>2. r \in Chosen!Range(RowPaths[r])
    BY <1>1, PathConstants DEF Chosen!Range
  <1>3. QED
    BY <1>1, <1>2

\* The rows above a row that is there, and it.
LEMMA PathIsChained ==
    ASSUME NEW p, NEW r \in Chosen!On(p)
    PROVE  RowPaths[r] # << >> /\ Chained(p, RowPaths[r])
  <1> DEFINE path == RowPaths[r]
  <1>1. r \in Chosen!Row /\ RowPages[r] = p /\ p \notin removed /\ Chosen!Range(path) \cap removed = {}
    BY DEF Chosen!On
  <1>2. /\ path \in Seq(Chosen!Row) /\ path # << >>
        /\ \A i \in 1 .. Len(path) : /\ RowPaths[path[i]] = SubSeq(path, 1, i)
                                     /\ RowPages[path[i]] = RowPages[r]
    BY <1>1, PathConstants
  <1> HIDE DEF path
  <1>3. ASSUME NEW i \in 1 .. Len(path) PROVE path[i] \in Chosen!On(p)
    <2>1. path[i] \in Chosen!Row /\ RowPages[path[i]] = p /\ RowPaths[path[i]] = SubSeq(path, 1, i)
      BY <1>1, <1>2
    <2>2. Chosen!Range(SubSeq(path, 1, i)) \subseteq Chosen!Range(path)
      BY <1>2 DEF Chosen!Range
    <2>3. QED
      BY <1>1, <2>1, <2>2 DEF Chosen!On
  <1>4. ASSUME NEW i \in 2 .. Len(path) PROVE Chosen!IsChild(path[i - 1], path[i])
    <2>1. i \in 1 .. Len(path) /\ i - 1 \in 1 .. Len(path)
      BY <1>2
    <2>2. path[i] \in Chosen!Row /\ RowPaths[path[i]] = SubSeq(path, 1, i)
          /\ RowPaths[path[i - 1]] = SubSeq(path, 1, i - 1)
      BY <1>2, <2>1
    <2>3. SubSeq(path, 1, i) = Append(SubSeq(path, 1, i - 1), path[i])
      BY <1>2, <2>1
    <2>4. QED
      BY <2>2, <2>3 DEF Chosen!IsChild
  <1>5. QED
    BY <1>2, <1>3, <1>4 DEF Chained, path

LEMMA ChainGrows ==
    ASSUME NEW p, NEW rs, rs # << >>, Chained(p, rs),
           NEW r, Chosen!IsChild(rs[Len(rs)], r), r \notin removed
    PROVE  Chained(p, Append(rs, r))
  <1> DEFINE w == Append(rs, r)
             n == Len(rs)
  <1>1. rs \in Seq(Chosen!Row) /\ n \in Nat /\ n >= 1 /\ r \in Chosen!Row
    BY DEF Chained, Chosen!IsChild
  <1>2. rs[n] \in Chosen!On(p)
    BY <1>1 DEF Chained
  <1>3. r \in Chosen!On(p)
    BY <1>2, ChildIsThere
  <1>4. w \in Seq(Chosen!Row) /\ Len(w) = n + 1 /\ w[n + 1] = r /\ \A i \in 1 .. n : w[i] = rs[i]
    BY <1>1
  <1> HIDE DEF w
  <1>5. \A i \in 1 .. Len(w) : w[i] \in Chosen!On(p)
    <2> SUFFICES ASSUME NEW i \in 1 .. Len(w) PROVE w[i] \in Chosen!On(p)
      OBVIOUS
    <2>1. CASE i = n + 1
      BY <1>3, <1>4, <2>1
    <2>2. CASE i # n + 1
      <3>1. i \in 1 .. n
        BY <1>1, <1>4, <2>2
      <3>2. QED
        BY <1>4, <3>1 DEF Chained
    <2>3. QED
      BY <2>1, <2>2
  <1>6. \A i \in 2 .. Len(w) : Chosen!IsChild(w[i - 1], w[i])
    <2> SUFFICES ASSUME NEW i \in 2 .. Len(w) PROVE Chosen!IsChild(w[i - 1], w[i])
      OBVIOUS
    <2>1. CASE i = n + 1
      <3>1. i - 1 = n /\ w[n] = rs[n]
        BY <1>1, <1>4, <2>1
      <3>2. QED
        BY <1>4, <2>1, <3>1
    <2>2. CASE i # n + 1
      <3>1. i \in 2 .. n /\ i - 1 \in 1 .. n /\ i \in 1 .. n
        BY <1>1, <1>4, <2>2
      <3>2. w[i - 1] = rs[i - 1] /\ w[i] = rs[i]
        BY <1>4, <3>1
      <3>3. QED
        BY <3>1, <3>2 DEF Chained
    <2>3. QED
      BY <2>1, <2>2
  <1>7. QED
    BY <1>4, <1>5, <1>6 DEF Chained, w

LEMMA ChainShrinks ==
    ASSUME NEW p, NEW rs, Chained(p, rs), NEW n \in 0 .. Len(rs)
    PROVE  Chained(p, SubSeq(rs, 1, n))
  <1> DEFINE w == SubSeq(rs, 1, n)
  <1>1. rs \in Seq(Chosen!Row) /\ Len(rs) \in Nat
    BY DEF Chained
  <1>2. w \in Seq(Chosen!Row) /\ Len(w) = n /\ \A i \in 1 .. n : w[i] = rs[i]
    BY <1>1
  <1> HIDE DEF w
  <1>3. \A i \in 1 .. Len(w) : w[i] \in Chosen!On(p)
    BY <1>1, <1>2 DEF Chained
  <1>4. \A i \in 2 .. Len(w) : Chosen!IsChild(w[i - 1], w[i])
    <2> SUFFICES ASSUME NEW i \in 2 .. Len(w) PROVE Chosen!IsChild(w[i - 1], w[i])
      OBVIOUS
    <2>1. i \in 2 .. Len(rs) /\ i - 1 \in 1 .. n /\ i \in 1 .. n
      BY <1>1, <1>2
    <2>2. w[i - 1] = rs[i - 1] /\ w[i] = rs[i]
      BY <1>2, <2>1
    <2>3. QED
      BY <2>1, <2>2 DEF Chained
  <1>5. QED
    BY <1>2, <1>3, <1>4 DEF Chained, w

LEMMA ClickIsValid ==
    ASSUME NEW s, Valid(s), NEW r \in Chosen!RowsOf(s.flow)
    PROVE  Valid(Chosen!ClickRow(s, r))
  <1>1. PICK p \in Chosen!Live(s.flow) : r \in Chosen!On(p)
    BY DEF Chosen!RowsOf
  <1>2. RowPaths[r] # << >> /\ Chained(p, RowPaths[r])
    BY <1>1, PathIsChained
  <1>3. QED
    BY <1>2, RowIsValid DEF Chosen!ClickRow

\* The stack of a selection, changed.
Stacked(s, stack) == [s EXCEPT !.stack = stack]

LEMMA StackedIs ==
    ASSUME NEW s \in Selections, NEW stack \in Seq(Chosen!Row)
    PROVE  LET w == Stacked(s, stack)
           IN  /\ w \in Selections /\ w.flow = s.flow /\ w.page = s.page /\ w.row = s.row
               /\ w.stack = stack
  BY DEF Stacked, Selections

LEMMA StackedIsValid ==
    ASSUME NEW s, Valid(s), s.row # Chosen!NoId, NEW stack \in Seq(Chosen!Row),
           Chained(s.page, << s.row >> \o stack)
    PROVE  Valid(Stacked(s, stack))
  <1> DEFINE w == Stacked(s, stack)
  <1>1. s \in Selections
    BY DEF Valid
  <1>2. /\ w \in Selections /\ w.flow = s.flow /\ w.page = s.page /\ w.row = s.row /\ w.stack = stack
    BY <1>1, StackedIs
  <1> HIDE DEF w
  <1>3. Opened(w) = << s.row >> \o stack
    BY <1>2 DEF Opened
  <1>4. Valid(w)
    BY <1>2, <1>3 DEF Valid
  <1>5. QED
    BY <1>4 DEF w

LEMMA ChildIsValid ==
    ASSUME NEW s, Valid(s), s.row # Chosen!NoId, NEW r \in Chosen!RowsOf(s.flow),
           Chosen!IsChild(Chosen!Last(<< s.row >> \o s.stack), r)
    PROVE  Valid([s EXCEPT !.stack = Append(@, r)])
  <1> DEFINE rs == << s.row >> \o s.stack
  <1>1. s \in Selections /\ s.row \in Chosen!Row /\ s.stack \in Seq(Chosen!Row) /\ r \in Chosen!Row
    BY FieldsOf DEF Valid, Chosen!IsChild
  <1>2. rs # << >> /\ rs \in Seq(Chosen!Row) /\ Append(s.stack, r) \in Seq(Chosen!Row)
    BY <1>1
  <1>3. Chained(s.page, rs)
    BY DEF Valid, Opened
  <1>4. r \notin removed
    BY ItselfIsThere DEF Chosen!RowsOf
  <1>5. Chosen!IsChild(rs[Len(rs)], r)
    BY DEF Chosen!Last
  <1>6. Append(rs, r) = << s.row >> \o Append(s.stack, r)
    BY <1>1
  <1> HIDE DEF rs
  <1>7. Chained(s.page, Append(rs, r))
    BY <1>2, <1>3, <1>4, <1>5, ChainGrows
  <1>8. Valid(Stacked(s, Append(s.stack, r)))
    BY <1>2, <1>6, <1>7, StackedIsValid
  <1>9. QED
    BY <1>8 DEF Stacked

LEMMA CrumbIsValid ==
    ASSUME NEW s, Valid(s), s.row # Chosen!NoId, NEW n \in Nat, n <= Len(s.stack)
    PROVE  Valid(Chosen!NavigateBreadcrumb(s, n))
  <1> DEFINE rs    == << s.row >> \o s.stack
             stack == SubSeq(s.stack, 1, n)
  <1>1. s \in Selections /\ s.row \in Chosen!Row /\ s.stack \in Seq(Chosen!Row)
    BY FieldsOf DEF Valid
  <1>2. /\ rs \in Seq(Chosen!Row) /\ stack \in Seq(Chosen!Row) /\ n + 1 \in 0 .. Len(rs)
        /\ SubSeq(rs, 1, n + 1) = << s.row >> \o stack
    BY <1>1
  <1>3. Chained(s.page, rs)
    BY DEF Valid, Opened
  <1> HIDE DEF rs
  <1>4. Chained(s.page, << s.row >> \o stack)
    BY <1>2, <1>3, ChainShrinks
  <1>5. Valid(Stacked(s, stack))
    BY <1>2, <1>4, StackedIsValid
  <1>6. Chosen!NavigateBreadcrumb(s, n) = Chosen!Cleared(s)
        \/ Chosen!NavigateBreadcrumb(s, n) = Stacked(s, stack)
    BY DEF Chosen!NavigateBreadcrumb, Stacked
  <1>7. QED
    BY <1>5, <1>6, ClearedIsValid

\* Going back to an address shows what it names.
LEMMA PopBack ==
    ASSUME NEW s, Valid(s), NEW t, Valid(t), Chosen!BuildUrl(t) # Chosen!BuildUrl(s),
           Chosen!PopState(s, Chosen!BuildUrl(t)) # s
    PROVE  Chosen!PopState(s, Chosen!BuildUrl(t)) = t
  <1> DEFINE url == Chosen!BuildUrl(t)
             ids == Chosen!ResolveUrlIds(url)
             rs  == Chosen!Validated(ids[2], Chosen!Segments(url))
             to  == IF ids[1] # s.flow THEN Chosen!SetActiveFlow(s, ids[1]) ELSE s
  <1>1. ids[1] = t.flow /\ ids[2] = t.page /\ rs = Opened(t)
    BY ResolveBack
  <1>2. Chosen!PopState(s, url) = IF rs # << >> THEN Chosen!SetActiveRow(to, Head(rs), Tail(rs))
                                  ELSE IF ids[2] # Chosen!NoId THEN Chosen!SetActivePage(to, ids[2])
                                  ELSE to
    BY DEF Chosen!PopState
  <1>3. to = IF t.flow # s.flow THEN Chosen!SetActiveFlow(s, t.flow) ELSE s
    BY <1>1
  <1>4. s # t
    OBVIOUS
  <1> HIDE DEF ids, rs, to, url
  <1>5. /\ s \in Selections /\ t \in Selections
        /\ s.flow \in Chosen!Flow /\ t.flow \in Chosen!Flow
        /\ s = Chosen!Selected(s.flow, s.page, s.row, s.stack)
        /\ t = Chosen!Selected(t.flow, t.page, t.row, t.stack)
    BY FieldsOf, ItIsSelected DEF Valid
  <1>6. /\ to.flow = t.flow
        /\ t.flow # s.flow => to.page = Chosen!NoId /\ to.row = Chosen!NoId
        /\ t.flow = s.flow => to = s
    <2>1. CASE t.flow # s.flow
      <3>1. to = Chosen!Selected(t.flow, Chosen!NoId, Chosen!NoId, << >>)
        BY <1>3, <1>5, <2>1, FlowIsValid
      <3>2. QED
        BY <2>1, <3>1, SelectedIs
    <2>2. CASE t.flow = s.flow
      BY <1>3, <2>2
    <2>3. QED
      BY <2>1, <2>2
  <1>7. CASE t.row # Chosen!NoId
    <2>1. rs # << >> /\ Head(rs) = t.row /\ Tail(rs) = t.stack
      BY <1>1, <1>7, OpenedIs
    <2>2. Chosen!PopState(s, url) = Chosen!SetActiveRow(to, t.row, t.stack)
      BY <1>2, <2>1
    <2>3. t.page # Chosen!NoId /\ t.page \in Chosen!Live(t.flow) /\ t.row \in Chosen!On(t.page)
      <3>1. t.page # Chosen!NoId /\ t.page \in Chosen!Live(t.flow) /\ Chained(t.page, Opened(t))
        BY <1>7 DEF Valid
      <3>2. Opened(t) = << t.row >> \o t.stack /\ t.stack \in Seq(Chosen!Row)
        BY <1>5, <1>7, FieldsOf DEF Opened
      <3>3. Len(Opened(t)) >= 1 /\ Opened(t)[1] = t.row
        BY <3>2
      <3>4. Opened(t) \in Seq(Chosen!Row) /\ \A i \in 1 .. Len(Opened(t)) : Opened(t)[i] \in Chosen!On(t.page)
        BY <3>1 DEF Chained
      <3>5. 1 \in 1 .. Len(Opened(t))
        BY <3>3, <3>4
      <3>6. QED
        BY <3>1, <3>3, <3>4, <3>5
    <2>4. t.row \in Chosen!RowsOf(to.flow) /\ RowPages[t.row] = t.page
      BY <1>6, <2>3 DEF Chosen!RowsOf, Chosen!On
    <2>5. ~ (to.row = t.row /\ to.stack = t.stack)
      <3> SUFFICES ASSUME to.row = t.row, to.stack = t.stack PROVE FALSE
        OBVIOUS
      <3>1. t.flow = s.flow /\ to = s
        BY <1>6, <1>7
      <3>2. Opened(s) = Opened(t)
        BY <3>1 DEF Opened
      <3>3. s.row \in Chosen!On(s.page)
        <4>1. Chained(s.page, Opened(s))
          BY DEF Valid
        <4>2. Opened(s) = << s.row >> \o s.stack /\ s.stack \in Seq(Chosen!Row)
          BY <1>5, <1>7, <3>1, FieldsOf DEF Opened
        <4>3. Opened(s)[1] = s.row /\ 1 \in 1 .. Len(Opened(s))
          BY <4>2
        <4>4. QED
          BY <4>1, <4>3 DEF Chained
      <3>4. s.page = t.page
        BY <2>4, <3>1, <3>3 DEF Chosen!On
      <3>5. QED
        BY <1>4, <1>5, <3>1, <3>4
    <2>6. Chosen!SetActiveRow(to, t.row, t.stack) = Chosen!Selected(to.flow, RowPages[t.row], t.row, t.stack)
      BY <2>4, <2>5 DEF Chosen!SetActiveRow
    <2>7. QED
      BY <1>5, <1>6, <2>2, <2>4, <2>6 DEF url
  <1>8. CASE t.row = Chosen!NoId /\ t.page # Chosen!NoId
    <2>1. rs = << >>
      BY <1>1, <1>8, OpenedIs
    <2>2. Chosen!PopState(s, url) = Chosen!SetActivePage(to, t.page)
      BY <1>1, <1>2, <1>8, <2>1
    <2>3. t.page \notin removed
      BY <1>8 DEF Valid, Chosen!Live
    <2>4. t = Chosen!Selected(t.flow, t.page, Chosen!NoId, << >>)
      BY <1>8, OpenedIs
    <2>5. ~ (to.page = t.page /\ to.row = Chosen!NoId /\ to.stack = << >>)
      <3> SUFFICES ASSUME to.page = t.page, to.row = Chosen!NoId, to.stack = << >> PROVE FALSE
        OBVIOUS
      <3>1. t.flow = s.flow /\ to = s
        BY <1>6, <1>8
      <3>2. QED
        BY <1>4, <1>5, <2>4, <3>1
    <2>6. QED
      BY <1>6, <2>2, <2>3, <2>4, <2>5 DEF Chosen!SetActivePage, url
  <1>9. CASE t.row = Chosen!NoId /\ t.page = Chosen!NoId
    <2>1. rs = << >>
      BY <1>1, <1>9, OpenedIs
    <2>2. Chosen!PopState(s, url) = to
      BY <1>1, <1>2, <1>9, <2>1
    <2>3. t = Chosen!Selected(t.flow, Chosen!NoId, Chosen!NoId, << >>)
      BY <1>9, OpenedIs
    <2>4. t.flow # s.flow
      BY <1>6, <2>2 DEF url
    <2>5. QED
      BY <1>3, <1>5, <2>2, <2>3, <2>4, FlowIsValid DEF url
  <1>10. QED
    BY <1>7, <1>8, <1>9 DEF Valid

-----------------------------------------------------------------------------
(* The history follows what is selected *)

\* A selection of what there is before anything is removed.
There(s) ==
    /\ s \in Selections
    /\ s.page # Chosen!NoId => s.page \in Chosen!Range(FlowPages[s.flow])
    /\ s.page = Chosen!NoId => s.row = Chosen!NoId
    /\ s.row = Chosen!NoId => s.stack = << >>
    /\ Opened(s) \in Seq(Chosen!Row)
    /\ \A i \in 1 .. Len(Opened(s)) : RowPages[Opened(s)[i]] = s.page
    /\ \A i \in 2 .. Len(Opened(s)) : Chosen!IsChild(Opened(s)[i - 1], Opened(s)[i])

LEMMA ThereIs == ASSUME removed = {} PROVE \A s : Valid(s) <=> There(s)
  <1>1. \A f : Chosen!Live(f) = Chosen!Range(FlowPages[f])
    BY DEF Chosen!Live
  <1>2. \A p, r : r \in Chosen!On(p) <=> r \in Chosen!Row /\ RowPages[r] = p
    BY DEF Chosen!On
  <1>3. ASSUME NEW s PROVE Valid(s) <=> There(s)
    <2>1. Opened(s) \in Seq(Chosen!Row) => \A i \in 1 .. Len(Opened(s)) : Opened(s)[i] \in Chosen!Row
      OBVIOUS
    <2> HIDE DEF Opened
    <2>2. Chained(s.page, Opened(s)) <=>
             /\ Opened(s) \in Seq(Chosen!Row)
             /\ \A i \in 1 .. Len(Opened(s)) : RowPages[Opened(s)[i]] = s.page
             /\ \A i \in 2 .. Len(Opened(s)) : Chosen!IsChild(Opened(s)[i - 1], Opened(s)[i])
      BY <1>2, <2>1 DEF Chained
    <2>3. QED
      BY <1>1, <2>2, Zenon DEF Valid, There
  <1>4. QED
    BY <1>3

SelectionTypes ==
    /\ selected \in Selections /\ visits \in Seq(Seq(STRING)) /\ entry \in 1 .. Len(visits)
    /\ popped \in BOOLEAN /\ AllLive

\* While nothing is removed, the address shown is that of the selection, and
\* every address of the history that of one.
Followed ==
    removed = {} =>
        /\ There(selected) /\ ~ popped /\ visits[entry] = Chosen!BuildUrl(selected)
        /\ \A e \in 1 .. Len(visits) : \E s : There(s) /\ visits[e] = Chosen!BuildUrl(s)

SelectionInv == SelectionTypes /\ Followed

LEMMA SelectionStarts == ASSUME Chosen!Init PROVE SelectionInv
  <1>1. /\ removed = {} /\ visits = << Chosen!BuildUrl(selected) >> /\ entry = 1 /\ popped = FALSE
    BY DEF Chosen!Init
  <1>2. PICK url \in Addresses : selected = Chosen!Load(url)
    BY DEF Chosen!Init
  <1>3. AllLive
    <2> SUFFICES ASSUME NEW f \in Chosen!Flow PROVE Chosen!Live(f) # {}
      BY DEF AllLive
    <2>1. FlowPages[f] \in Seq(Chosen!Pages) /\ FlowPages[f] # << >>
      BY SelectionConstants
    <2>2. 1 \in DOMAIN FlowPages[f]
      BY <2>1
    <2>3. FlowPages[f][1] \in Chosen!Live(f)
      BY <1>1, <2>2, LiveIs
    <2>4. QED
      BY <2>3
  <1>4. url \in Seq(STRING)
    BY SelectionConstants
  <1>5. Valid(selected)
    BY <1>2, <1>3, <1>4, LoadIs
  <1>6. There(selected) /\ selected \in Selections
    BY <1>1, <1>5, ThereIs DEF Valid
  <1>7. Chosen!BuildUrl(selected) \in Seq(STRING)
    BY <1>6, AddressOf
  <1> DEFINE U == Seq(STRING)
             b == Chosen!BuildUrl(selected)
  <1> HIDE DEF U, b
  <1>8. b \in U /\ visits = << b >>
    BY <1>1, <1>7 DEF U, b
  <1>9. visits \in Seq(U) /\ Len(visits) = 1 /\ visits[1] = b
    BY <1>8
  <1>10. SelectionTypes
    <2>1. popped \in BOOLEAN
      BY <1>1
    <2>2. entry \in 1 .. Len(visits)
      BY <1>1, <1>9
    <2>3. visits \in Seq(Seq(STRING))
      BY <1>9 DEF U
    <2>4. QED
      BY <1>3, <1>6, <2>1, <2>2, <2>3 DEF SelectionTypes
  <1>11. Followed
    <2>1. visits[entry] = Chosen!BuildUrl(selected)
      BY <1>1, <1>9 DEF b
    <2>2. \A e \in 1 .. Len(visits) : e = entry
      BY <1>1, <1>9
    <2>3. QED
      BY <1>1, <1>6, <2>1, <2>2 DEF Followed
  <1>12. QED
    BY <1>10, <1>11 DEF SelectionInv

\* What the effect does to the history.
LEMMA BecomesTypes ==
    ASSUME SelectionTypes, NEW s \in Selections, Chosen!Becomes(s), AllLive'
    PROVE  SelectionTypes'
  <1> DEFINE U   == Seq(STRING)
             url == Chosen!BuildUrl(s)
  <1>1. url \in U
    BY AddressOf
  <1>2. /\ visits \in Seq(U) /\ entry \in 1 .. Len(visits) /\ popped \in BOOLEAN
        /\ selected' = s /\ popped' = (popped /\ s = selected)
        /\ \/ UNCHANGED <<visits, entry>>
           \/ visits' = Append(SubSeq(visits, 1, entry), url) /\ entry' = entry + 1
    BY DEF SelectionTypes, Chosen!Becomes
  <1> HIDE DEF U, url
  <1>3. Len(visits) \in Nat /\ entry \in Nat
    BY <1>2
  <1>4. SubSeq(visits, 1, entry) \in Seq(U) /\ Len(SubSeq(visits, 1, entry)) = entry
    BY <1>2, <1>3
  <1> DEFINE w == SubSeq(visits, 1, entry)
  <1> HIDE DEF w
  <1>5. Append(w, url) \in Seq(U) /\ Len(Append(w, url)) = entry + 1
    BY <1>1, <1>3, <1>4 DEF w
  <1>6. visits' \in Seq(U) /\ entry' \in 1 .. Len(visits')
    <2>1. CASE UNCHANGED <<visits, entry>>
      BY <1>2, <2>1
    <2>2. CASE visits' = Append(w, url) /\ entry' = entry + 1
      BY <1>3, <1>5, <2>2
    <2>3. QED
      BY <1>2, <2>1, <2>2 DEF w
  <1>7. QED
    BY <1>2, <1>6 DEF SelectionTypes, U

LEMMA BecomesFollowed ==
    ASSUME SelectionInv, removed' = removed, NEW s \in Selections, Chosen!Becomes(s),
           removed = {} => Valid(s)
    PROVE  SelectionInv'
  <1> DEFINE U   == Seq(STRING)
             url == Chosen!BuildUrl(s)
  <1>1. AllLive'
    BY DEF SelectionInv, SelectionTypes, AllLive, Chosen!Live
  <1>2. SelectionTypes'
    BY <1>1, BecomesTypes DEF SelectionInv
  <1>3. ASSUME removed = {}
        PROVE  /\ There(selected)' /\ ~ popped' /\ (visits[entry] = Chosen!BuildUrl(selected))'
               /\ (\A e \in 1 .. Len(visits) : \E t : There(t) /\ visits[e] = Chosen!BuildUrl(t))'
    <2>1. There(s)
      BY <1>3, ThereIs
    <2>2. /\ visits \in Seq(U) /\ entry \in 1 .. Len(visits) /\ ~ popped
          /\ visits[entry] = Chosen!BuildUrl(selected)
          /\ \A e \in 1 .. Len(visits) : \E t : There(t) /\ visits[e] = Chosen!BuildUrl(t)
      BY <1>3 DEF SelectionInv, SelectionTypes, Followed
    <2>3. /\ selected' = s /\ popped' = (popped /\ s = selected)
          /\ IF s = selected \/ url = visits[entry]
             THEN UNCHANGED <<visits, entry>>
             ELSE visits' = Append(SubSeq(visits, 1, entry), url) /\ entry' = entry + 1
      BY <2>2 DEF Chosen!Becomes
    <2>4. There(selected') /\ ~ popped'
      BY <2>1, <2>2, <2>3
    <2>5. url \in U
      BY AddressOf
    <2> HIDE DEF U
    <2>6. CASE s = selected \/ url = visits[entry]
      <3>1. visits' = visits /\ entry' = entry /\ selected' = s /\ url = visits[entry]
        BY <2>2, <2>3, <2>6
      <3>2. visits'[entry'] = Chosen!BuildUrl(selected')
        BY <3>1
      <3>3. \A e \in 1 .. Len(visits') : \E t : There(t) /\ visits'[e] = Chosen!BuildUrl(t)
        BY <2>2, <3>1
      <3>4. QED
        BY <2>4, <3>2, <3>3
    <2>7. CASE ~ (s = selected \/ url = visits[entry])
      <3> DEFINE w == SubSeq(visits, 1, entry)
      <3>1. visits' = Append(w, url) /\ entry' = entry + 1 /\ selected' = s
        BY <2>3, <2>7
      <3>2. entry \in Nat /\ Len(visits) \in Nat
        BY <2>2
      <3>3. w \in Seq(U) /\ Len(w) = entry /\ \A e \in 1 .. entry : w[e] = visits[e]
        BY <2>2, <3>2
      <3> HIDE DEF w, url
      <3>4. /\ Len(visits') = entry + 1 /\ visits'[entry + 1] = url
            /\ \A e \in 1 .. entry : visits'[e] = w[e]
        BY <2>5, <3>1, <3>3
      <3>5. visits'[entry'] = Chosen!BuildUrl(selected')
        BY <3>1, <3>4 DEF url
      <3>6. ASSUME NEW e \in 1 .. Len(visits')
            PROVE  \E t : There(t) /\ visits'[e] = Chosen!BuildUrl(t)
        <4>1. CASE e = entry + 1
          BY <2>1, <3>4, <4>1 DEF url
        <4>2. CASE e # entry + 1
          <5>1. e \in 1 .. entry /\ e \in 1 .. Len(visits)
            BY <2>2, <3>2, <3>4, <4>2
          <5>2. visits'[e] = visits[e]
            BY <3>3, <3>4, <5>1
          <5>3. QED
            BY <2>2, <5>1, <5>2
        <4>3. QED
          BY <4>1, <4>2
      <3>7. QED
        BY <2>4, <3>5, <3>6
    <2>8. QED
      BY <2>6, <2>7
  <1>4. Followed'
    BY <1>3 DEF Followed
  <1>5. QED
    BY <1>2, <1>4 DEF SelectionInv

LEMMA AuthorKeeps ==
    ASSUME SelectionInv,
           \/ \E f \in Chosen!Flow : Chosen!ChooseFlow(f)
           \/ \E p \in Chosen!Pages : Chosen!ChoosePage(p)
           \/ \E r \in Chosen!Row : Chosen!ChooseRow(r) \/ Chosen!OpenChild(r)
           \/ \E n \in 0 .. 2 : Chosen!Breadcrumb(n)
           \/ Chosen!ClickOutside
    PROVE  SelectionInv'
  <1>1. /\ selected \in Selections /\ (removed = {} => Valid(selected))
        /\ selected.flow \in Chosen!Flow /\ selected.row \in Chosen!Row \cup {Chosen!NoId}
        /\ selected.stack \in Seq(Chosen!Row)
    BY ThereIs, FieldsOf DEF SelectionInv, SelectionTypes, Followed
  <1>2. CASE \E f \in Chosen!Flow : Chosen!ChooseFlow(f)
    <2> PICK f \in Chosen!Flow : Chosen!ChooseFlow(f)
      BY <1>2
    <2>1. removed' = removed /\ Chosen!Becomes(Chosen!SetActiveFlow(selected, f))
      BY DEF Chosen!ChooseFlow
    <2>2. Chosen!SetActiveFlow(selected, f) \in Selections
      BY <1>1, SelectingType
    <2>3. QED
      BY <1>1, <2>1, <2>2, FlowIsValid, BecomesFollowed
  <1>3. CASE \E p \in Chosen!Pages : Chosen!ChoosePage(p)
    <2> PICK p \in Chosen!Pages : Chosen!ChoosePage(p)
      BY <1>3
    <2>1. /\ removed' = removed /\ Chosen!Becomes(Chosen!SetActivePage(selected, p))
          /\ p \in Chosen!Live(selected.flow)
      BY DEF Chosen!ChoosePage
    <2>2. Chosen!SetActivePage(selected, p) \in Selections
      BY <1>1, SelectingType
    <2>3. QED
      BY <1>1, <2>1, <2>2, PageIsValid, BecomesFollowed
  <1>4. CASE \E r \in Chosen!Row : Chosen!ChooseRow(r)
    <2> PICK r \in Chosen!Row : Chosen!ChooseRow(r)
      BY <1>4
    <2>1. /\ removed' = removed /\ Chosen!Becomes(Chosen!ClickRow(selected, r))
          /\ r \in Chosen!RowsOf(selected.flow)
      BY DEF Chosen!ChooseRow
    <2>2. Tail(RowPaths[r]) \in Seq(Chosen!Row)
      BY PathConstants
    <2>3. Chosen!ClickRow(selected, r) \in Selections
      BY <1>1, <2>2, SelectingType DEF Chosen!ClickRow
    <2>4. QED
      BY <1>1, <2>1, <2>3, ClickIsValid, BecomesFollowed
  <1>5. CASE \E r \in Chosen!Row : Chosen!OpenChild(r)
    <2> PICK r \in Chosen!Row : Chosen!OpenChild(r)
      BY <1>5
    <2> DEFINE s == [selected EXCEPT !.stack = Append(@, r)]
    <2>1. /\ removed' = removed /\ Chosen!Becomes(s) /\ selected.row # Chosen!NoId
          /\ r \in Chosen!RowsOf(selected.flow)
          /\ Chosen!IsChild(Chosen!Last(<< selected.row >> \o selected.stack), r)
      BY DEF Chosen!OpenChild
    <2>2. s = Stacked(selected, Append(selected.stack, r))
      BY DEF Stacked
    <2>3. removed = {} => Valid(s)
      BY <1>1, <2>1, ChildIsValid
    <2> HIDE DEF s
    <2>4. s \in Selections
      <3>1. Append(selected.stack, r) \in Seq(Chosen!Row)
        BY <1>1
      <3>2. QED
        BY <1>1, <2>2, <3>1, StackedIs
    <2>5. QED
      BY <2>1, <2>3, <2>4, BecomesFollowed
  <1>6. CASE \E n \in 0 .. 2 : Chosen!Breadcrumb(n)
    <2> PICK n \in 0 .. 2 : Chosen!Breadcrumb(n)
      BY <1>6
    <2> DEFINE s == Chosen!NavigateBreadcrumb(selected, n)
    <2>1. /\ removed' = removed /\ Chosen!Becomes(s) /\ selected.row # Chosen!NoId
          /\ n <= Len(selected.stack) /\ n \in Nat
      BY DEF Chosen!Breadcrumb
    <2>2. s = Chosen!Cleared(selected) \/ s = Stacked(selected, SubSeq(selected.stack, 1, n))
      BY DEF Chosen!NavigateBreadcrumb, Stacked
    <2>3. removed = {} => Valid(s)
      BY <1>1, <2>1, CrumbIsValid
    <2> HIDE DEF s
    <2>4. s \in Selections
      <3>1. SubSeq(selected.stack, 1, n) \in Seq(Chosen!Row)
        BY <1>1, <2>1
      <3>2. QED
        BY <1>1, <2>2, <3>1, StackedIs, SelectingType
    <2>5. QED
      BY <2>1, <2>3, <2>4, BecomesFollowed
  <1>7. CASE Chosen!ClickOutside
    <2>1. removed' = removed /\ Chosen!Becomes(Chosen!Cleared(selected))
      BY <1>7 DEF Chosen!ClickOutside
    <2>2. Chosen!Cleared(selected) \in Selections
      BY <1>1, SelectingType
    <2>3. QED
      BY <1>1, <2>1, <2>2, ClearedIsValid, BecomesFollowed
  <1>8. QED
    BY <1>2, <1>3, <1>4, <1>5, <1>6, <1>7

LEMMA GoKeeps ==
    ASSUME SelectionInv, NEW e \in 1 .. Len(visits), Chosen!Go(e) PROVE SelectionInv'
  <1> DEFINE url   == visits[e]
             after == Chosen!PopState(selected, url)
  <1>1. /\ selected' = after /\ entry' = e /\ popped' = (after = selected)
        /\ after # selected /\ url # visits[entry] /\ visits' = visits /\ removed' = removed
    BY DEF Chosen!Go
  <1>2. selected \in Selections /\ visits \in Seq(Seq(STRING)) /\ AllLive
    BY DEF SelectionInv, SelectionTypes
  <1>3. url \in Seq(STRING)
    BY <1>2
  <1>4. after \in Selections
    BY <1>2, <1>3, PopType
  <1>5. AllLive'
    BY <1>1, <1>2 DEF AllLive, Chosen!Live
  <1> HIDE DEF after
  <1>6. SelectionTypes'
    BY <1>1, <1>2, <1>4, <1>5 DEF SelectionTypes
  <1>7. ASSUME removed = {} PROVE There(after) /\ ~ popped' /\ url = Chosen!BuildUrl(after)
    <2>1. There(selected) /\ visits[entry] = Chosen!BuildUrl(selected)
      BY <1>7 DEF SelectionInv, Followed
    <2>2. PICK t : There(t) /\ url = Chosen!BuildUrl(t)
      BY <1>7 DEF SelectionInv, Followed
    <2>3. Valid(selected) /\ Valid(t)
      BY <1>7, <2>1, <2>2, ThereIs
    <2>4. after = t
      BY <1>1, <2>1, <2>2, <2>3, PopBack DEF after
    <2>5. QED
      BY <1>1, <2>2, <2>4
  <1>8. Followed'
    <2> SUFFICES ASSUME removed = {}
                 PROVE  /\ There(selected') /\ ~ popped' /\ visits'[entry'] = Chosen!BuildUrl(selected')
                        /\ \A i \in 1 .. Len(visits') : \E s : There(s) /\ visits'[i] = Chosen!BuildUrl(s)
      BY <1>1 DEF Followed
    <2>1. \A i \in 1 .. Len(visits) : \E s : There(s) /\ visits[i] = Chosen!BuildUrl(s)
      BY DEF SelectionInv, Followed
    <2>2. QED
      BY <1>1, <1>7, <2>1
  <1>9. QED
    BY <1>6, <1>8 DEF SelectionInv

LEMMA FlowsAreApart ==
    \A f, g \in Chosen!Flow : f # g =>
        \A i \in DOMAIN FlowPages[f], j \in DOMAIN FlowPages[g] : FlowPages[f][i] # FlowPages[g][j]
  BY SelectionConstants

LEMMA RemovedPageKeeps ==
    ASSUME SelectionInv, NEW p \in Chosen!Pages, Chosen!RemovePage(p) PROVE SelectionInv'
  <1> DEFINE f == selected.flow
  <1>1. /\ p \in Chosen!Live(f) /\ Chosen!Live(f) # {p} /\ removed' = removed \cup {p}
        /\ IF selected.page = p
           THEN Chosen!Becomes(Chosen!Selected(f, Chosen!FirstBut(f, removed'), Chosen!NoId, << >>))
           ELSE Chosen!Becomes(selected)
    BY DEF Chosen!RemovePage
  <1>2. /\ SelectionTypes /\ selected \in Selections /\ f \in Chosen!Flow /\ AllLive
    BY FieldsOf DEF SelectionInv, SelectionTypes
  <1>3. PICK q : q \in Chosen!Live(f) /\ q # p
    BY <1>1
  <1>4. q \in Chosen!Range(FlowPages[f]) /\ q \notin removed'
    BY <1>1, <1>3 DEF Chosen!Live
  <1>5. AllLive'
    <2> SUFFICES ASSUME NEW g \in Chosen!Flow PROVE \E x : x \in Chosen!Range(FlowPages[g]) /\ x \notin removed'
      BY DEF AllLive, Chosen!Live
    <2>1. CASE g = f
      BY <1>4, <2>1
    <2>2. CASE g # f
      <3>1. PICK x : x \in Chosen!Range(FlowPages[g]) /\ x \notin removed
        BY <1>2 DEF AllLive, Chosen!Live
      <3>2. x # p
        <4>1. PICK i \in DOMAIN FlowPages[f] : p = FlowPages[f][i]
          BY <1>1, <1>2, LiveIs
        <4>2. PICK j \in DOMAIN FlowPages[g] : x = FlowPages[g][j]
          BY <3>1 DEF Chosen!Range
        <4>3. QED
          BY <1>2, <2>2, <4>1, <4>2, FlowsAreApart
      <3>3. QED
        BY <1>1, <3>1, <3>2
    <2>3. QED
      BY <2>1, <2>2
  <1>6. Chosen!FirstBut(f, removed') \in Chosen!Pages
    <2>1. Chosen!FirstBut(f, removed') \in Chosen!Range(FlowPages[f])
      BY <1>2, <1>4, FirstIs
    <2>2. QED
      BY <1>2, <2>1 DEF Chosen!Pages
  <1>7. Chosen!Selected(f, Chosen!FirstBut(f, removed'), Chosen!NoId, << >>) \in Selections
    <2>1. \A x \in Chosen!Pages : Chosen!Selected(f, x, Chosen!NoId, << >>) \in Selections
      <3>1. << >> \in Seq(Chosen!Row)
        OBVIOUS
      <3>2. QED
        BY <1>2, <3>1, SelectedType
    <2>2. QED
      BY <1>6, <2>1
  <1>8. SelectionTypes'
    BY <1>1, <1>2, <1>5, <1>7, BecomesTypes
  <1>9. QED
    BY <1>1, <1>8 DEF SelectionInv, Followed

LEMMA RemovedRowKeeps ==
    ASSUME SelectionInv, NEW r \in Chosen!Row, Chosen!RemoveRow(r) PROVE SelectionInv'
  <1>1. removed' = removed \cup {r} /\ Chosen!Becomes(selected)
    BY DEF Chosen!RemoveRow
  <1>2. SelectionTypes /\ selected \in Selections
    BY DEF SelectionInv, SelectionTypes
  <1>3. AllLive'
    <2> SUFFICES ASSUME NEW g \in Chosen!Flow PROVE \E x : x \in Chosen!Range(FlowPages[g]) /\ x \notin removed'
      BY DEF AllLive, Chosen!Live
    <2>1. PICK x : x \in Chosen!Live(g)
      BY <1>2 DEF SelectionTypes, AllLive
    <2>2. x \in Chosen!Pages
      BY <2>1, LiveIsAPage
    <2>3. x # r
      BY <2>2, SelectionConstants
    <2>4. QED
      BY <1>1, <2>1, <2>3 DEF Chosen!Live
  <1>4. SelectionTypes'
    BY <1>1, <1>2, <1>3, BecomesTypes
  <1>5. QED
    BY <1>1, <1>4 DEF SelectionInv, Followed

LEMMA SelectionSteps == SelectionInv /\ [Chosen!Next]_(Chosen!vars) => SelectionInv'
  <1> SUFFICES ASSUME SelectionInv, [Chosen!Next]_(Chosen!vars) PROVE SelectionInv'
    OBVIOUS
  <1>1. CASE \/ \E f \in Chosen!Flow : Chosen!ChooseFlow(f)
             \/ \E p \in Chosen!Pages : Chosen!ChoosePage(p)
             \/ \E r \in Chosen!Row : Chosen!ChooseRow(r) \/ Chosen!OpenChild(r)
             \/ \E n \in 0 .. 2 : Chosen!Breadcrumb(n)
             \/ Chosen!ClickOutside
    BY <1>1, AuthorKeeps
  <1>2. CASE \E e \in 1 .. Len(visits) : Chosen!Go(e)
    BY <1>2, GoKeeps
  <1>3. CASE \E p \in Chosen!Pages : Chosen!RemovePage(p)
    BY <1>3, RemovedPageKeeps
  <1>4. CASE \E r \in Chosen!Row : Chosen!RemoveRow(r)
    BY <1>4, RemovedRowKeeps
  <1>5. CASE UNCHANGED Chosen!vars
    BY <1>5 DEF Chosen!vars, SelectionInv, SelectionTypes, Followed, AllLive, Chosen!Live
  <1>6. QED
    BY <1>1, <1>2, <1>3, <1>4, <1>5 DEF Chosen!Next

LEMMA SelectionIsSound == Chosen!Spec => []SelectionInv
  <1>1. Chosen!Init => SelectionInv
    BY SelectionStarts
  <1>2. QED
    BY <1>1, SelectionSteps, PTL DEF Chosen!Spec

\* What every address of the history opens.
LEMMA LoadsAreThere == ASSUME SelectionInv PROVE Chosen!LoadsWhatIsThere
  <1> SUFFICES ASSUME NEW e \in 1 .. Len(visits), NEW s, s = Chosen!Load(visits[e])
               PROVE  /\ s.page # Chosen!NoId => s.page \in Chosen!Live(s.flow)
                      /\ s.row # Chosen!NoId  => s.row \in Chosen!On(s.page)
                      /\ \A i \in 1 .. Len(s.stack) :
                            /\ s.stack[i] \in Chosen!On(s.page)
                            /\ Chosen!IsChild((<< s.row >> \o s.stack)[i], s.stack[i])
    BY DEF Chosen!LoadsWhatIsThere
  <1>1. visits \in Seq(Seq(STRING)) /\ AllLive
    BY DEF SelectionInv, SelectionTypes
  <1>2. visits[e] \in Seq(STRING)
    BY <1>1
  <1>3. Valid(s)
    BY <1>1, <1>2, LoadIs
  <1>4. CASE s.row = Chosen!NoId
    BY <1>3, <1>4 DEF Valid
  <1>5. CASE s.row # Chosen!NoId
    <2> DEFINE rs == << s.row >> \o s.stack
    <2>1. s.stack \in Seq(Chosen!Row) /\ s.row \in Chosen!Row
      BY <1>3, <1>5, FieldsOf DEF Valid
    <2>2. /\ Len(rs) = Len(s.stack) + 1 /\ Len(s.stack) \in Nat /\ rs[1] = s.row
          /\ \A i \in 1 .. Len(s.stack) : rs[i + 1] = s.stack[i]
      BY <2>1
    <2>3. Chained(s.page, rs)
      BY <1>3, <1>5 DEF Valid, Opened
    <2> HIDE DEF rs
    <2>4. s.row \in Chosen!On(s.page)
      BY <2>2, <2>3 DEF Chained
    <2>5. ASSUME NEW i \in 1 .. Len(s.stack)
          PROVE  s.stack[i] \in Chosen!On(s.page) /\ Chosen!IsChild(rs[i], s.stack[i])
      <3>1. i + 1 \in 1 .. Len(rs) /\ i + 1 \in 2 .. Len(rs) /\ (i + 1) - 1 = i
        BY <2>2
      <3>2. rs[i + 1] \in Chosen!On(s.page) /\ Chosen!IsChild(rs[(i + 1) - 1], rs[i + 1])
        BY <2>3, <3>1 DEF Chained
      <3>3. QED
        BY <2>2, <3>1, <3>2
    <2>6. QED
      BY <1>3, <2>4, <2>5 DEF Valid, rs
  <1>6. QED
    BY <1>4, <1>5

(* What is selected and its address follow each other, and the camera follows   *)
(* what is selected: a reload shows the same while nothing is removed, every    *)
(* address of the history opens on what is there, and the view is what was      *)
(* asked for, with the page that became active in the middle, nothing captured  *)
(* left over and the page that was left where it was.                           *)
THEOREM SelectionFollows == Chosen!Spec /\ Camera!Spec => []SelectionIsFollowed
  <1>1. SelectionInv => (removed = {} => Chosen!ReloadShowsTheSame)
    <2> SUFFICES ASSUME SelectionInv, removed = {} PROVE Chosen!Load(visits[entry]) = selected
      BY DEF Chosen!ReloadShowsTheSame
    <2>1. There(selected) /\ visits[entry] = Chosen!BuildUrl(selected)
      BY DEF SelectionInv, Followed
    <2>2. Valid(selected)
      BY <2>1, ThereIs
    <2>3. QED
      BY <2>1, <2>2, LoadBack
  <1>2. CameraInv => /\ Camera!CameraIsPainted /\ Camera!SelectedIsCentered
                     /\ Camera!CaptureIsNotStale /\ Camera!LeavingKeepsItsPlace
    BY DEF CameraInv, InStep, Camera!CameraIsPainted
  <1>3. SelectionInv /\ CameraInv => SelectionIsFollowed
    BY <1>1, <1>2, LoadsAreThere DEF SelectionIsFollowed
  <1>4. QED
    BY <1>3, SelectionIsSound, CameraIsSound, PTL

================================================================================
