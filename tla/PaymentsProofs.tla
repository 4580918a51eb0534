--------------------------- MODULE PaymentsProofs ---------------------------
(***************************************************************************)
(* The payment procedures, for any number of requests in progress: the     *)
(* ledger is ordered, agrees with Stripe, and announces every move of      *)
(* money.                                                                  *)
(*                                                                         *)
(* A procedure acts on rows it read before an await.  The argument is that *)
(* what it read can only have become more true: rows are not removed, and  *)
(* a captured or canceled charge stays so.  The inductive invariant says   *)
(* of each request what it may rely on where it stands.                    *)
(***************************************************************************)
EXTENDS Payments, SequenceTheorems, TLAPS

\* What an event, on its way or being handled, says of Stripe.
EventIsTrue(event) ==
    /\ event \in {"capture_succeeded", "charge_completed"} => charge = "captured"
    /\ event = "canceled" => charge = "canceled"
    /\ event \in {"transfer_succeeded", "transfer_completed"} => transfers > 0

TrueEvents == {event \in Event : EventIsTrue(event)}

\* What a procedure relies on when it appends its own row, and when it calls
\* Stripe.
MayAppend(op) ==
    /\ op \in {"payment_capture", "payment_cancel"} => HasRow("charge", "intent")
    /\ op = "payment_cancel" => charge = "canceled"
    /\ op = "payment_transfer" => HasRow("charge", "succeeded")

MayCall(op) ==
    /\ op = "payment_cancel" => HasRow("charge", "intent")
    /\ op = "payment_capture" => HasRow("charge", "initiated")
    /\ op = "payment_transfer" => HasRow("transfer", "initiated")

RequestIsSound(q) ==
    /\ req[q].pc = "guard" => req[q].op \in {"payment_capture", "payment_cancel", "payment_transfer"}
    /\ req[q].pc = "append" => req[q].op # "webhook" /\ MayAppend(req[q].op)
    /\ req[q].pc = "stripe" => req[q].op # "webhook" /\ MayCall(req[q].op)
    /\ req[q].pc \in {"event", "record", "tell"} =>
          req[q].left # <<>> /\ req[q].left \in Seq(TrueEvents)
    /\ req[q].pc = "record" => Known(Head(req[q].left))
    /\ req[q].pc = "tell" => ledger[Appended(Head(req[q].left))] > 0

RequestsAreSound == \A q \in Request : RequestIsSound(q)
EventsAreTrue    == emitted \subseteq TrueEvents

LedgerOK == LedgerIsOrdered /\ LedgerIsTrue /\ MoneyIsAnnounced /\ FailuresAreRecorded

IInv == TypeOK /\ LedgerOK /\ RequestsAreSound /\ EventsAreTrue

-----------------------------------------------------------------------------
(* What only grows *)

Grown ==
    /\ \A entry \in Entry : ledger[entry] > 0 => ledger'[entry] > 0
    /\ charge \in {"captured", "canceled"} => charge' = charge
    /\ transfers > 0 => transfers' > 0

\* The rows the operators name are rows of the ledger.
LEMMA Entries ==
    /\ \A event \in Event : Appended(event) \in Entry /\ Requires(event) \subseteq Entry
    /\ \A op \in Op \ {"webhook"} : OwnRow(op) \in Entry
    /\ <<"charge", "intent">> \in Entry
    /\ <<"charge", "initiated">> \in Entry
    /\ <<"charge", "succeeded">> \in Entry
    /\ <<"transfer", "initiated">> \in Entry
  BY DEF Entry, Appended, Requires, OwnRow, Event, StripeEvent, Op

\* What an event says stays true.
LEMMA EventsStayTrue ==
    ASSUME Grown
    PROVE  /\ TrueEvents \subseteq TrueEvents'
           /\ \A left \in Seq(TrueEvents) : left \in Seq(TrueEvents')
  <1>1. TrueEvents \subseteq TrueEvents'
    BY DEF TrueEvents, EventIsTrue, Grown
  <1>2. QED
    BY <1>1

\* What a request that does not move relies on stays true.
LEMMA RequestStaysSound ==
    ASSUME TypeOK, Grown, NEW q \in Request, RequestIsSound(q), req'[q] = req[q]
    PROVE  RequestIsSound(q)'
  <1>1. req[q].pc \in {"event", "record", "tell"} =>
           req[q].left # <<>> /\ req[q].left \in Seq(TrueEvents')
    BY EventsStayTrue DEF RequestIsSound
  <1>2. req[q].pc = "append" => (MayAppend(req[q].op))'
    BY Entries DEF RequestIsSound, MayAppend, HasRow, Grown
  <1>3. req[q].pc = "stripe" => (MayCall(req[q].op))'
    BY Entries DEF RequestIsSound, MayCall, HasRow, Grown
  <1>4. req[q].pc \in {"record", "tell"} => Head(req[q].left) \in Event
    BY DEF RequestIsSound, TypeOK, Progress
  <1>5. req[q].pc = "record" => Known(Head(req[q].left))'
    BY <1>4, Entries DEF RequestIsSound, Known, HasRow, Grown
  <1>6. req[q].pc = "tell" => ledger'[Appended(Head(req[q].left))] > 0
    BY <1>4, Entries DEF RequestIsSound, Grown
  <1>7. QED
    BY <1>1, <1>2, <1>3, <1>5, <1>6 DEF RequestIsSound

-----------------------------------------------------------------------------
(* The moves of a request *)

\* What is left of a list of events with more than one.
LEMMA Rest ==
    ASSUME NEW S, NEW s \in Seq(S), s # <<>>, Len(s) # 1
    PROVE  Tail(s) \in Seq(S) /\ Tail(s) # <<>>
  <1>1. Len(s) \in Nat /\ Len(s) # 0
    BY EmptySeq, LenProperties
  <1>2. Tail(s) \in Seq(S) /\ Len(Tail(s)) = Len(s) - 1
    BY HeadTailProperties
  <1>3. Len(Tail(s)) # 0
    BY <1>1, <1>2
  <1>4. Len(<<>>) = 0
    OBVIOUS
  <1>5. QED
    BY <1>2, <1>3, <1>4

\* The request q is now r, and the others are where they were.
Becomes(q, r) == req' = [req EXCEPT ![q] = r]

\* A request that is moved keeps req well typed, and leaves the others sound.
LEMMA OneMoves ==
    ASSUME TypeOK, RequestsAreSound, Grown,
           NEW q \in Request, NEW r \in Progress, Becomes(q, r), RequestIsSound(q)'
    PROVE  req' \in [Request -> Progress] /\ RequestsAreSound'
  <1>1. req \in [Request -> Progress]
    BY DEF TypeOK
  <1>2. req' \in [Request -> Progress]
    BY <1>1 DEF Becomes
  <1>3. \A p \in Request : p # q => req'[p] = req[p]
    BY <1>1 DEF Becomes
  <1>4. \A p \in Request : RequestIsSound(p)'
    BY <1>3, RequestStaysSound DEF RequestsAreSound
  <1>5. QED
    BY <1>2, <1>4 DEF RequestsAreSound

\* A request that ends.
LEMMA OneEnds ==
    ASSUME TypeOK, RequestsAreSound, Grown, NEW q \in Request, Finish(q)
    PROVE  req' \in [Request -> Progress] /\ RequestsAreSound'
  <1>1. Idle \in Progress
    BY DEF Idle, Progress, Pc, Op
  <1>2. Becomes(q, Idle) /\ req'[q] = Idle
    BY DEF Finish, Becomes, TypeOK
  <1>3. RequestIsSound(q)'
    BY <1>2 DEF RequestIsSound, Idle
  <1>4. QED
    BY <1>1, <1>2, <1>3, OneMoves

\* A request that goes on to pc.
LEMMA OneGoes ==
    ASSUME TypeOK, RequestsAreSound, Grown, NEW q \in Request, NEW pc \in Pc, Goto(q, pc),
           [req[q] EXCEPT !.pc = pc] = req'[q] => RequestIsSound(q)'
    PROVE  req' \in [Request -> Progress] /\ RequestsAreSound'
  <1> DEFINE r == [req[q] EXCEPT !.pc = pc]
  <1>1. req[q] \in Progress
    BY DEF TypeOK
  <1>2. r \in Progress
    BY <1>1 DEF Progress
  <1>3. Becomes(q, r) /\ req'[q] = r
    BY DEF Goto, Becomes, TypeOK
  <1>4. QED
    BY <1>2, <1>3, OneMoves

\* A request that is done with an event.
LEMMA OneAdvances ==
    ASSUME TypeOK, RequestsAreSound, Grown, NEW q \in Request,
           req[q].pc \in {"event", "record", "tell"}, NextEvent(q)
    PROVE  req' \in [Request -> Progress] /\ RequestsAreSound'
  <1> DEFINE left == req[q].left
             r == [req[q] EXCEPT !.pc = "event", !.left = Tail(left)]
  <1>1. req[q] \in Progress /\ left \in Seq(Event) /\ left # <<>>
    BY DEF TypeOK, Progress, RequestsAreSound, RequestIsSound
  <1>2. left \in Seq(TrueEvents')
    BY EventsStayTrue DEF RequestsAreSound, RequestIsSound
  <1>3. CASE Len(left) = 1
    BY <1>3, OneEnds DEF NextEvent
  <1>4. CASE Len(left) # 1
    <2>1. Tail(left) \in Seq(Event) /\ Tail(left) # <<>> /\ Tail(left) \in Seq(TrueEvents')
      BY <1>1, <1>2, <1>4, Rest
    <2>2. r \in Progress
      BY <1>1, <2>1 DEF Progress, Pc
    <2>3. Becomes(q, r) /\ req'[q] = r
      BY <1>4 DEF NextEvent, Becomes, TypeOK
    <2>4. req'[q].pc = "event" /\ req'[q].left = Tail(left)
      BY <1>1, <2>3 DEF Progress
    <2>5. RequestIsSound(q)'
      <3> HIDE DEF left, r
      <3>1. QED
        BY <2>1, <2>4 DEF RequestIsSound
    <2>6. QED
      BY <2>2, <2>3, <2>5, OneMoves
  <1>5. QED
    BY <1>3, <1>4

-----------------------------------------------------------------------------
(* The moves of the ledger and of Stripe *)

\* The part of the invariant that is not about the requests.
DataOK ==
    /\ ledger \in [Entry -> Tally]
    /\ charge \in {"none", "authorized", "captured", "canceled"}
    /\ transfers \in Tally
    /\ emitted \subseteq StripeEvent
    /\ owed \subseteq emitted
    /\ messages \in [Failure -> Tally]
    /\ LedgerOK
    /\ EventsAreTrue

LEMMA Parts == IInv <=> DataOK /\ req \in [Request -> Progress] /\ RequestsAreSound
  BY DEF IInv, DataOK, TypeOK

LEMMA Together ==
    ASSUME DataOK', req' \in [Request -> Progress], RequestsAreSound'
    PROVE  IInv'
  BY DEF IInv, DataOK, TypeOK

\* A tally goes up.
LEMMA OneMoreType ==
    ASSUME NEW n \in Tally
    PROVE  OneMore(n) \in Tally /\ OneMore(n) > 0
  BY TallyAssumption DEF OneMore, Tally

\* A step that at most acknowledges an event.
LEMMA Quiet ==
    ASSUME DataOK, owed' \subseteq owed, UNCHANGED <<ledger, charge, transfers, emitted, messages>>
    PROVE  DataOK' /\ Grown
  <1>1. Grown
    BY DEF Grown
  <1>2. LedgerOK'
    BY DEF DataOK, LedgerOK, LedgerIsOrdered, LedgerIsTrue, MoneyIsAnnounced, FailuresAreRecorded, HasRow
  <1>3. EventsAreTrue'
    BY <1>1, EventsStayTrue DEF DataOK, EventsAreTrue
  <1>4. QED
    BY <1>1, <1>2, <1>3 DEF DataOK

\* What must hold for a row to be appended.
MayAdd(entry) ==
    /\ entry # <<"charge", "intent">> => HasRow("charge", "intent")
    /\ entry \in {<<"charge", "succeeded">>, <<"charge", "failed">>} => HasRow("charge", "initiated")
    /\ entry \in {<<"charge", "completed">>, <<"transfer", "initiated">>} => HasRow("charge", "succeeded")
    /\ entry \in {<<"transfer", "succeeded">>, <<"transfer", "failed">>} => HasRow("transfer", "initiated")
    /\ entry = <<"transfer", "completed">> => HasRow("transfer", "succeeded")
    /\ entry = <<"charge", "succeeded">> => charge = "captured"
    /\ entry = <<"charge", "canceled">> => charge = "canceled"
    /\ entry = <<"transfer", "succeeded">> => transfers > 0

LEMMA RowAdded ==
    ASSUME DataOK, NEW entry \in Entry, AddRow(entry), MayAdd(entry),
           owed' \subseteq owed, UNCHANGED <<charge, transfers, emitted, messages>>
    PROVE  DataOK' /\ Grown /\ ledger'[entry] > 0
  <1>1. \A e \in Entry : ledger[e] \in Tally /\ OneMore(ledger[e]) \in Tally /\ OneMore(ledger[e]) > 0
    BY OneMoreType DEF DataOK
  <1>2. /\ ledger' \in [Entry -> Tally]
        /\ ledger'[entry] > 0
        /\ \A e \in Entry : e # entry => ledger'[e] = ledger[e]
    BY <1>1 DEF AddRow, DataOK
  <1>3. Grown
    BY <1>2 DEF Grown
  <1>4. \A e \in Entry : ledger'[e] > 0 => ledger[e] > 0 \/ e = entry
    BY <1>2
  <1>5. \A status \in {"intent", "initiated", "succeeded", "failed", "completed", "canceled"} :
           <<"charge", status>> \in Entry
    BY DEF Entry
  <1>6. \A status \in {"initiated", "succeeded", "failed", "completed"} : <<"transfer", status>> \in Entry
    BY DEF Entry
  <1>7. LedgerIsOrdered'
    BY <1>3, <1>4, <1>5, <1>6 DEF LedgerIsOrdered, MayAdd, HasRow, Grown, DataOK, LedgerOK
  <1>8. LedgerIsTrue' /\ MoneyIsAnnounced' /\ FailuresAreRecorded'
    BY <1>3, <1>4, <1>5, <1>6
       DEF LedgerIsTrue, MoneyIsAnnounced, FailuresAreRecorded, MayAdd, HasRow, Grown, DataOK, LedgerOK
  <1>9. EventsAreTrue'
    BY <1>3, EventsStayTrue DEF DataOK, EventsAreTrue
  <1>10. QED
    BY <1>2, <1>3, <1>7, <1>8, <1>9 DEF DataOK, LedgerOK

\* Stripe moves: what the ledger says of it must stay true.
LEMMA StripeMoved ==
    ASSUME DataOK, NEW events \in SUBSET StripeEvent, Emit(events), UNCHANGED <<ledger, messages>>,
           charge' \in {"none", "authorized", "captured", "canceled"},
           transfers' \in Tally,
           Grown,
           charge' = "captured" => HasRow("charge", "initiated"),
           transfers' > 0 => HasRow("transfer", "initiated"),
           \A event \in events : EventIsTrue(event)'
    PROVE  DataOK'
  <1>1. LedgerIsOrdered' /\ FailuresAreRecorded'
    BY DEF LedgerIsOrdered, FailuresAreRecorded, HasRow, DataOK, LedgerOK
  <1>2. LedgerIsTrue'
    BY DEF LedgerIsTrue, HasRow, DataOK, LedgerOK, Grown
  <1>3. transfers' > 0 => charge' = "captured"
    BY Entries DEF LedgerIsOrdered, LedgerIsTrue, HasRow, DataOK, LedgerOK, Grown
  <1>4. MoneyIsAnnounced'
    BY <1>3 DEF MoneyIsAnnounced, HasRow
  <1>5. events \subseteq TrueEvents'
    BY DEF TrueEvents, Event
  <1>6. EventsAreTrue'
    BY <1>5, EventsStayTrue DEF EventsAreTrue, Emit, DataOK
  <1>7. QED
    BY <1>1, <1>2, <1>4, <1>6 DEF DataOK, LedgerOK, Emit

-----------------------------------------------------------------------------
(* The actions *)

LEMMA BeginOK ==
    ASSUME IInv, NEW q \in Request, Begin(q)
    PROVE  IInv'
  <1>1. DataOK' /\ Grown
    BY Quiet, Parts DEF Begin
  <1>2. PICK op \in Op \ {"webhook"} :
           req' = [req EXCEPT ![q].pc = IF op = "payment_intent" THEN "stripe" ELSE "guard",
                              ![q].op = op]
    BY DEF Begin
  <1> DEFINE pc == IF op = "payment_intent" THEN "stripe" ELSE "guard"
             r == [req[q] EXCEPT !.pc = pc, !.op = op]
  <1>3. req[q] \in Progress /\ pc \in Pc
    BY DEF IInv, TypeOK, Pc
  <1>4. r \in Progress
    BY <1>3 DEF Progress
  <1>5. Becomes(q, r) /\ req'[q] = r
    BY <1>2 DEF Becomes, IInv, TypeOK
  <1>6. req'[q].pc = pc /\ req'[q].op = op
    BY <1>3, <1>5 DEF Progress
  <1>7. RequestIsSound(q)'
    <2>1. CASE op = "payment_intent"
      BY <1>6, <2>1 DEF RequestIsSound, MayCall
    <2>2. CASE op # "payment_intent"
      BY <1>6, <2>2 DEF RequestIsSound, Op
    <2>3. QED
      BY <2>1, <2>2
  <1>8. req' \in [Request -> Progress] /\ RequestsAreSound'
    BY <1>1, <1>4, <1>5, <1>7, OneMoves DEF IInv
  <1>9. QED
    BY <1>1, <1>8, Together

\* What the guards establish for the step after them.
LEMMA GuardOK ==
    ASSUME IInv, NEW q \in Request, Guard(q)
    PROVE  IInv'
  <1>1. DataOK' /\ Grown
    BY Quiet, Parts DEF Guard
  <1>2. CASE Finish(q)
    BY <1>1, <1>2, OneEnds, Together DEF IInv
  <1>3. CASE GuardPasses(req[q].op) /\ ~ Finish(q)
    <2> DEFINE pc == IF req[q].op = "payment_cancel" THEN "stripe" ELSE "append"
    <2>1. Goto(q, pc) /\ pc \in Pc
      BY <1>3 DEF Guard, Pc
    <2>2. req[q].op \in {"payment_capture", "payment_cancel", "payment_transfer"}
      BY DEF Guard, IInv, RequestsAreSound, RequestIsSound
    <2>3. req'[q].pc = pc /\ req'[q].op = req[q].op
      BY <2>1 DEF Goto, IInv, TypeOK, Progress
    <2>4. /\ req[q].op \in {"payment_capture", "payment_cancel"} => ledger'[<<"charge", "intent">>] > 0
          /\ req[q].op = "payment_transfer" => ledger'[<<"charge", "succeeded">>] > 0
      BY <1>3, <2>2 DEF Guard, GuardPasses, HasRow
    <2>5. RequestIsSound(q)'
      BY <2>2, <2>3, <2>4 DEF RequestIsSound, MayAppend, MayCall, HasRow
    <2>6. QED
      BY <1>1, <2>1, <2>5, OneGoes, Together DEF IInv
  <1>4. QED
    BY <1>2, <1>3 DEF Guard

\* The row a procedure appends follows from what it relied on.
LEMMA AppendRowOK ==
    ASSUME IInv, NEW q \in Request, AppendRow(q)
    PROVE  IInv'
  <1> DEFINE op == req[q].op
  <1>1. op \in Op \ {"webhook"} /\ MayAppend(op)
    BY DEF AppendRow, IInv, TypeOK, Progress, RequestsAreSound, RequestIsSound
  <1>2. OwnRow(op) \in Entry
    BY <1>1, Entries
  <1>3. HasRow("charge", "succeeded") => HasRow("charge", "intent")
    BY Entries DEF IInv, LedgerOK, LedgerIsOrdered, HasRow
  <1>4. MayAdd(OwnRow(op))
    BY <1>1, <1>3 DEF MayAdd, OwnRow, MayAppend, Op
  <1>5. DataOK' /\ Grown /\ ledger'[OwnRow(op)] > 0
    BY <1>2, <1>4, RowAdded, Parts DEF AppendRow
  <1>6. CASE Finish(q)
    BY <1>5, <1>6, OneEnds, Together DEF IInv
  <1>7. CASE op \in {"payment_capture", "payment_transfer"} /\ Goto(q, "stripe")
    <2>1. req'[q].pc = "stripe" /\ req'[q].op = op
      BY <1>7 DEF Goto, IInv, TypeOK, Progress
    <2>2. RequestIsSound(q)'
      <3> HIDE DEF op
      <3>1. QED
        BY <1>5, <1>7, <2>1 DEF RequestIsSound, MayCall, HasRow, OwnRow
    <2>3. QED
      BY <1>5, <1>7, <2>2, OneGoes, Together DEF IInv, Pc
  <1>8. QED
    BY <1>6, <1>7 DEF AppendRow

LEMMA DeliverOK ==
    ASSUME IInv, NEW q \in Request, NEW event \in StripeEvent, Deliver(q, event)
    PROVE  IInv'
  <1> DEFINE r == [pc |-> "event", op |-> "webhook", left |-> <<event>>]
  <1>1. DataOK' /\ Grown
    BY Quiet, Parts DEF Deliver
  <1>2. r \in Progress
    BY DEF Progress, Pc, Op, Event
  <1>3. Becomes(q, r) /\ req'[q] = r
    BY DEF Deliver, Becomes, IInv, TypeOK
  <1>4. event \in TrueEvents'
    BY <1>1, EventsStayTrue DEF Deliver, IInv, EventsAreTrue
  <1>5. <<event>> # <<>> /\ <<event>> \in Seq(TrueEvents')
    BY <1>4
  <1>6. RequestIsSound(q)'
    BY <1>3, <1>5 DEF RequestIsSound
  <1>7. QED
    BY <1>1, <1>2, <1>3, <1>6, OneMoves, Together DEF IInv

\* Where a request stands in the handling of an event.
LEMMA AtHand ==
    ASSUME IInv, NEW q \in Request, req[q].pc \in {"event", "record", "tell"}
    PROVE  /\ Head(req[q].left) \in TrueEvents /\ Head(req[q].left) \in Event
           /\ \A pc \in Pc : Goto(q, pc) =>
                 req'[q].pc = pc /\ req'[q].op = req[q].op /\ req'[q].left = req[q].left
  <1>1. req[q].left # <<>> /\ req[q].left \in Seq(TrueEvents)
    BY DEF IInv, RequestsAreSound, RequestIsSound
  <1>2. Head(req[q].left) \in TrueEvents
    BY <1>1, HeadTailProperties
  <1>3. req \in [Request -> Progress]
    BY Parts
  <1>4. QED
    BY <1>2, <1>3 DEF TrueEvents, Goto, Progress

\* A request that goes on within an event keeps the events it has left.
LEMMA SameEvent ==
    ASSUME IInv, Grown, NEW q \in Request, req[q].pc \in {"event", "record", "tell"},
           NEW pc \in {"record", "tell"}, Goto(q, pc),
           pc = "record" => Known(Head(req[q].left))',
           pc = "tell" => ledger'[Appended(Head(req[q].left))] > 0
    PROVE  req' \in [Request -> Progress] /\ RequestsAreSound'
  <1>1. req'[q].pc = pc /\ req'[q].left = req[q].left /\ pc \in Pc
    BY AtHand DEF Pc
  <1>2. req[q].left # <<>> /\ req[q].left \in Seq(TrueEvents')
    BY EventsStayTrue DEF IInv, RequestsAreSound, RequestIsSound
  <1>3. RequestIsSound(q)'
    BY <1>1, <1>2 DEF RequestIsSound
  <1>4. QED
    BY <1>1, <1>3, OneGoes DEF IInv

LEMMA ReadEventOK ==
    ASSUME IInv, NEW q \in Request, ReadEvent(q)
    PROVE  IInv'
  <1> DEFINE event == Head(req[q].left)
  <1>1. /\ req[q].pc \in {"event", "record", "tell"}
        /\ owed' \subseteq owed /\ UNCHANGED <<ledger, charge, transfers, emitted, messages>>
    BY DEF ReadEvent, Acknowledge
  <1>2. DataOK' /\ Grown
    BY <1>1, Quiet, Parts
  <1>3. CASE NextEvent(q)
    BY <1>1, <1>2, <1>3, OneAdvances, Together DEF IInv
  <1>4. CASE Known(event) /\ ledger[Appended(event)] = 0 /\ Goto(q, "record")
    <2>1. Known(event)'
      <3>1. Head(req'[q].left) = event
        BY <1>1, <1>4, AtHand DEF Pc
      <3>2. QED
        BY <1>1, <1>4, <3>1 DEF Known, HasRow
    <2>2. QED
      BY <1>1, <1>2, <1>4, <2>1, SameEvent, Together
  <1>5. CASE ledger[Appended(event)] # 0 /\ Goto(q, "tell")
    <2>1. ledger[Appended(event)] > 0
      BY <1>1, <1>5, AtHand, Entries DEF IInv, TypeOK, Tally
    <2>2. ledger'[Appended(event)] > 0
      BY <1>1, <2>1
    <2>3. QED
      BY <1>1, <1>2, <1>5, <2>2, SameEvent, Together
  <1>6. QED
    BY <1>3, <1>4, <1>5 DEF ReadEvent, Acknowledge

\* An event that was found to require what is there, and that is true of
\* Stripe, allows its row.
LEMMA RecordOK ==
    ASSUME IInv, NEW q \in Request, Record(q)
    PROVE  IInv'
  <1> DEFINE event == Head(req[q].left)
  <1>1. req[q].pc = "record" /\ req[q].pc \in {"event", "record", "tell"}
    BY DEF Record
  <1>2. event \in Event /\ EventIsTrue(event) /\ Known(event)
    BY <1>1, AtHand DEF TrueEvents, IInv, RequestsAreSound, RequestIsSound
  <1>3. /\ AddRow(Appended(event)) /\ owed' \subseteq owed
        /\ UNCHANGED <<charge, transfers, emitted, messages>>
    BY DEF Record, Acknowledge
  <1>4. Goto(q, "tell") \/ NextEvent(q)
    BY DEF Record, Acknowledge
  <1> HIDE DEF event
  <1>5. Appended(event) \in Entry
    BY <1>2, Entries
  <1>6. MayAdd(Appended(event))
    BY <1>2 DEF MayAdd, EventIsTrue, Known, HasRow, Appended, Requires, Event, StripeEvent
  <1>7. DataOK' /\ Grown /\ ledger'[Appended(event)] > 0
    BY <1>3, <1>5, <1>6, RowAdded, Parts
  <1>8. CASE NextEvent(q)
    BY <1>1, <1>7, <1>8, OneAdvances, Together DEF IInv
  <1>9. CASE Goto(q, "tell")
    BY <1>1, <1>7, <1>9, SameEvent, Together DEF event
  <1>10. QED
    BY <1>4, <1>8, <1>9

\* A message is authored about a row that is there.
LEMMA TellOK ==
    ASSUME IInv, NEW q \in Request, Tell(q)
    PROVE  IInv'
  <1> DEFINE event == Head(req[q].left)
  <1>1. req[q].pc = "tell" /\ req[q].pc \in {"event", "record", "tell"}
    BY DEF Tell
  <1>2. event \in Event /\ ledger[Appended(event)] > 0
    BY <1>1, AtHand DEF IInv, RequestsAreSound, RequestIsSound
  <1>3. /\ NextEvent(q) /\ owed' \subseteq owed
        /\ UNCHANGED <<ledger, charge, transfers, emitted>>
        /\ messages' = [f \in Failure |-> IF f \in Told(event) THEN OneMore(messages[f])
                                                             ELSE messages[f]]
    BY DEF Tell, Acknowledge
  <1> HIDE DEF event
  <1>4. Grown
    BY <1>3 DEF Grown
  <1>5. messages' \in [Failure -> Tally]
    BY <1>3, OneMoreType DEF IInv, TypeOK
  <1>6. FailuresAreRecorded'
    <2>1. /\ "charge_failed" \in Told(event) => HasRow("charge", "failed")
          /\ "transfer_failed" \in Told(event) => HasRow("transfer", "failed")
      BY <1>2 DEF Told, Appended, HasRow
    <2>2. FailuresAreRecorded
      BY DEF IInv, LedgerOK
    <2>3. QED
      BY <1>3, <2>1, <2>2 DEF FailuresAreRecorded, HasRow, Failure
  <1>7. LedgerIsOrdered' /\ LedgerIsTrue' /\ MoneyIsAnnounced'
    BY <1>3 DEF IInv, LedgerOK, LedgerIsOrdered, LedgerIsTrue, MoneyIsAnnounced, HasRow
  <1>8. EventsAreTrue'
    BY <1>3, <1>4, EventsStayTrue DEF IInv, EventsAreTrue
  <1>9. DataOK'
    BY <1>3, <1>5, <1>6, <1>7, <1>8 DEF DataOK, LedgerOK, IInv, TypeOK
  <1>10. QED
    BY <1>1, <1>3, <1>4, <1>9, OneAdvances, Together DEF IInv

LEMMA FailEventOK ==
    ASSUME IInv, NEW q \in Request, FailEvent(q)
    PROVE  IInv'
  BY Quiet, OneAdvances, Parts, Together DEF FailEvent, IInv

LEMMA LoseOK ==
    ASSUME IInv, NEW q \in Request, Lose(q)
    PROVE  IInv'
  BY Quiet, OneEnds, Parts, Together DEF Lose, IInv

LEMMA StripeExpiresOK ==
    ASSUME IInv, StripeExpires
    PROVE  IInv'
  <1>1. charge = "authorized" /\ charge' = "canceled" /\ Emit({"canceled"})
        /\ UNCHANGED <<ledger, req, transfers, messages>>
    BY DEF StripeExpires
  <1>2. Grown
    BY <1>1 DEF Grown
  <1>3. transfers' > 0 => HasRow("transfer", "initiated")
    BY <1>1 DEF IInv, LedgerOK, MoneyIsAnnounced
  <1>4. DataOK'
    BY <1>1, <1>2, <1>3, StripeMoved, Parts DEF EventIsTrue, StripeEvent, IInv, TypeOK
  <1>5. RequestsAreSound'
    BY <1>1, <1>2, RequestStaysSound DEF IInv, RequestsAreSound
  <1>6. QED
    BY <1>1, <1>4, <1>5, Together DEF IInv, TypeOK

\* What Stripe does when asked agrees with what the caller wrote before.
LEMMA StripeAnswers ==
    ASSUME IInv, NEW op \in Op \ {"webhook"}, MayCall(op), UNCHANGED <<ledger, messages>>,
           \/ StripeCan(op) /\ StripeDoes(op)
           \/ StripeRefuses(op)
    PROVE  DataOK' /\ Grown
  <1>1. DataOK /\ transfers \in Tally /\ charge \in {"none", "authorized", "captured", "canceled"}
    BY Parts DEF IInv, TypeOK
  <1>2. /\ charge = "captured" => HasRow("charge", "initiated")
        /\ transfers > 0 => HasRow("transfer", "initiated")
    BY DEF IInv, LedgerOK, MoneyIsAnnounced
  <1>3. CASE StripeRefuses(op)
    <2>1. PICK events \in SUBSET {"capture_failed"} : Emit(events)
      BY <1>3 DEF StripeRefuses
    <2>2. UNCHANGED <<charge, transfers>> /\ Grown
      BY <1>3 DEF StripeRefuses, Grown
    <2>3. events \in SUBSET StripeEvent /\ \A event \in events : EventIsTrue(event)'
      BY <2>1 DEF StripeEvent, EventIsTrue
    <2>4. QED
      BY <1>1, <1>2, <2>1, <2>2, <2>3, StripeMoved
  <1>4. CASE StripeCan(op) /\ StripeDoes(op)
    <2> DEFINE events == CASE op = "payment_capture" -> {"capture_succeeded", "charge_completed"}
                           [] op = "payment_cancel"  -> {"canceled"}
                           [] OTHER                  -> {}
    <2>1. Emit(events)
      BY <1>4 DEF StripeDoes
    <2>2. /\ op = "payment_intent" => charge = "none" /\ charge' = "authorized" /\ transfers' = transfers
          /\ op = "payment_capture" => charge = "authorized" /\ charge' = "captured" /\ transfers' = transfers
          /\ op = "payment_cancel" => charge = "authorized" /\ charge' = "canceled" /\ transfers' = transfers
          /\ op = "payment_transfer" => charge' = charge /\ transfers' = OneMore(transfers)
      BY <1>4 DEF StripeCan, StripeDoes
    <2>3. transfers' \in Tally /\ (transfers > 0 => transfers' > 0)
      BY <1>1, <2>2, OneMoreType DEF Op
    <2>4. charge' \in {"none", "authorized", "captured", "canceled"} /\ Grown
      BY <1>1, <2>2, <2>3 DEF Grown, Op
    <2>5. charge' = "captured" => HasRow("charge", "initiated")
      BY <1>2, <2>2 DEF MayCall, Op
    <2>6. transfers' > 0 => HasRow("transfer", "initiated")
      BY <1>2, <2>2 DEF MayCall, Op
    <2>7. events \in SUBSET StripeEvent /\ \A event \in events : EventIsTrue(event)'
      BY <2>2 DEF StripeEvent, EventIsTrue
    <2> HIDE DEF events
    <2>8. QED
      BY <1>1, <2>1, <2>3, <2>4, <2>5, <2>6, <2>7, StripeMoved
  <1>5. QED
    BY <1>3, <1>4

\* The gateway: an outcome that is ok is one that Stripe has brought about.
LEMMA CallStripeOK ==
    ASSUME IInv, NEW q \in Request, CallStripe(q)
    PROVE  IInv'
  <1> DEFINE op == req[q].op
  <1>1. op \in Op \ {"webhook"} /\ MayCall(op) /\ UNCHANGED <<ledger, messages>>
    BY DEF CallStripe, IInv, TypeOK, Progress, RequestsAreSound, RequestIsSound
  <1>2. PICK done \in BOOLEAN, answer \in {"ok", "error", "thrown"} :
              /\ done => StripeCan(op)
              /\ answer = "ok" => done
              /\ IF done THEN StripeDoes(op) ELSE StripeRefuses(op)
              /\ \/ /\ op \in {"payment_intent", "payment_cancel"}
                    /\ IF answer = "ok" THEN Goto(q, "append") ELSE Finish(q)
                 \/ /\ op \in {"payment_capture", "payment_transfer"}
                    /\ IF answer = "thrown" THEN Finish(q)
                       ELSE req' = [req EXCEPT ![q].pc = "event",
                                               ![q].left = Outcome(op, answer = "ok")]
    BY DEF CallStripe
  <1>3. DataOK' /\ Grown
    BY <1>1, <1>2, StripeAnswers
  <1>4. CASE Finish(q)
    BY <1>3, <1>4, OneEnds, Together DEF IInv
  <1>5. CASE op \in {"payment_intent", "payment_cancel"} /\ answer = "ok" /\ Goto(q, "append")
    <2>1. req'[q].pc = "append" /\ req'[q].op = op
      BY <1>5 DEF Goto, IInv, TypeOK, Progress
    <2>2. op = "payment_cancel" => charge' = "canceled" /\ ledger'[<<"charge", "intent">>] > 0
      BY <1>1, <1>2, <1>5 DEF StripeDoes, MayCall, HasRow
    <2>3. RequestIsSound(q)'
      <3> HIDE DEF op
      <3>1. QED
        BY <1>5, <2>1, <2>2 DEF RequestIsSound, MayAppend, HasRow
    <2>4. QED
      BY <1>3, <1>5, <2>3, OneGoes, Together DEF IInv, Pc
  <1>6. CASE /\ op \in {"payment_capture", "payment_transfer"}
             /\ req' = [req EXCEPT ![q].pc = "event", ![q].left = Outcome(op, answer = "ok")]
    <2> DEFINE left == Outcome(op, answer = "ok")
               r == [req[q] EXCEPT !.pc = "event", !.left = left]
    <2>1. /\ answer = "ok" => /\ op = "payment_capture" => charge' = "captured"
                              /\ op = "payment_transfer" => transfers' = OneMore(transfers)
          /\ OneMore(transfers) > 0
      BY <1>2, OneMoreType DEF StripeDoes, IInv, TypeOK
    <2>2. left \in {<<"capture_succeeded", "charge_completed">>, <<"capture_failed">>,
                    <<"transfer_succeeded", "transfer_completed">>, <<"transfer_failed">>}
      BY <1>6 DEF Outcome
    <2>3. /\ left = <<"capture_succeeded", "charge_completed">> => charge' = "captured"
          /\ left = <<"transfer_succeeded", "transfer_completed">> => transfers' > 0
      BY <1>6, <2>1 DEF Outcome
    <2> HIDE DEF left
    <2>4. /\ "capture_failed" \in TrueEvents' /\ "transfer_failed" \in TrueEvents'
          /\ charge' = "captured" => {"capture_succeeded", "charge_completed"} \subseteq TrueEvents'
          /\ transfers' > 0 => {"transfer_succeeded", "transfer_completed"} \subseteq TrueEvents'
      BY DEF TrueEvents, EventIsTrue, Event, StripeEvent
    <2>5. left \in Seq(TrueEvents') /\ left # <<>> /\ left \in Seq(Event)
      <3>1. \A S, a, b : a \in S /\ b \in S => <<a>> \in Seq(S) /\ <<a, b>> \in Seq(S)
        OBVIOUS
      <3>2. \A a, b : <<a>> # <<>> /\ <<a, b>> # <<>>
        OBVIOUS
      <3>3. {"capture_succeeded", "charge_completed", "capture_failed", "transfer_succeeded",
             "transfer_completed", "transfer_failed"} \subseteq Event
        BY DEF Event, StripeEvent
      <3>4. left \in Seq(TrueEvents')
        BY <2>2, <2>3, <2>4, <3>1
      <3>5. left \in Seq(Event)
        BY <2>2, <3>1, <3>3
      <3>6. QED
        BY <2>2, <3>2, <3>4, <3>5
    <2>6. req[q] \in Progress
      BY DEF IInv, TypeOK
    <2>7. r \in Progress
      BY <2>5, <2>6 DEF Progress, Pc
    <2>8. Becomes(q, r) /\ req'[q] = r
      BY <1>6 DEF Becomes, IInv, TypeOK, left
    <2>9. req'[q].pc = "event" /\ req'[q].left = left
      BY <2>6, <2>8 DEF Progress
    <2>10. RequestIsSound(q)'
      BY <2>5, <2>9 DEF RequestIsSound
    <2>11. QED
      BY <1>3, <2>7, <2>8, <2>10, OneMoves, Together DEF IInv
  <1>7. QED
    BY <1>2, <1>4, <1>5, <1>6

LEMMA InitOK == Init => IInv
  <1> SUFFICES ASSUME Init PROVE IInv
    OBVIOUS
  <1>1. 0 \in Tally /\ ~(0 > 0)
    BY TallyAssumption DEF Tally
  <1>2. Idle \in Progress
    BY DEF Idle, Progress, Pc, Op
  <1>3. TypeOK
    BY <1>1, <1>2 DEF Init, TypeOK
  <1>4. \A entry \in Entry : ~(ledger[entry] > 0)
    BY <1>1 DEF Init
  <1>5. LedgerIsOrdered
    BY <1>4 DEF LedgerIsOrdered, Entry
  <1>6. LedgerIsTrue /\ MoneyIsAnnounced /\ FailuresAreRecorded
    BY <1>1, <1>4 DEF Init, LedgerIsTrue, MoneyIsAnnounced, FailuresAreRecorded, HasRow, Entry, Failure
  <1>7. RequestsAreSound /\ EventsAreTrue
    BY DEF Init, Idle, RequestsAreSound, RequestIsSound, EventsAreTrue
  <1>8. QED
    BY <1>3, <1>5, <1>6, <1>7 DEF IInv, LedgerOK

LEMMA NextOK == IInv /\ [Next]_vars => IInv'
  <1> SUFFICES ASSUME IInv, [Next]_vars PROVE IInv'
    OBVIOUS
  <1>1. CASE UNCHANGED vars
    <2>1. DataOK' /\ Grown
      BY <1>1, Quiet, Parts DEF vars
    <2>2. RequestsAreSound'
      BY <1>1, <2>1, RequestStaysSound DEF IInv, RequestsAreSound, vars
    <2>3. QED
      BY <1>1, <2>1, <2>2, Together DEF IInv, TypeOK, vars
  <1>2. CASE \E q \in Request : Begin(q)
    BY <1>2, BeginOK
  <1>3. CASE \E q \in Request : Guard(q)
    BY <1>3, GuardOK
  <1>4. CASE \E q \in Request : AppendRow(q)
    BY <1>4, AppendRowOK
  <1>5. CASE \E q \in Request : CallStripe(q)
    BY <1>5, CallStripeOK
  <1>6. CASE \E q \in Request : ReadEvent(q)
    BY <1>6, ReadEventOK
  <1>7. CASE \E q \in Request : Record(q)
    BY <1>7, RecordOK
  <1>8. CASE \E q \in Request : Tell(q)
    BY <1>8, TellOK
  <1>9. CASE \E q \in Request : FailEvent(q)
    BY <1>9, FailEventOK
  <1>10. CASE \E q \in Request : Lose(q)
    BY <1>10, LoseOK
  <1>11. CASE \E q \in Request, event \in StripeEvent : Deliver(q, event)
    BY <1>11, DeliverOK
  <1>12. CASE StripeExpires
    BY <1>12, StripeExpiresOK
  <1>13. QED
    BY <1>1, <1>2, <1>3, <1>4, <1>5, <1>6, <1>7, <1>8, <1>9, <1>10, <1>11, <1>12 DEF Next, Work

-----------------------------------------------------------------------------
(* The theorems *)

LEMMA Invariance == Spec => []IInv
  BY InitOK, NextOK, PTL DEF Spec

\* The state of a payment is well typed.
THEOREM TypeCorrect == Spec => []TypeOK
  <1>1. IInv => TypeOK
    BY DEF IInv
  <1>2. QED
    BY <1>1, Invariance, PTL

\* Rows appear in the order of a payment's life, whatever overlaps or fails.
THEOREM LedgerOrdered == Spec => []LedgerIsOrdered
  <1>1. IInv => LedgerIsOrdered
    BY DEF IInv, LedgerOK
  <1>2. QED
    BY <1>1, Invariance, PTL

\* What the ledger says of Stripe is so.
THEOREM LedgerTrue == Spec => []LedgerIsTrue
  <1>1. IInv => LedgerIsTrue
    BY DEF IInv, LedgerOK
  <1>2. QED
    BY <1>1, Invariance, PTL

\* No money moves that was not announced, and none is paid out before it is
\* taken in.
THEOREM MoneyAnnounced == Spec => []MoneyIsAnnounced
  <1>1. IInv => MoneyIsAnnounced
    BY DEF IInv, LedgerOK
  <1>2. QED
    BY <1>1, Invariance, PTL

\* Failure messages are about failures in the ledger.
THEOREM FailuresRecorded == Spec => []FailuresAreRecorded
  <1>1. IInv => FailuresAreRecorded
    BY DEF IInv, LedgerOK
  <1>2. QED
    BY <1>1, Invariance, PTL

-----------------------------------------------------------------------------
(* The ledger keeps the promise of PaymentLedger *)

\* The rows of the payment, as PaymentLedger sees them.
Rows == {entry \in Entry : ledger[entry] > 0}

\* A row that may be appended is a step of PaymentLedger, or is there already.
LEMMA RowIsAStep ==
    ASSUME IInv, IInv', NEW entry \in Entry, AddRow(entry), MayAdd(entry), UNCHANGED charge
    PROVE  [Ledger!Next]_<<[p \in {"intent"} |-> Rows]>>
  <1>1. Rows' = Rows \cup {entry}
    <2>1. /\ ledger'[entry] = OneMore(ledger[entry])
          /\ \A e \in Entry : e # entry => ledger'[e] = ledger[e]
      BY DEF AddRow, IInv, TypeOK
    <2>2. ledger'[entry] > 0
      BY <2>1, OneMoreType DEF IInv, TypeOK
    <2>3. QED
      BY <2>1, <2>2 DEF Rows
  <1>2. CASE entry \in Rows
    BY <1>1, <1>2
  <1>3. CASE entry \notin Rows
    <2>1. entry \in Ledger!Row
      BY DEF Entry, Ledger!Row
    <2>2. Ledger!Precede(entry) \subseteq Rows
      BY Entries DEF Ledger!Precede, Entry, MayAdd, HasRow, Rows
    <2>3. Ledger!Preclude(entry) \cap Rows = {}
      <3>1. /\ entry = <<"charge", "succeeded">> => charge = "captured"
            /\ entry = <<"charge", "canceled">> => charge = "canceled"
        BY DEF MayAdd
      <3>2. /\ <<"charge", "succeeded">> \in Rows => charge = "captured"
            /\ <<"charge", "canceled">> \in Rows => charge = "canceled"
        BY DEF IInv, LedgerOK, LedgerIsTrue, HasRow, Rows
      <3>3. QED
        BY <3>1, <3>2 DEF Ledger!Preclude
    <2>4. Ledger!Append("intent", entry)
      BY <1>1, <1>3, <2>2, <2>3 DEF Ledger!Append, Rows
    <2>5. QED
      BY <2>1, <2>4 DEF Ledger!Next
  <1>4. QED
    BY <1>2, <1>3

\* Every step of the procedures is one of PaymentLedger, or leaves the rows.
LEMMA LedgerStep == IInv /\ IInv' /\ [Next]_vars => [Ledger!Next]_<<[p \in {"intent"} |-> Rows]>>
  <1> SUFFICES ASSUME IInv, IInv', [Next]_vars
               PROVE  [Ledger!Next]_<<[p \in {"intent"} |-> Rows]>>
    OBVIOUS
  <1>1. CASE UNCHANGED ledger
    BY <1>1 DEF Rows
  <1>2. ASSUME NEW q \in Request, AppendRow(q)
        PROVE  [Ledger!Next]_<<[p \in {"intent"} |-> Rows]>>
    <2>1. req[q].op \in Op \ {"webhook"} /\ MayAppend(req[q].op)
      BY <1>2 DEF AppendRow, IInv, TypeOK, Progress, RequestsAreSound, RequestIsSound
    <2>2. HasRow("charge", "succeeded") => HasRow("charge", "intent")
      BY Entries DEF IInv, LedgerOK, LedgerIsOrdered, HasRow
    <2>3. OwnRow(req[q].op) \in Entry /\ MayAdd(OwnRow(req[q].op))
      BY <2>1, <2>2, Entries DEF MayAdd, OwnRow, MayAppend, Op
    <2>4. QED
      BY <1>2, <2>3, RowIsAStep DEF AppendRow
  <1>3. ASSUME NEW q \in Request, Record(q)
        PROVE  [Ledger!Next]_<<[p \in {"intent"} |-> Rows]>>
    <2> DEFINE event == Head(req[q].left)
    <2>1. req[q].pc = "record"
      BY <1>3 DEF Record
    <2>2. event \in Event /\ EventIsTrue(event) /\ Known(event)
      BY <2>1, AtHand DEF TrueEvents, IInv, RequestsAreSound, RequestIsSound
    <2>3. AddRow(Appended(event)) /\ UNCHANGED charge
      BY <1>3 DEF Record, Acknowledge
    <2> HIDE DEF event
    <2>4. Appended(event) \in Entry /\ MayAdd(Appended(event))
      BY <2>2, Entries
         DEF MayAdd, EventIsTrue, Known, HasRow, Appended, Requires, Event, StripeEvent
    <2>5. QED
      BY <2>3, <2>4, RowIsAStep
  <1>4. QED
    BY <1>1, <1>2, <1>3
       DEF Next, Work, vars, Begin, Guard, CallStripe, ReadEvent, Tell, FailEvent, Lose, Deliver, StripeExpires

\* The rows of a payment keep the promise of PaymentLedger, on which the
\* marketplace's reactions rest.
THEOREM PaymentsKeepTheLedger == Spec => LedgerKeepsItsPromise
  <1>1. Init => Ledger!Init
    BY InitOK DEF Init, Ledger!Init, IInv, TypeOK
  <1>2. IInv /\ IInv' /\ [Next]_vars
          => [Ledger!Next]_([p \in {"intent"} |-> {entry \in Entry : ledger[entry] > 0}])
    BY LedgerStep DEF Rows
  <1>3. QED
    BY <1>1, <1>2, Invariance, PTL DEF Spec, LedgerKeepsItsPromise, Ledger!Spec

=============================================================================
