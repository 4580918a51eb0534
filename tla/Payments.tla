------------------------------ MODULE Payments ------------------------------
(***************************************************************************)
(* api/src/procedures/payments.ts, paymentWebhook.ts, paymentsShared.ts    *)
(* and stripeGateway.ts: the payment procedures over one payment intent.   *)
(* Every row, check and Stripe call of a procedure concerns the intent it  *)
(* names, so one intent with all its requests is the whole story.          *)
(*                                                                         *)
(* The ledger is append-only: a state of the payment is the presence of a  *)
(* row.  A procedure reads the rows once, decides, and then writes and     *)
(* calls Stripe across awaits without looking again; payment_capture and   *)
(* payment_transfer finish by running the webhook handler on the outcome,  *)
(* and Stripe sends its own events to the same handler, each at least once.*)
(* Stripe itself is external, known by what the gateway expects of it.     *)
(***************************************************************************)
EXTENDS Naturals, Sequences

CONSTANTS
    Request,    \* the requests in progress at one time; a slot is used again
    Several     \* the count from which equal rows, messages, transfers are not counted on

ASSUME TallyAssumption == Several \in Nat \ {0}

VARIABLES
    ledger,     \* [Entry -> how many such rows]
    req,        \* [Request -> its progress]
    charge,     \* the PaymentIntent at Stripe
    transfers,  \* how many transfers were made at Stripe
    emitted,    \* the events Stripe has sent, and may send again
    owed,       \* those of them it has no 200 for: it will send them again
    messages    \* [Failure -> how many messages authored]

vars == <<ledger, req, charge, transfers, emitted, owed, messages>>

Entry == ({"charge"} \X {"intent", "initiated", "succeeded", "failed", "completed", "canceled"})
            \cup ({"transfer"} \X {"initiated", "succeeded", "failed", "completed"})

Failure == {"charge_failed", "transfer_failed"}

StripeEvent == {"capture_succeeded", "capture_failed", "canceled", "charge_completed"}
Event == StripeEvent \cup {"transfer_succeeded", "transfer_failed", "transfer_completed"}

Op == {"payment_intent", "payment_capture", "payment_cancel", "payment_transfer", "webhook"}
Pc == {"idle", "guard", "append", "stripe", "event", "record", "tell"}
Progress == [pc : Pc, op : Op, left : Seq(Event)]
Idle == [pc |-> "idle", op |-> "webhook", left |-> <<>>]

Tally == 0 .. Several

\* Mutant: the count runs past its limit.
OneMoreTooMany(n) == IF n <= Several THEN n + 1 ELSE Several

OneMore(n) == IF n < Several THEN n + 1 ELSE Several

TypeOK ==
    /\ ledger \in [Entry -> Tally]
    /\ req \in [Request -> Progress]
    /\ charge \in {"none", "authorized", "captured", "canceled"}
    /\ transfers \in Tally
    /\ emitted \subseteq StripeEvent
    /\ owed \subseteq emitted
    /\ messages \in [Failure -> Tally]

Init ==
    /\ ledger = [e \in Entry |-> 0]
    /\ req = [q \in Request |-> Idle]
    /\ charge = "none"
    /\ transfers = 0
    /\ emitted = {}
    /\ owed = {}
    /\ messages = [f \in Failure |-> 0]

-----------------------------------------------------------------------------
(* Helpers *)

HasRow(type, status) == ledger[<<type, status>>] > 0

\* Mutant: the handler of charge.completed requires the capture to be initiated only.
RequiresTheCaptureOnly(event) ==
    CASE event \in {"capture_succeeded", "capture_failed", "charge_completed"} -> {<<"charge", "initiated">>}
      [] event \in {"transfer_succeeded", "transfer_failed"} -> {<<"transfer", "initiated">>}
      [] event = "transfer_completed"                        -> {<<"transfer", "succeeded">>}
      [] event = "canceled"                                  -> {}

\* WEBHOOK_HANDLERS: the row that must be there, the row appended, the
\* message authored.
Requires(event) ==
    CASE event \in {"capture_succeeded", "capture_failed"}   -> {<<"charge", "initiated">>}
      [] event = "charge_completed"                          -> {<<"charge", "succeeded">>}
      [] event \in {"transfer_succeeded", "transfer_failed"} -> {<<"transfer", "initiated">>}
      [] event = "transfer_completed"                        -> {<<"transfer", "succeeded">>}
      [] event = "canceled"                                  -> {}

Appended(event) ==
    CASE event = "capture_succeeded"  -> <<"charge", "succeeded">>
      [] event = "capture_failed"     -> <<"charge", "failed">>
      [] event = "canceled"           -> <<"charge", "canceled">>
      [] event = "charge_completed"   -> <<"charge", "completed">>
      [] event = "transfer_succeeded" -> <<"transfer", "succeeded">>
      [] event = "transfer_failed"    -> <<"transfer", "failed">>
      [] event = "transfer_completed" -> <<"transfer", "completed">>

Told(event) ==
    CASE event = "capture_failed"  -> {"charge_failed"}
      [] event = "transfer_failed" -> {"transfer_failed"}
      [] OTHER                     -> {}

\* The row a procedure appends itself.
OwnRow(op) ==
    CASE op = "payment_intent"   -> <<"charge", "intent">>
      [] op = "payment_capture"  -> <<"charge", "initiated">>
      [] op = "payment_cancel"   -> <<"charge", "canceled">>
      [] op = "payment_transfer" -> <<"transfer", "initiated">>

\* Mutant: the outcome of the Stripe call is not looked at.
OutcomeAssumedOk(op, ok) ==
    CASE op = "payment_capture"  -> <<"capture_succeeded", "charge_completed">>
      [] op = "payment_transfer" -> <<"transfer_succeeded", "transfer_completed">>

\* The events a procedure handles once Stripe has answered.
Outcome(op, ok) ==
    CASE op = "payment_capture"  -> IF ok THEN <<"capture_succeeded", "charge_completed">>
                                          ELSE <<"capture_failed">>
      [] op = "payment_transfer" -> IF ok THEN <<"transfer_succeeded", "transfer_completed">>
                                          ELSE <<"transfer_failed">>

\* Mutant: a transfer does not wait for the charge.
GuardPassesBeforeTheCharge(op) ==
    /\ HasRow("charge", "intent")
    /\ CASE op \in {"payment_capture", "payment_cancel"} ->
                ~ HasRow("charge", "canceled") /\ ~ HasRow("charge", "initiated")
         [] op = "payment_transfer" -> ~ HasRow("transfer", "initiated")

\* What the rows must show before a procedure acts on its intent.
GuardPasses(op) ==
    /\ HasRow("charge", "intent")
    /\ CASE op \in {"payment_capture", "payment_cancel"} ->
                ~ HasRow("charge", "canceled") /\ ~ HasRow("charge", "initiated")
         [] op = "payment_transfer" -> HasRow("charge", "succeeded") /\ ~ HasRow("transfer", "initiated")

AddRow(entry) == ledger' = [ledger EXCEPT ![entry] = OneMore(@)]

Goto(q, pc) == req' = [req EXCEPT ![q].pc = pc]
Finish(q)   == req' = [req EXCEPT ![q] = Idle]

\* The event at hand is done with: the next of the list, or the end.
NextEvent(q) ==
    IF Len(req[q].left) = 1
    THEN Finish(q)
    ELSE req' = [req EXCEPT ![q].pc = "event", ![q].left = Tail(@)]

\* Stripe sends the events, and will until it is answered with a 200.
Emit(events) == emitted' = emitted \cup events /\ owed' = owed \cup events

\* The event at hand was handled: if Stripe sent it, Stripe is told so.
Acknowledge(q) ==
    /\ NextEvent(q)
    /\ owed' = IF req[q].op = "webhook" THEN owed \ {Head(req[q].left)} ELSE owed
    /\ UNCHANGED <<charge, transfers, emitted>>

-----------------------------------------------------------------------------
(* The procedures *)

\* A procedure is called.  payment_intent is the one call whose PaymentIntent
\* this is; the others name its id.
Begin(q) ==
    /\ req[q].pc = "idle"
    /\ \E op \in Op \ {"webhook"} :
          /\ op = "payment_intent" => /\ charge = "none"
                                      /\ \A p \in Request : req[p].op # "payment_intent"
          /\ req' = [req EXCEPT ![q].pc = IF op = "payment_intent" THEN "stripe" ELSE "guard",
                                ![q].op = op]
    /\ UNCHANGED <<ledger, charge, transfers, emitted, owed, messages>>

\* requireIntent and the checks that follow it.  A cancel that finds the row
\* of an earlier one answers with it.
Guard(q) ==
    /\ req[q].pc = "guard"
    /\ IF GuardPasses(req[q].op)
       THEN Goto(q, IF req[q].op = "payment_cancel" THEN "stripe" ELSE "append")
       ELSE Finish(q)
    /\ UNCHANGED <<ledger, charge, transfers, emitted, owed, messages>>

\* appendTransactionRow: the hook before it allowed the row; the one after it
\* is best effort.
AppendRow(q) ==
    /\ req[q].pc = "append"
    /\ AddRow(OwnRow(req[q].op))
    /\ IF req[q].op \in {"payment_capture", "payment_transfer"} THEN Goto(q, "stripe")
                                                              ELSE Finish(q)
    /\ UNCHANGED <<charge, transfers, emitted, owed, messages>>

\* What Stripe can do of what it is asked, and what it does then.
StripeCan(op) ==
    /\ op = "payment_intent" => charge = "none"
    /\ op \in {"payment_capture", "payment_cancel"} => charge = "authorized"

StripeDoes(op) ==
    /\ charge' = CASE op = "payment_intent"  -> "authorized"
                   [] op = "payment_capture" -> "captured"
                   [] op = "payment_cancel"  -> "canceled"
                   [] OTHER                  -> charge
    /\ transfers' = IF op = "payment_transfer" THEN OneMore(transfers) ELSE transfers
    /\ Emit(CASE op = "payment_capture" -> {"capture_succeeded", "charge_completed"}
              [] op = "payment_cancel"  -> {"canceled"}
              [] OTHER                  -> {})

\* Stripe refuses; of a capture it may also report the failure as an event.
StripeRefuses(op) ==
    /\ \E events \in SUBSET IF op = "payment_capture" THEN {"capture_failed"} ELSE {} : Emit(events)
    /\ UNCHANGED <<charge, transfers>>

\* The gateway calls Stripe.  A StripeError is an outcome that is not ok, a
\* broken connection among them: it does not say Stripe did nothing.  Any
\* other error is thrown and ends the request.
CallStripe(q) ==
    LET op == req[q].op
    IN  /\ req[q].pc = "stripe"
        /\ \E done \in BOOLEAN, answer \in {"ok", "error", "thrown"} :
              /\ done => StripeCan(op)
              /\ answer = "ok" => done
              /\ IF done THEN StripeDoes(op) ELSE StripeRefuses(op)
              /\ \/ /\ op \in {"payment_intent", "payment_cancel"}
                    /\ IF answer = "ok" THEN Goto(q, "append") ELSE Finish(q)
                 \/ /\ op \in {"payment_capture", "payment_transfer"}
                    /\ IF answer = "thrown" THEN Finish(q)
                       ELSE req' = [req EXCEPT ![q].pc = "event",
                                               ![q].left = Outcome(op, answer = "ok")]
        /\ UNCHANGED <<ledger, messages>>

\* Stripe cancels an authorization that was not captured for too long.
StripeExpires ==
    /\ charge = "authorized"
    /\ charge' = "canceled"
    /\ Emit({"canceled"})
    /\ UNCHANGED <<ledger, req, transfers, messages>>

-----------------------------------------------------------------------------
(* The webhook handler *)

\* Stripe sends an event, again perhaps.
Deliver(q, event) ==
    /\ req[q].pc = "idle" /\ event \in emitted
    /\ req' = [req EXCEPT ![q] = [pc |-> "event", op |-> "webhook", left |-> <<event>>]]
    /\ UNCHANGED <<ledger, charge, transfers, emitted, owed, messages>>

\* The intent is known and shows the row the event requires.
Known(event) ==
    HasRow("charge", "intent") /\ \A entry \in Requires(event) : ledger[entry] > 0

\* Mutant: the message is authored and the row left for later.
ReadEventTellingOnly(q) ==
    LET event == Head(req[q].left)
    IN  /\ req[q].pc = "event"
        /\ Goto(q, IF Told(event) # {} THEN "tell" ELSE "record")
        /\ UNCHANGED <<ledger, charge, transfers, emitted, owed, messages>>

\* handlePaymentWebhook reads the rows and decides what is to do.
ReadEvent(q) ==
    LET event == Head(req[q].left)
    IN  /\ req[q].pc = "event"
        /\ \/ /\ Known(event) /\ ledger[Appended(event)] > 0 /\ Told(event) = {}
              /\ Acknowledge(q)
           \/ /\ Known(event) /\ (ledger[Appended(event)] = 0 \/ Told(event) # {})
              /\ Goto(q, IF ledger[Appended(event)] = 0 THEN "record" ELSE "tell")
              /\ UNCHANGED <<charge, transfers, emitted, owed>>
           \/ /\ ~ Known(event)
              /\ NextEvent(q)
              /\ UNCHANGED <<charge, transfers, emitted, owed>>
        /\ UNCHANGED <<ledger, messages>>

\* The row is appended.
Record(q) ==
    LET event == Head(req[q].left)
    IN  /\ req[q].pc = "record"
        /\ AddRow(Appended(event))
        /\ IF Told(event) # {}
           THEN Goto(q, "tell") /\ UNCHANGED <<charge, transfers, emitted, owed>>
           ELSE Acknowledge(q)
        /\ UNCHANGED messages

\* authorFailureMessage, whether or not the row was there already.
Tell(q) ==
    /\ req[q].pc = "tell"
    /\ messages' = [f \in Failure |-> IF f \in Told(Head(req[q].left)) THEN OneMore(messages[f])
                                                                       ELSE messages[f]]
    /\ Acknowledge(q)
    /\ UNCHANGED ledger

\* Mutant: an error of the handler is answered with a 200.
FailEventAcknowledged(q) ==
    /\ req[q].pc \in {"event", "record", "tell"}
    /\ Acknowledge(q)
    /\ UNCHANGED <<ledger, messages>>

\* A hook, a query or a lookup of the handler fails: Stripe is answered 500;
\* a procedure goes on with its next event.
FailEvent(q) ==
    /\ req[q].pc \in {"event", "record", "tell"}
    /\ NextEvent(q)
    /\ UNCHANGED <<ledger, charge, transfers, emitted, owed, messages>>

\* The request ends where it is: the process stops, or an error is thrown to
\* the caller.
Lose(q) ==
    /\ req[q].pc # "idle"
    /\ Finish(q)
    /\ UNCHANGED <<ledger, charge, transfers, emitted, owed, messages>>

Work(q) == Guard(q) \/ AppendRow(q) \/ CallStripe(q) \/ ReadEvent(q) \/ Record(q) \/ Tell(q)

Next ==
    \/ \E q \in Request :
          \/ Begin(q) \/ Work(q) \/ FailEvent(q) \/ Lose(q)
          \/ \E event \in StripeEvent : Deliver(q, event)
    \/ StripeExpires

Spec == Init /\ [][Next]_vars

\* A request in progress goes on; Stripe sends an event it is owed an answer
\* for again and again, and not every one of those tries fails.
Handling(q, event) == req[q].op = "webhook" /\ req[q].left = <<event>>

Fairness ==
    /\ \A q \in Request : WF_vars(Work(q))
    /\ \A event \in {"capture_succeeded", "canceled"} :
          /\ SF_vars(\E q \in Request : event \in owed /\ Deliver(q, event))
          /\ SF_vars(\E q \in Request : Handling(q, event) /\ ReadEvent(q))
          /\ SF_vars(\E q \in Request : Handling(q, event) /\ Record(q))

FairSpec == Spec /\ Fairness

-----------------------------------------------------------------------------
(* Properties *)

\* However requests and webhooks overlap, fail and repeat, the rows of a
\* payment appear in the order of its life: each state after the one it
\* follows from.
LedgerIsOrdered ==
    LET Follows(later, earlier) == ledger[later] > 0 => ledger[earlier] > 0
    IN  /\ \A entry \in Entry : Follows(entry, <<"charge", "intent">>)
        /\ Follows(<<"charge", "succeeded">>, <<"charge", "initiated">>)
        /\ Follows(<<"charge", "failed">>, <<"charge", "initiated">>)
        /\ Follows(<<"charge", "completed">>, <<"charge", "succeeded">>)
        /\ Follows(<<"transfer", "initiated">>, <<"charge", "succeeded">>)
        /\ Follows(<<"transfer", "succeeded">>, <<"transfer", "initiated">>)
        /\ Follows(<<"transfer", "failed">>, <<"transfer", "initiated">>)
        /\ Follows(<<"transfer", "completed">>, <<"transfer", "succeeded">>)

\* The ledger is an instance of PaymentLedger: no two rows of it appear in one
\* step or the wrong order, and none takes back or contradicts another.
Ledger == INSTANCE PaymentLedger WITH
    Payment <- {"intent"},
    rows    <- [p \in {"intent"} |-> {entry \in Entry : ledger[entry] > 0}]

LedgerKeepsItsPromise == Ledger!Spec

\* What the ledger says happened did happen at Stripe: so no payment is both
\* canceled and charged.
LedgerIsTrue ==
    /\ HasRow("charge", "succeeded") => charge = "captured"
    /\ HasRow("charge", "canceled") => charge = "canceled"
    /\ HasRow("transfer", "succeeded") => transfers > 0

\* Money never moves that the ledger did not announce before, and none goes
\* to the seller that was not taken from the buyer.
MoneyIsAnnounced ==
    /\ charge = "captured" => HasRow("charge", "initiated")
    /\ transfers > 0 => HasRow("transfer", "initiated") /\ charge = "captured"

\* A failure message is about a failure the ledger has.
FailuresAreRecorded ==
    /\ messages["charge_failed"] > 0 => HasRow("charge", "failed")
    /\ messages["transfer_failed"] > 0 => HasRow("transfer", "failed")

\* Whatever request was cut off, what Stripe did to the charge reaches the
\* ledger: a capture always, a cancelation if the intent itself was recorded.
ChargeIsRecorded ==
    /\ charge = "captured" ~> HasRow("charge", "succeeded")
    /\ charge = "canceled" /\ HasRow("charge", "intent") ~> HasRow("charge", "canceled")

\* docs/evy/data.md of payment_transfer: "Rejects duplicate transfer."
RejectsDuplicateTransfer == ledger[<<"transfer", "initiated">>] <= 1

\* docs/evy/data.md of payment_webhook: "Handler idempotency (hasRow before
\* append) makes duplicate delivery safe."
DuplicateDeliveryIsSafe == \A f \in Failure : messages[f] <= 1

=============================================================================
