------------------------------ MODULE Purchase ------------------------------
(***************************************************************************)
(* services/marketplace/src: purchase.ts, status.ts, hooks.ts, payments.ts *)
(* and paymentIntents.ts, with the hooked create of api/src/procedures/    *)
(* hooks.ts that drives them: the sale of one item.                        *)
(*                                                                         *)
(* Buyers and the seller create messages.  The api asks the marketplace    *)
(* before it stores one (its status and payment checks), and tells it      *)
(* after: the marketplace queues a reaction of the item's status, links    *)
(* the message to the payment intent of its parent and calls the payment   *)
(* procedures.  A stored message is broadcast at once, so it may be        *)
(* answered while its own hook still runs.  The payments go their own way, *)
(* within what PaymentLedger promises; a charge that succeeds is told to   *)
(* the marketplace by a hook, a failure by a message.                      *)
(*                                                                         *)
(* An item's reactions touch nothing of another item, so one item is the   *)
(* whole story.  A payment intent is named by the message that authorized  *)
(* it.  The marketplace's clock (module Clock) orders the status rows, so  *)
(* the latest row is the last appended.                                    *)
(***************************************************************************)
EXTENDS Naturals, Sequences, FiniteSets

CONSTANTS
    MaxMessages,    \* the messages about the item, numbered in the order they are sent
    AtOnce,         \* bound on the creates in progress at one time
    Type,           \* the ways to hand it over its page offers
    Vocabulary      \* what buyers and the seller say

Value == {"pending", "accept", "reject", "cancel", "transaction", "transaction_completed",
          "transaction_rejected", "given", "sent", "received", "failed",
          "charge_failed", "transfer_failed"}

AnyType == {"pickup", "delivery", "shipping"}

ASSUME PurchaseAssumption ==
    /\ MaxMessages \in Nat /\ AtOnce \in Nat
    /\ Type \subseteq AnyType
    /\ Vocabulary \subseteq Value

VARIABLES
    msg,        \* [Message -> the message and the progress of its create]
    ledger,     \* [Message -> the transaction rows of the payment it authorized]
    asked,      \* [Message -> the procedures called for that payment]
    charged,    \* the payments whose charge succeeded and whose hook is under way
    intents,    \* item_payment_intents: [Message -> the payments it is linked to]
    status,     \* the item's latest status row
    queue,      \* the reactions queued for the item
    seen,       \* the status the reaction at the head has read, or "unread"
    lost        \* whether a reaction was lost: a hook that failed, an error, a restart

vars == <<msg, ledger, asked, charged, intents, status, queue, seen, lost>>

Message == 1 .. MaxMessages
Ledger  == INSTANCE PaymentLedger WITH Payment <- Message, rows <- ledger

Pending  == {"pickup_pending", "delivery_pending", "shipping_pending"}
Status   == {"available", "sold"} \cup Pending
Call     == {"payment_intent", "payment_capture", "payment_cancel", "payment_transfer"}
Reaction == [to : {"message", "charge"}, id : Message]
Pc == {"unsent", "validate", "resolve", "insert", "hook", "extend", "pay", "asked", "record",
       "done", "vetoed"}

TypeOK ==
    /\ msg \in [Message -> [pc : Pc, type : AnyType, value : Value, parent : 0 .. MaxMessages,
                            root : 0 .. MaxMessages, payment : 0 .. MaxMessages]]
    /\ ledger \in [Message -> SUBSET Ledger!Row]
    /\ asked \in [Message -> SUBSET Call]
    /\ charged \subseteq Message
    /\ intents \in [Message -> SUBSET Message]
    /\ status \in Status
    /\ queue \in Seq(Reaction)
    /\ seen \in Status \cup {"unread"}
    /\ lost \in BOOLEAN

Init ==
    /\ msg = [m \in Message |-> [pc |-> "unsent", type |-> "pickup", value |-> "pending",
                                 parent |-> 0, root |-> 0, payment |-> 0]]
    /\ Ledger!Init
    /\ asked = [m \in Message |-> {}]
    /\ charged = {}
    /\ intents = [m \in Message |-> {}]
    /\ status = "available"
    /\ queue = <<>>
    /\ seen = "unread"
    /\ lost = FALSE

-----------------------------------------------------------------------------
(* What the marketplace decides *)

Handshake   == {"transaction", "transaction_completed", "transaction_rejected"}
Fulfillment == {"given", "sent", "received", "failed"}

ValidTypeValuePair(type, value) ==
    /\ value \in Handshake => type = "pickup"
    /\ value = "given" => type = "delivery"
    /\ value = "sent" => type = "shipping"
    /\ value \in {"failed", "received"} => type # "pickup"

\* validateAllowedStatus
AllowedStatus(value, st) ==
    CASE value = "pending"       -> st = "available"
      [] value = "accept"        -> st \in {"available", "sold"}
      [] value \in Handshake     -> st \in {"pickup_pending", "sold"}
      [] value \in Fulfillment   -> st = "sold"
      [] OTHER                   -> TRUE

\* Mutant: the column takes the type of the message as it is.
PendingStatusUnmapped(type) == type

PendingStatusForType(type) ==
    CASE type = "pickup"   -> "pickup_pending"
      [] type = "delivery" -> "delivery_pending"
      [] type = "shipping" -> "shipping_pending"

\* Mutant: a cancel makes a sold item available too.
RollbackOfASale(value, st) ==
    CASE value = "cancel"                            -> st # "available"
      [] value = "transaction_rejected"              -> st \in {"pickup_pending", "sold"}
      [] value = "charge_failed"                     -> st # "available"
      [] value \in {"failed", "transfer_failed"}     -> st = "sold"
      [] OTHER                                       -> FALSE

ShouldRollback(value, st) ==
    CASE value = "cancel"                            -> st \in Pending
      [] value = "transaction_rejected"              -> st \in {"pickup_pending", "sold"}
      [] value = "charge_failed"                     -> st \in Pending \cup {"sold"}
      [] value \in {"failed", "transfer_failed"}     -> st = "sold"
      [] OTHER                                       -> FALSE

\* Mutant: an accept reserves whatever the status was.
StatusAfterAcceptingAlways(reaction, st) ==
    LET m == msg[reaction.id]
    IN  CASE reaction.to = "charge"     -> "sold"
          [] reaction.to = "message" /\ m.value = "accept" -> PendingStatusForType(m.type)
          [] reaction.to = "message" /\ ShouldRollback(m.value, st) -> "available"
          [] OTHER                      -> st

\* Mutant: the sale is left to the charge's completed row, which may not come.
StatusAfterMessagesOnly(reaction, st) ==
    IF reaction.to = "charge" THEN st ELSE StatusAfterAcceptingAlways(reaction, st)

\* reactToPurchaseMessage and reactToTransaction: the status that is appended
\* by a reaction that has read st, or st itself where none is.
StatusAfter(reaction, st) ==
    LET m == msg[reaction.id]
    IN  CASE reaction.to = "charge"     -> "sold"
          [] reaction.to = "message" /\ m.value = "accept" /\ st = "available" ->
                 PendingStatusForType(m.type)
          [] reaction.to = "message" /\ ShouldRollback(m.value, st) -> "available"
          [] OTHER                      -> st

\* Mutant: the seller of a delivery is paid with the accept.
PaymentActionOnAccept(type, value) ==
    CASE value = "accept" /\ type # "pickup"                           -> "payment_capture_then_transfer"
      [] value = "pending" /\ type # "pickup"                          -> "payment_intent"
      [] value = "transaction" /\ type = "pickup"                      -> "payment_intent"
      [] value = "received" /\ type # "pickup"                         -> "payment_transfer"
      [] value = "transaction_completed" /\ type = "pickup"            -> "payment_capture_then_transfer"
      [] value \in {"cancel", "transaction_rejected"}                  -> "payment_cancel"
      [] value = "reject" /\ type # "pickup"                           -> "payment_cancel"
      [] OTHER                                                         -> "none"

\* paymentActionForMessage
PaymentAction(type, value) ==
    CASE value = "pending" /\ type # "pickup"                          -> "payment_intent"
      [] value = "transaction" /\ type = "pickup"                      -> "payment_intent"
      [] value = "accept" /\ type # "pickup"                           -> "payment_capture"
      [] value = "transaction_completed" /\ type = "pickup"            -> "payment_capture_then_transfer"
      [] value = "received" /\ type # "pickup"                         -> "payment_transfer"
      [] value \in {"cancel", "transaction_rejected"}                  -> "payment_cancel"
      [] value = "reject" /\ type # "pickup"                           -> "payment_cancel"
      [] OTHER                                                         -> "none"

ActionOf(m) == PaymentAction(msg[m].type, msg[m].value)

\* Mutant: a payment is found by the item, not by the thread.
LinkedByItem(m) == UNION {intents[k] : k \in Message}

\* resolvePaymentIntentForMessage: the payments the parent is linked to.  The
\* query takes any one of them.
Linked(m) == IF msg[m].parent = 0 THEN {} ELSE intents[msg[m].parent]

Stored(m) == msg[m].pc \in {"hook", "extend", "pay", "asked", "record", "done"}

InProgress == {m \in Message : msg[m].pc \notin {"unsent", "done", "vetoed"}}

Goto(m, pc) == msg' = [msg EXCEPT ![m].pc = pc]
Enqueue(reaction) == queue' = Append(queue, reaction)
Link(m, a) == intents' = [intents EXCEPT ![m] = @ \cup {a}]
Ask(a, call) == asked' = [asked EXCEPT ![a] = @ \cup {call}]

-----------------------------------------------------------------------------
(* A message is created *)

\* The create of message m reaches the api.
Says(m, type, value, parent, root) ==
    /\ msg[m].pc = "unsent" /\ Cardinality(InProgress) < AtOnce
    /\ \A k \in Message : k < m => msg[k].pc # "unsent"
    /\ msg' = [msg EXCEPT ![m] = [pc |-> "validate", type |-> type, value |-> value,
                                  parent |-> parent, root |-> root, payment |-> 0]]
    /\ UNCHANGED <<ledger, asked, charged, intents, status, queue, seen, lost>>

\* A buyer asks for the item, or either party answers a stored message.
Send(m) ==
    \/ \E type \in Type : Says(m, type, "pending", 0, m)
    \/ \E p \in Message, value \in Vocabulary \ {"pending"} :
          Stored(p) /\ Says(m, msg[p].type, value, p, msg[p].root)

\* authorFailureMessage: beside the message that authorized the payment.
AuthorFailure(m) ==
    \E a \in Message, type \in {"charge", "transfer"} :
        /\ <<type, "failed">> \in ledger[a]
        /\ Says(m, msg[a].type, IF type = "charge" THEN "charge_failed" ELSE "transfer_failed",
                msg[a].parent, msg[a].root)

\* before_create: validatePurchaseMessage.
Validate(m) ==
    /\ msg[m].pc = "validate"
    /\ IF ValidTypeValuePair(msg[m].type, msg[m].value) /\ AllowedStatus(msg[m].value, status)
       THEN Goto(m, "resolve") ELSE Goto(m, "vetoed")
    /\ UNCHANGED <<ledger, asked, charged, intents, status, queue, seen, lost>>

\* before_create: validatePaymentPreconditions.
Resolve(m) ==
    /\ msg[m].pc = "resolve"
    /\ IF ActionOf(m) \in {"none", "payment_cancel", "payment_intent"} \/ Linked(m) # {}
       THEN Goto(m, "insert") ELSE Goto(m, "vetoed")
    /\ UNCHANGED <<ledger, asked, charged, intents, status, queue, seen, lost>>

\* createCore stores and broadcasts the message.
Insert(m) ==
    /\ msg[m].pc = "insert"
    /\ Goto(m, "hook")
    /\ UNCHANGED <<ledger, asked, charged, intents, status, queue, seen, lost>>

\* after_create reaches the marketplace: enqueuePurchaseReaction.
AfterCreate(m) ==
    /\ msg[m].pc = "hook"
    /\ Enqueue([to |-> "message", id |-> m])
    /\ Goto(m, "extend")
    /\ UNCHANGED <<ledger, asked, charged, intents, status, seen, lost>>

\* extendIntentToMessage.
ExtendIntent(m) ==
    /\ msg[m].pc = "extend"
    /\ \/ (intents[m] # {} \/ Linked(m) = {}) /\ UNCHANGED intents
       \/ intents[m] = {} /\ \E a \in Linked(m) : Link(m, a)
    /\ Goto(m, "pay")
    /\ UNCHANGED <<ledger, asked, charged, status, queue, seen, lost>>

\* runPaymentReaction up to its first call: which payment, and what of it.
Pay(m) ==
    LET action == ActionOf(m)
        Payments == CASE action = "none"           -> {}
                      [] action = "payment_intent" -> {m}
                      [] OTHER                     -> Linked(m)
    IN  /\ msg[m].pc = "pay"
        /\ \/ Payments = {} /\ Goto(m, "done") /\ UNCHANGED asked
           \/ \E a \in Payments :
                 /\ Ask(a, IF action = "payment_capture_then_transfer" THEN "payment_capture" ELSE action)
                 /\ msg' = [msg EXCEPT ![m].pc = "asked", ![m].payment = a]
        /\ UNCHANGED <<ledger, charged, intents, status, queue, seen, lost>>

\* The call is answered.  Only an intent that was recorded, and a capture
\* before a transfer, have something left to do; an error is logged.
Answer(m) ==
    LET a == msg[m].payment
    IN  /\ msg[m].pc = "asked"
        /\ \/ /\ ActionOf(m) = "payment_intent" /\ <<"charge", "intent">> \in ledger[a]
              /\ Goto(m, "record") /\ UNCHANGED asked
           \/ /\ ActionOf(m) = "payment_capture_then_transfer" /\ <<"charge", "initiated">> \in ledger[a]
              /\ Ask(a, "payment_transfer") /\ Goto(m, "done")
           \/ Goto(m, "done") /\ UNCHANGED asked
        /\ UNCHANGED <<ledger, charged, intents, status, queue, seen, lost>>

\* recordPaymentIntent, for the message that authorized the payment.
RecordIntent(m) ==
    /\ msg[m].pc = "record"
    /\ Link(m, m)
    /\ Goto(m, "done")
    /\ UNCHANGED <<ledger, asked, charged, status, queue, seen, lost>>

\* A step of the create fails or times out.  Before the message is stored
\* that refuses it; after, the hook is best effort and the create stands.
Lose(m) ==
    /\ \/ msg[m].pc \in {"validate", "resolve", "insert"} /\ Goto(m, "vetoed") /\ UNCHANGED lost
       \/ msg[m].pc = "hook" /\ Goto(m, "done") /\ lost' = TRUE
       \/ msg[m].pc \in {"extend", "pay", "asked", "record"} /\ Goto(m, "done") /\ UNCHANGED lost
    /\ UNCHANGED <<ledger, asked, charged, intents, status, queue, seen>>

-----------------------------------------------------------------------------
(* The payments, at the api *)

\* A row is appended to the ledger of payment a: on a call, on its outcome or
\* on an event of Stripe, which may also cancel the authorization by itself.
\* The rows nobody here looks at are left out.
AppendTransaction(a) ==
    /\ \E row \in ({"charge"} \X {"intent", "initiated", "succeeded", "failed", "canceled"})
                      \cup ({"transfer"} \X {"initiated", "failed"}) :
          /\ Ledger!Append(a, row)
          /\ row = <<"charge", "intent">> => "payment_intent" \in asked[a]
          /\ row = <<"charge", "initiated">> => "payment_capture" \in asked[a]
          /\ row = <<"transfer", "initiated">> => "payment_transfer" \in asked[a]
          /\ charged' = IF row = <<"charge", "succeeded">> THEN charged \cup {a} ELSE charged
    /\ UNCHANGED <<msg, asked, intents, status, queue, seen, lost>>

\* The hook after it: enqueueTransactionReaction, or the marketplace is not
\* reached.
AfterCharge(a) ==
    /\ a \in charged
    /\ charged' = charged \ {a}
    /\ \/ Enqueue([to |-> "charge", id |-> a]) /\ UNCHANGED lost
       \/ lost' = TRUE /\ UNCHANGED queue
    /\ UNCHANGED <<msg, ledger, asked, intents, status, seen>>

-----------------------------------------------------------------------------
(* The reactions of the item, one after the other *)

ReadStatus ==
    /\ queue # <<>> /\ seen = "unread"
    /\ seen' = status
    /\ UNCHANGED <<msg, ledger, asked, charged, intents, status, queue, lost>>

AppendStatus ==
    /\ seen # "unread"
    /\ status' = StatusAfter(Head(queue), seen)
    /\ queue' = Tail(queue)
    /\ seen' = "unread"
    /\ UNCHANGED <<msg, ledger, asked, charged, intents, lost>>

\* The database fails the reaction: it is logged, and the next one runs.
FailReaction ==
    /\ queue # <<>>
    /\ queue' = Tail(queue)
    /\ seen' = "unread"
    /\ lost' = TRUE
    /\ UNCHANGED <<msg, ledger, asked, charged, intents, status>>

\* The marketplace restarts: the queue and the hooks it was running are gone.
Restart ==
    /\ queue' = <<>>
    /\ seen' = "unread"
    /\ lost' = (lost \/ queue # <<>>)
    /\ msg' = [m \in Message |->
                  [msg[m] EXCEPT !.pc =
                      CASE @ \in {"validate", "resolve"}                 -> "vetoed"
                        [] @ \in {"extend", "pay", "asked", "record"}    -> "done"
                        [] OTHER                                         -> @]]
    /\ UNCHANGED <<ledger, asked, charged, intents, status>>

Create(m) ==
    \/ Send(m) \/ AuthorFailure(m)
    \/ Validate(m) \/ Resolve(m) \/ Insert(m)
    \/ AfterCreate(m) \/ ExtendIntent(m) \/ Pay(m) \/ Answer(m) \/ RecordIntent(m)
    \/ Lose(m)

Next ==
    \/ \E m \in Message : Create(m) \/ AppendTransaction(m) \/ AfterCharge(m)
    \/ ReadStatus \/ AppendStatus \/ FailReaction
    \/ Restart

Spec == Init /\ [][Next]_vars

\* The queue works, and a hook is answered or times out.
Fairness ==
    /\ WF_vars(ReadStatus) /\ WF_vars(AppendStatus)
    /\ \A a \in Message : WF_vars(AfterCharge(a))

FairSpec == Spec /\ Fairness

-----------------------------------------------------------------------------
(* Properties *)

Succeeded(a) == <<"charge", "succeeded">> \in ledger[a]

\* Someone said the sale is off: a failure, or the rejection of the handover.
Undone ==
    \E m \in Message : Stored(m) /\ msg[m].value \in
        {"transaction_rejected", "failed", "charge_failed", "transfer_failed"}

\* The item's status keeps its order whatever the messages and the payments
\* do to each other: reserved only from available, sold only when paid, and
\* never reserved once sold.
StatusIsOrdered ==
    INSTANCE ItemStatus WITH paid <- \E a \in Message : Succeeded(a)

StatusKeepsItsOrder == StatusIsOrdered!Spec

\* A payment is only ever used by the messages of its own thread: nobody's
\* answer captures, cancels or transfers another buyer's money.
IntentsStayInTheirThread ==
    \A m \in Message : \A a \in intents[m] : msg[a].root = msg[m].root

\* Money follows the conversation: a charge is captured only after the seller
\* accepted, or the buyer completed the handover, in its own thread, and is
\* passed on only after the goods were received there.
MoneyFollowsTheConversation ==
    LET Said(a, values) ==
            \E m \in Message : Stored(m) /\ msg[m].root = msg[a].root /\ msg[m].value \in values
    IN  \A a \in Message :
          /\ <<"charge", "initiated">> \in ledger[a] => Said(a, {"accept", "transaction_completed"})
          /\ <<"transfer", "initiated">> \in ledger[a] => Said(a, {"received", "transaction_completed"})

\* An item that is paid for is sold, unless someone said the sale is off or a
\* reaction was lost: no cancel and no late accept undoes it.
PaidItemIsSold ==
    \A a \in Message : Succeeded(a) =>
        \/ status = "sold" \/ Undone \/ lost
        \/ a \in charged
        \/ \E i \in DOMAIN queue : queue[i] = [to |-> "charge", id |-> a]

\* The same as a promise: the sale of a paid item is recorded in the end.
PaidItemIsSoldInTheEnd ==
    \A a \in Message : Succeeded(a) ~> status = "sold" \/ Undone \/ lost

\* docs/services/marketplace/data.md: available is "No active flow".  A thread
\* is active from the reaction to its accept to the message that settles it.
Negative == {"reject", "cancel", "failed", "charge_failed", "transfer_failed", "transaction_rejected"}
Quiet == /\ queue = <<>> /\ charged = {} /\ ~ lost
         /\ \A m \in Message : msg[m].pc # "hook"
Active(root) ==
    /\ \E m \in Message : Stored(m) /\ msg[m].root = root /\ msg[m].value = "accept"
    /\ ~ \E m \in Message : Stored(m) /\ msg[m].root = root /\ msg[m].value \in Negative

AvailableMeansNoActiveFlow ==
    Quiet /\ status = "available" => ~ \E root \in Message : Active(root)

\* docs/services/marketplace/data.md: "a reply always resolves the intent
\* through its direct parent, no matter how deep the chain".
ReplyResolvesIntent ==
    [][\A m \in Message :
          /\ msg[m].pc = "extend" /\ msg'[m].pc = "pay" /\ msg[m].parent # 0
          /\ intents[msg[m].root] # {}
          => Linked(m) # {}]_vars

=============================================================================
