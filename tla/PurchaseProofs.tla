--------------------------- MODULE PurchaseProofs ---------------------------
(***************************************************************************)
(* The sale of an item, for any number of messages and of creates in       *)
(* progress: its status keeps its order, a payment stays in its thread,    *)
(* money follows the conversation, and a paid item is sold.                *)
(*                                                                         *)
(* The argument is that what is said stays said: once sent, a message      *)
(* keeps its words, its parent and its thread, and once stored it is       *)
(* stored.  So a call asked for because of a message, and a reaction       *)
(* queued for it, still have it behind them whenever they take effect.     *)
(***************************************************************************)
EXTENDS Purchase, SequenceTheorems, TLAPS

Sent(m) == msg[m].pc # "unsent"

\* In the thread of a, one of the values was said.
Said(a, values) ==
    \E m \in Message : Stored(m) /\ msg[m].root = msg[a].root /\ msg[m].value \in values

Sale     == {"accept", "transaction_completed"}
Delivery == {"received", "transaction_completed"}
Failing  == {"transaction_rejected", "failed", "charge_failed", "transfer_failed"}

\* A message is in the thread of its parent, and of the payment it moves.
Threads ==
    \A m \in Message : Sent(m) =>
        /\ msg[m].parent # 0 => Sent(msg[m].parent) /\ msg[msg[m].parent].root = msg[m].root
        /\ msg[m].payment # 0 => Sent(msg[m].payment) /\ msg[msg[m].payment].root = msg[m].root

\* A message is linked to payments of its thread.
Intents ==
    \A m \in Message : \A a \in intents[m] : Sent(m) /\ Sent(a) /\ msg[a].root = msg[m].root

\* A procedure was called because of what was said.
Calls ==
    \A a \in Message :
        /\ asked[a] # {} => Sent(a)
        /\ "payment_capture" \in asked[a] => Said(a, Sale)
        /\ "payment_transfer" \in asked[a] => Said(a, Delivery)

\* A row is there because a procedure was called.
Rows ==
    \A a \in Message :
        /\ ledger[a] # {} => Sent(a)
        /\ <<"charge", "initiated">> \in ledger[a] => "payment_capture" \in asked[a]
        /\ <<"transfer", "initiated">> \in ledger[a] => "payment_transfer" \in asked[a]

\* A reaction has its cause behind it, and has read the current status.
Founded(reaction) ==
    /\ reaction.to = "charge" => Succeeded(reaction.id)
    /\ reaction.to = "message" => Stored(reaction.id)

Reactions ==
    /\ seen # "unread" => queue # <<>> /\ seen = status
    /\ \A a \in charged : Succeeded(a)
    /\ \A i \in DOMAIN queue : Founded(queue[i])

IInv == TypeOK /\ Threads /\ Intents /\ Calls /\ Rows /\ Reactions /\ PaidItemIsSold

-----------------------------------------------------------------------------
(* What is said stays said *)

Conversation == [Message -> [pc : Pc, type : AnyType, value : Value,
                             parent : 0 .. MaxMessages, root : 0 .. MaxMessages,
                             payment : 0 .. MaxMessages]]

\* A message that was sent keeps what it says, and stays stored.
Kept ==
    \A m \in Message :
        /\ Sent(m) => /\ Sent(m)'
                      /\ msg'[m].value = msg[m].value /\ msg'[m].type = msg[m].type
                      /\ msg'[m].parent = msg[m].parent /\ msg'[m].root = msg[m].root
        /\ Stored(m) => Stored(m)'

\* No message is sent in the step, nor a payment chosen.
NoneSent == \A m \in Message : (Sent(m)' => Sent(m)) /\ msg'[m].payment = msg[m].payment

LEMMA MessagesAreNumbers == Message \subseteq 0 .. MaxMessages /\ 0 \notin Message
  BY PurchaseAssumption DEF PurchaseAssumption, Message

\* Nothing happens to the messages.
LEMMA MessagesStand ==
    ASSUME msg' = msg
    PROVE  Kept /\ NoneSent
  BY DEF Kept, NoneSent, Sent, Stored

\* A message that was sent moves on.
LEMMA MessageMoves ==
    ASSUME msg \in Conversation, NEW m \in Message, NEW pc \in Pc, Goto(m, pc), Sent(m),
           pc # "unsent", Stored(m) => pc \in {"hook", "extend", "pay", "asked", "record", "done"}
    PROVE  msg' \in Conversation /\ Kept /\ NoneSent
  <1>1. msg' \in Conversation
    BY DEF Goto, Conversation
  <1>2. /\ msg'[m].pc = pc /\ msg'[m].value = msg[m].value /\ msg'[m].type = msg[m].type
        /\ msg'[m].parent = msg[m].parent /\ msg'[m].root = msg[m].root
        /\ msg'[m].payment = msg[m].payment
        /\ \A k \in Message : k # m => msg'[k] = msg[k]
    BY DEF Goto, Conversation
  <1>3. Kept /\ NoneSent
    BY <1>2 DEF Kept, NoneSent, Sent, Stored
  <1>4. QED
    BY <1>1, <1>3

\* A message is sent.
LEMMA MessageIsSent ==
    ASSUME msg \in Conversation, NEW m \in Message, NEW type \in AnyType, NEW value \in Value,
           NEW parent \in 0 .. MaxMessages, NEW root \in 0 .. MaxMessages,
           Says(m, type, value, parent, root), Threads,
           parent # 0 => Sent(parent) /\ msg[parent].root = root
    PROVE  msg' \in Conversation /\ Kept /\ Threads'
  <1> DEFINE r == [pc |-> "validate", type |-> type, value |-> value, parent |-> parent, root |-> root,
               payment |-> 0]
  <1>1. msg[m].pc = "unsent" /\ msg' = [msg EXCEPT ![m] = r]
    BY DEF Says
  <1>2. r \in [pc : Pc, type : AnyType, value : Value, parent : 0 .. MaxMessages,
               root : 0 .. MaxMessages, payment : 0 .. MaxMessages]
    BY PurchaseAssumption DEF PurchaseAssumption, Pc
  <1>3. msg' \in Conversation
    BY <1>1, <1>2 DEF Conversation
  <1>4. msg'[m] = r /\ \A k \in Message : k # m => msg'[k] = msg[k]
    BY <1>1 DEF Conversation
  <1>5. Kept
    BY <1>1, <1>4 DEF Kept, Sent, Stored
  <1>6. ASSUME NEW k \in Message, Sent(k)',
               NEW p \in Message,
               \/ p = msg'[k].parent
               \/ p = msg'[k].payment
        PROVE  (Sent(p) /\ msg[p].root = msg[k].root)'
    <2>1. 0 \notin Message
      BY MessagesAreNumbers
    <2>2. CASE k = m
      <3>1. p = parent /\ msg'[k].root = root /\ p # m
        BY <1>1, <1>4, <1>6, <2>1, <2>2 DEF Sent
      <3>2. QED
        BY <1>4, <1>6, <2>1, <3>1 DEF Sent
    <2>3. CASE k # m
      <3>1. msg'[k] = msg[k] /\ Sent(k)
        BY <1>4, <1>6, <2>3 DEF Sent
      <3>2. Sent(p) /\ msg[p].root = msg[k].root
        BY <1>6, <2>1, <3>1 DEF Threads
      <3>3. QED
        BY <1>1, <1>4, <3>1, <3>2 DEF Sent
    <2>4. QED
      BY <2>2, <2>3
  <1>7. Threads'
    <2>1. \A k \in 0 .. MaxMessages : k # 0 => k \in Message
      BY PurchaseAssumption DEF PurchaseAssumption, Message
    <2>2. \A k \in Message : msg'[k].parent \in 0 .. MaxMessages /\ msg'[k].payment \in 0 .. MaxMessages
      BY <1>3 DEF Conversation
    <2>3. QED
      BY <1>6, <2>1, <2>2 DEF Threads, Sent
  <1>8. QED
    BY <1>3, <1>5, <1>7

-----------------------------------------------------------------------------
(* What rests on it *)

LEMMA ThreadsKept ==
    ASSUME msg \in Conversation, Threads, Kept, NoneSent
    PROVE  Threads'
  <1> SUFFICES ASSUME NEW m \in Message, Sent(m)', NEW p \in {msg[m].parent, msg[m].payment}, p # 0
               PROVE  (Sent(p) /\ msg[p].root = msg[m].root)'
    BY DEF Threads, NoneSent, Kept
  <1>1. Sent(m)
    BY DEF NoneSent
  <1>2. p \in Message
    BY PurchaseAssumption DEF PurchaseAssumption, Message, Conversation
  <1>3. Sent(p) /\ msg[p].root = msg[m].root
    BY <1>1 DEF Threads
  <1>4. QED
    BY <1>1, <1>2, <1>3 DEF Kept, Sent

LEMMA IntentsKept ==
    ASSUME intents \in [Message -> SUBSET Message], Intents, Kept, UNCHANGED intents
    PROVE  Intents'
  BY DEF Intents, Kept, Sent

LEMMA SaidKept ==
    ASSUME Kept, NEW a \in Message, Sent(a), NEW values, Said(a, values)
    PROVE  Said(a, values)'
  <1>1. PICK m \in Message : Stored(m) /\ msg[m].root = msg[a].root /\ msg[m].value \in values
    BY DEF Said
  <1>2. Sent(m)
    BY <1>1 DEF Stored, Sent
  <1>3. QED
    BY <1>1, <1>2 DEF Kept, Said

LEMMA CallsKept ==
    ASSUME Calls, Kept, UNCHANGED asked
    PROVE  Calls'
  <1> SUFFICES ASSUME NEW a \in Message
               PROVE  /\ asked[a] # {} => Sent(a)'
                      /\ "payment_capture" \in asked[a] => Said(a, Sale)'
                      /\ "payment_transfer" \in asked[a] => Said(a, Delivery)'
    BY DEF Calls, Sale, Delivery
  <1>1. asked[a] # {} => Sent(a) /\ Sent(a)'
    BY DEF Calls, Kept
  <1>2. "payment_capture" \in asked[a] => Said(a, Sale)'
    BY <1>1, SaidKept DEF Calls
  <1>3. "payment_transfer" \in asked[a] => Said(a, Delivery)'
    BY <1>1, SaidKept DEF Calls
  <1>4. QED
    BY <1>1, <1>2, <1>3

\* The ledger stays, and no call is taken back.
LEMMA RowsKept ==
    ASSUME Rows, Kept, UNCHANGED ledger, \A a \in Message : asked[a] \subseteq asked'[a]
    PROVE  Rows'
  BY DEF Rows, Kept

LEMMA ReactionsKept ==
    ASSUME TypeOK, Reactions, Kept, UNCHANGED <<ledger, charged, status, queue, seen>>
    PROVE  Reactions'
  <1>1. \A i \in DOMAIN queue : queue[i] \in Reaction /\ Founded(queue[i])
    BY DEF TypeOK, Reactions
  <1>2. ASSUME NEW i \in DOMAIN queue
        PROVE  Founded(queue[i])'
    BY <1>1 DEF Founded, Reaction, Kept, Succeeded
  <1>3. QED
    BY <1>2 DEF Reactions, Succeeded

\* A failure that was said stays said, and a paid item stays sold.
LEMMA SaleKept ==
    ASSUME TypeOK, PaidItemIsSold, Kept, UNCHANGED <<ledger, charged, status, queue>>, lost => lost'
    PROVE  PaidItemIsSold'
  <1>1. Undone => Undone'
    BY DEF Undone, Kept, Stored, Sent
  <1>2. QED
    BY <1>1 DEF PaidItemIsSold, Succeeded

\* A step of the messages alone.
LEMMA OnlyMessages ==
    ASSUME IInv, msg' \in Conversation, Kept, Threads', lost' \in BOOLEAN, lost => lost',
           UNCHANGED <<ledger, asked, charged, intents, status, queue, seen>>
    PROVE  IInv'
  <1>1. TypeOK'
    BY DEF IInv, TypeOK, Conversation
  <1>2. Intents'
    BY IntentsKept DEF IInv, TypeOK
  <1>3. Calls' /\ Rows'
    BY CallsKept, RowsKept DEF IInv
  <1>4. Reactions' /\ PaidItemIsSold'
    BY ReactionsKept, SaleKept DEF IInv
  <1>5. QED
    BY <1>1, <1>2, <1>3, <1>4 DEF IInv

-----------------------------------------------------------------------------
(* The steps of a create *)

LEMMA SendOK ==
    ASSUME IInv, NEW m \in Message, Send(m)
    PROVE  IInv'
  <1>1. msg \in Conversation /\ Threads /\ m \in 0 .. MaxMessages
    BY MessagesAreNumbers DEF IInv, TypeOK, Conversation
  <1>2. CASE \E type \in Type : Says(m, type, "pending", 0, m)
    <2>1. PICK type \in Type : Says(m, type, "pending", 0, m)
      BY <1>2
    <2>2. type \in AnyType /\ "pending" \in Value /\ 0 \in 0 .. MaxMessages
      BY PurchaseAssumption DEF PurchaseAssumption, Value
    <2>3. msg' \in Conversation /\ Kept /\ Threads'
      BY <1>1, <2>1, <2>2, MessageIsSent
    <2>4. QED
      BY <2>1, <2>3, OnlyMessages DEF Says, IInv, TypeOK
  <1>3. CASE \E p \in Message, value \in Vocabulary \ {"pending"} :
                Stored(p) /\ Says(m, msg[p].type, value, p, msg[p].root)
    <2>1. PICK p \in Message, value \in Vocabulary \ {"pending"} :
                Stored(p) /\ Says(m, msg[p].type, value, p, msg[p].root)
      BY <1>3
    <2>2. /\ msg[p].type \in AnyType /\ msg[p].root \in 0 .. MaxMessages
          /\ value \in Value /\ p \in 0 .. MaxMessages /\ Sent(p)
      BY <1>1, <2>1, PurchaseAssumption, MessagesAreNumbers
         DEF PurchaseAssumption, Conversation, Stored, Sent
    <2>3. msg' \in Conversation /\ Kept /\ Threads'
      BY <1>1, <2>1, <2>2, MessageIsSent
    <2>4. QED
      BY <2>1, <2>3, OnlyMessages DEF Says, IInv, TypeOK
  <1>4. QED
    BY <1>2, <1>3 DEF Send

\* A failure message is in the thread of the one that authorized the payment.
LEMMA AuthorFailureOK ==
    ASSUME IInv, NEW m \in Message, AuthorFailure(m)
    PROVE  IInv'
  <1>1. msg \in Conversation /\ Threads
    BY DEF IInv, TypeOK, Conversation
  <1>2. PICK a \in Message, type \in {"charge", "transfer"} :
            /\ <<type, "failed">> \in ledger[a]
            /\ Says(m, msg[a].type, IF type = "charge" THEN "charge_failed" ELSE "transfer_failed",
                    msg[a].parent, msg[a].root)
    BY DEF AuthorFailure
  <1> DEFINE value == IF type = "charge" THEN "charge_failed" ELSE "transfer_failed"
  <1>3. value \in Value /\ Says(m, msg[a].type, value, msg[a].parent, msg[a].root)
    BY <1>2 DEF Value
  <1> HIDE DEF value
  <1>4. Sent(a)
    BY <1>2 DEF IInv, Rows
  <1>5. /\ msg[a].type \in AnyType /\ msg[a].parent \in 0 .. MaxMessages /\ msg[a].root \in 0 .. MaxMessages
        /\ msg[a].parent # 0 => Sent(msg[a].parent) /\ msg[msg[a].parent].root = msg[a].root
    BY <1>1, <1>4 DEF Conversation, Threads
  <1>6. msg' \in Conversation /\ Kept /\ Threads'
    BY <1>1, <1>3, <1>5, MessageIsSent
  <1>7. QED
    BY <1>3, <1>6, OnlyMessages DEF Says, IInv, TypeOK

\* A create that goes on, is refused or is cut off.
LEMMA MovesOK ==
    ASSUME IInv, NEW m \in Message, Validate(m) \/ Resolve(m) \/ Insert(m) \/ Lose(m)
    PROVE  IInv'
  <1>1. msg \in Conversation /\ Threads
    BY DEF IInv, TypeOK, Conversation
  <1>2. /\ lost' \in BOOLEAN /\ (lost => lost')
        /\ UNCHANGED <<ledger, asked, charged, intents, status, queue, seen>>
    BY DEF Validate, Resolve, Insert, Lose, IInv, TypeOK
  <1>3. PICK pc \in {"resolve", "vetoed", "insert", "hook", "done"} :
            Goto(m, pc) /\ Sent(m) /\ (Stored(m) => pc = "done")
    BY DEF Validate, Resolve, Insert, Lose, Sent, Stored
  <1>4. pc \in Pc /\ pc # "unsent"
    BY DEF Pc
  <1>5. msg' \in Conversation /\ Kept /\ NoneSent
    BY <1>1, <1>3, <1>4, MessageMoves
  <1>6. QED
    BY <1>1, <1>2, <1>5, ThreadsKept, OnlyMessages

\* The message is at a step after it was stored, and goes to the next.
LEMMA GoesOn ==
    ASSUME IInv, NEW m \in Message, Stored(m), NEW pc \in {"extend", "pay", "asked", "record", "done"},
           Goto(m, pc)
    PROVE  msg' \in Conversation /\ Kept /\ NoneSent /\ Threads'
  <1>1. msg \in Conversation /\ Threads /\ pc \in Pc /\ pc # "unsent" /\ Sent(m)
    BY DEF IInv, TypeOK, Conversation, Pc, Stored, Sent
  <1>2. msg' \in Conversation /\ Kept /\ NoneSent
    BY <1>1, MessageMoves
  <1>3. QED
    BY <1>1, <1>2, ThreadsKept

\* The payments the parent is linked to are of the thread.
LEMMA LinkedOK ==
    ASSUME IInv, NEW m \in Message, Sent(m), NEW a \in Linked(m)
    PROVE  a \in Message /\ Sent(a) /\ msg[a].root = msg[m].root
  <1> DEFINE p == msg[m].parent
  <1>1. p # 0 /\ a \in intents[p]
    BY DEF Linked
  <1>2. p \in Message
    BY <1>1, PurchaseAssumption DEF PurchaseAssumption, Message, IInv, TypeOK
  <1>3. msg[p].root = msg[m].root
    BY <1>1 DEF IInv, Threads
  <1>4. a \in Message /\ Sent(a) /\ msg[a].root = msg[p].root
    BY <1>1, <1>2 DEF IInv, Intents, TypeOK
  <1> HIDE DEF p
  <1>5. QED
    BY <1>3, <1>4

LEMMA IntentLinked ==
    ASSUME IInv, NEW m \in Message, Sent(m), NEW a \in Message, Link(m, a),
           Sent(a), msg[a].root = msg[m].root, Kept
    PROVE  intents' \in [Message -> SUBSET Message] /\ Intents'
  <1>1. /\ intents' \in [Message -> SUBSET Message]
        /\ intents'[m] = intents[m] \cup {a}
        /\ \A k \in Message : k # m => intents'[k] = intents[k]
    BY DEF Link, IInv, TypeOK
  <1>2. \A k \in Message : \A b \in intents'[k] :
            b \in Message /\ Sent(k) /\ Sent(b) /\ msg[b].root = msg[k].root
    BY <1>1 DEF IInv, Intents
  <1>3. Intents'
    BY <1>2 DEF Intents, Kept, Sent
  <1>4. QED
    BY <1>1, <1>3

LEMMA LinkOK ==
    ASSUME IInv, NEW m \in Message, ExtendIntent(m) \/ RecordIntent(m)
    PROVE  IInv'
  <1>1. /\ Stored(m) /\ Sent(m)
        /\ UNCHANGED <<ledger, asked, charged, status, queue, seen, lost>>
    BY DEF ExtendIntent, RecordIntent, Stored, Sent
  <1>2. msg' \in Conversation /\ Kept /\ Threads'
    BY <1>1, GoesOn DEF ExtendIntent, RecordIntent
  <1>3. intents' \in [Message -> SUBSET Message] /\ Intents'
    <2>1. CASE UNCHANGED intents
      BY <1>2, <2>1, IntentsKept DEF IInv, TypeOK
    <2>2. ASSUME NEW a \in Linked(m), Link(m, a)
          PROVE  intents' \in [Message -> SUBSET Message] /\ Intents'
      <3>1. a \in Message /\ Sent(a) /\ msg[a].root = msg[m].root
        BY <1>1, LinkedOK
      <3>2. QED
        BY <1>1, <1>2, <2>2, <3>1, IntentLinked
    <2>3. CASE Link(m, m)
      BY <1>1, <1>2, <2>3, IntentLinked
    <2>4. QED
      BY <2>1, <2>2, <2>3 DEF ExtendIntent, RecordIntent
  <1>4. TypeOK'
    BY <1>1, <1>2, <1>3 DEF IInv, TypeOK, Conversation
  <1>5. Calls' /\ Rows' /\ Reactions' /\ PaidItemIsSold'
    BY <1>1, <1>2, CallsKept, RowsKept, ReactionsKept, SaleKept DEF IInv
  <1>6. QED
    BY <1>2, <1>3, <1>4, <1>5 DEF IInv

\* A payment of the thread is chosen.
LEMMA PaymentChosen ==
    ASSUME IInv, NEW m \in Message, msg[m].pc = "pay", NEW a \in Message,
           msg' = [msg EXCEPT ![m].pc = "asked", ![m].payment = a],
           Sent(a), msg[a].root = msg[m].root
    PROVE  msg' \in Conversation /\ Kept /\ Threads'
  <1>1. msg \in Conversation /\ Threads /\ a \in 0 .. MaxMessages
    BY MessagesAreNumbers DEF IInv, TypeOK, Conversation
  <1>2. msg' \in Conversation
    BY <1>1 DEF Conversation, Pc
  <1>3. /\ msg'[m].pc = "asked" /\ msg'[m].value = msg[m].value /\ msg'[m].type = msg[m].type
        /\ msg'[m].parent = msg[m].parent /\ msg'[m].root = msg[m].root
        /\ msg'[m].payment = a
        /\ \A k \in Message : k # m => msg'[k] = msg[k]
    BY <1>1 DEF Conversation
  <1>4. Kept /\ \A k \in Message : Sent(k)' => Sent(k)
    BY <1>3 DEF Kept, Sent, Stored
  <1>5. ASSUME NEW k \in Message, Sent(k)', NEW p \in {msg'[k].parent, msg'[k].payment}, p # 0
        PROVE  (Sent(p) /\ msg[p].root = msg[k].root)'
    <2>1. p \in Message
      <3>1. p \in 0 .. MaxMessages
        BY <1>2, <1>5 DEF Conversation
      <3>2. QED
        BY <1>5, <3>1, PurchaseAssumption DEF PurchaseAssumption, Message
    <2>2. Sent(k) /\ (p = msg[k].parent \/ p = msg[k].payment \/ (p = a /\ k = m))
      BY <1>3, <1>4, <1>5
    <2>3. Sent(p) /\ msg[p].root = msg[k].root
      BY <1>1, <1>5, <2>2 DEF Threads
    <2>4. QED
      BY <1>4, <2>1, <2>2, <2>3 DEF Kept, Sent
  <1>6. Threads'
    BY <1>5 DEF Threads
  <1>7. QED
    BY <1>2, <1>4, <1>6

\* What was said allows the call that is asked for because of it.
LEMMA AskedOK ==
    ASSUME IInv, NEW m \in Message, Stored(m), NEW a \in Message, NEW call \in Call, Ask(a, call),
           Sent(a), msg[a].root = msg[m].root, Kept,
           call = "payment_capture" => msg[m].value \in Sale,
           call = "payment_transfer" => msg[m].value \in Delivery
    PROVE  /\ asked' \in [Message -> SUBSET Call]
           /\ Calls'
           /\ \A b \in Message : asked[b] \subseteq asked'[b]
  <1>1. /\ asked' \in [Message -> SUBSET Call]
        /\ asked'[a] = asked[a] \cup {call}
        /\ \A b \in Message : b # a => asked'[b] = asked[b]
    BY DEF Ask, IInv, TypeOK
  <1>2. /\ call = "payment_capture" => Said(a, Sale)
        /\ call = "payment_transfer" => Said(a, Delivery)
    BY DEF Said
  <1>3. ASSUME NEW b \in Message
        PROVE  /\ asked'[b] # {} => Sent(b)'
               /\ "payment_capture" \in asked'[b] => Said(b, Sale)'
               /\ "payment_transfer" \in asked'[b] => Said(b, Delivery)'
    <2>1. asked'[b] # {} => Sent(b) /\ Sent(b)'
      BY <1>1 DEF IInv, Calls, Kept
    <2>2. /\ "payment_capture" \in asked'[b] => Said(b, Sale)
          /\ "payment_transfer" \in asked'[b] => Said(b, Delivery)
      BY <1>1, <1>2 DEF IInv, Calls
    <2>3. QED
      BY <2>1, <2>2, SaidKept
  <1>4. Calls'
    BY <1>3 DEF Calls, Sale, Delivery
  <1>5. QED
    BY <1>1, <1>4

\* What the payment action of a message says of the message.
LEMMA ActionFollowsValue ==
    ASSUME NEW m \in Message
    PROVE  /\ ActionOf(m) = "payment_capture" => msg[m].value \in Sale
           /\ ActionOf(m) = "payment_transfer" => msg[m].value \in Delivery
           /\ ActionOf(m) = "payment_capture_then_transfer" => msg[m].value \in Sale \cap Delivery
           /\ ActionOf(m) \in Call \cup {"none", "payment_capture_then_transfer"}
  BY DEF ActionOf, PaymentAction, Sale, Delivery, Call

\* A step that asks for a call, or for none.
LEMMA PaymentKept ==
    ASSUME IInv, msg' \in Conversation, Kept, Threads',
           asked' \in [Message -> SUBSET Call], Calls', \A b \in Message : asked[b] \subseteq asked'[b],
           UNCHANGED <<ledger, charged, intents, status, queue, seen, lost>>
    PROVE  IInv'
  <1>1. Intents' /\ Rows' /\ Reactions' /\ PaidItemIsSold'
    BY IntentsKept, RowsKept, ReactionsKept, SaleKept DEF IInv, TypeOK
  <1>2. TypeOK'
    BY DEF IInv, TypeOK, Conversation
  <1>3. QED
    BY <1>1, <1>2 DEF IInv

LEMMA PayOK ==
    ASSUME IInv, NEW m \in Message, Pay(m)
    PROVE  IInv'
  <1>1. /\ msg[m].pc = "pay" /\ Stored(m) /\ Sent(m)
        /\ UNCHANGED <<ledger, charged, intents, status, queue, seen, lost>>
    BY DEF Pay, Stored, Sent
  <1>2. CASE Goto(m, "done") /\ UNCHANGED asked
    <2>1. msg' \in Conversation /\ Kept /\ Threads'
      BY <1>1, <1>2, GoesOn
    <2>2. QED
      BY <1>1, <1>2, <2>1, CallsKept, PaymentKept DEF IInv, TypeOK
  <1> DEFINE call == IF ActionOf(m) = "payment_capture_then_transfer" THEN "payment_capture" ELSE ActionOf(m)
  <1>3. ASSUME NEW a \in {m} \cup Linked(m), ActionOf(m) # "none", Ask(a, call),
               msg' = [msg EXCEPT ![m].pc = "asked", ![m].payment = a]
        PROVE  IInv'
    <2>1. a \in Message /\ Sent(a) /\ msg[a].root = msg[m].root
      BY <1>1, LinkedOK
    <2>2. msg' \in Conversation /\ Kept /\ Threads'
      BY <1>1, <1>3, <2>1, PaymentChosen
    <2>3. /\ call \in Call
          /\ call = "payment_capture" => msg[m].value \in Sale
          /\ call = "payment_transfer" => msg[m].value \in Delivery
      BY <1>3, ActionFollowsValue DEF Call
    <2> HIDE DEF call
    <2>4. /\ asked' \in [Message -> SUBSET Call] /\ Calls'
          /\ \A b \in Message : asked[b] \subseteq asked'[b]
      BY <1>1, <1>3, <2>1, <2>2, <2>3, AskedOK
    <2>5. QED
      BY <1>1, <2>2, <2>4, PaymentKept
  <1>4. QED
    BY <1>2, <1>3 DEF Pay

LEMMA AnswerOK ==
    ASSUME IInv, NEW m \in Message, Answer(m)
    PROVE  IInv'
  <1> DEFINE a == msg[m].payment
  <1>1. /\ Stored(m) /\ Sent(m) /\ a \in 0 .. MaxMessages
        /\ UNCHANGED <<ledger, charged, intents, status, queue, seen, lost>>
    BY DEF Answer, Stored, Sent, IInv, TypeOK
  <1>2. msg' \in Conversation /\ Kept /\ Threads'
    BY <1>1, GoesOn DEF Answer
  <1>3. CASE UNCHANGED asked
    BY <1>1, <1>2, <1>3, CallsKept, PaymentKept DEF IInv, TypeOK
  <1>4. CASE ActionOf(m) = "payment_capture_then_transfer" /\ Ask(a, "payment_transfer")
    <2>1. CASE a = 0
      <3>1. UNCHANGED asked
        BY <1>4, <2>1, MessagesAreNumbers DEF Ask, IInv, TypeOK
      <3>2. QED
        BY <1>3, <3>1
    <2>2. CASE a # 0
      <3>1. a \in Message
        BY <1>1, <2>2, PurchaseAssumption DEF PurchaseAssumption, Message
      <3>2. Sent(a) /\ msg[a].root = msg[m].root
        BY <1>1, <2>2 DEF IInv, Threads
      <3>3. msg[m].value \in Delivery /\ "payment_transfer" \in Call
        BY <1>4, ActionFollowsValue DEF Call
      <3> HIDE DEF a
      <3>4. /\ asked' \in [Message -> SUBSET Call] /\ Calls'
            /\ \A b \in Message : asked[b] \subseteq asked'[b]
        BY <1>1, <1>2, <1>4, <3>1, <3>2, <3>3, AskedOK
      <3>5. QED
        BY <1>1, <1>2, <3>4, PaymentKept
    <2>3. QED
      BY <2>1, <2>2
  <1>5. QED
    BY <1>3, <1>4 DEF Answer

-----------------------------------------------------------------------------
(* The queue *)

\* A reaction is queued.
LEMMA EnqueuedOK ==
    ASSUME IInv, NEW r \in Reaction, Enqueue(r), Kept, UNCHANGED <<ledger, status, seen>>,
           charged' \subseteq charged, Founded(r)'
    PROVE  queue' \in Seq(Reaction) /\ Reactions'
  <1>1. /\ queue' \in Seq(Reaction) /\ queue' # <<>>
        /\ DOMAIN queue' = 1 .. Len(queue) + 1
        /\ \A i \in 1 .. Len(queue) : i \in DOMAIN queue /\ queue'[i] = queue[i] /\ queue[i] \in Reaction
        /\ queue'[Len(queue) + 1] = r
    <2>1. queue \in Seq(Reaction) /\ queue' = Append(queue, r)
      BY DEF Enqueue, IInv, TypeOK
    <2>2. Len(queue') = Len(queue) + 1 /\ Len(queue) \in Nat
      BY <2>1, AppendProperties, LenProperties
    <2>3. QED
      BY <2>1, <2>2, AppendProperties, LenProperties, EmptySeq
  <1>2. ASSUME NEW i \in DOMAIN queue' PROVE Founded(queue[i])'
    <2>1. CASE i \in 1 .. Len(queue)
      <3>1. Founded(queue[i])
        BY <1>1, <2>1 DEF IInv, Reactions
      <3>2. QED
        BY <1>1, <2>1, <3>1 DEF Founded, Reaction, Succeeded, Kept
    <2>2. CASE i = Len(queue) + 1
      BY <1>1, <2>2 DEF Founded
    <2>3. QED
      BY <1>1, <1>2, <2>1, <2>2, LenProperties DEF IInv, TypeOK
  <1>3. QED
    BY <1>1, <1>2 DEF IInv, Reactions, Succeeded

\* Where a reaction is queued, and one is added or the first is taken.
Queued(r) == \E i \in DOMAIN queue : queue[i] = r

LEMMA QueueGrows ==
    ASSUME queue \in Seq(Reaction), NEW r \in Reaction, Enqueue(r)
    PROVE  Queued(r)' /\ \A q : Queued(q) => Queued(q)'
  <1>1. /\ Len(queue') = Len(queue) + 1 /\ Len(queue) \in Nat
        /\ DOMAIN queue = 1 .. Len(queue) /\ DOMAIN queue' = 1 .. Len(queue')
        /\ \A i \in 1 .. Len(queue) : queue'[i] = queue[i]
        /\ queue'[Len(queue) + 1] = r
    BY AppendProperties, LenProperties DEF Enqueue
  <1>2. QED
    BY <1>1 DEF Queued

LEMMA QueueShrinks ==
    ASSUME queue \in Seq(Reaction), queue # <<>>, queue' = Tail(queue)
    PROVE  /\ queue' \in Seq(Reaction) /\ Head(queue) \in Reaction /\ Queued(Head(queue))
           /\ \A q : Queued(q) => Queued(q)' \/ q = Head(queue)
           /\ \A q : Queued(q)' => Queued(q)
  <1>1. /\ Len(queue') = Len(queue) - 1 /\ Len(queue) \in Nat \ {0}
        /\ DOMAIN queue = 1 .. Len(queue) /\ DOMAIN queue' = 1 .. Len(queue')
        /\ queue' \in Seq(Reaction) /\ Head(queue) = queue[1]
    BY LenProperties, HeadTailProperties, EmptySeq
  <1>2. \A i \in 1 .. Len(queue') : queue'[i] = queue[i + 1]
    BY HeadTailProperties
  <1>3. \A i \in 1 .. Len(queue) : i = 1 \/ i - 1 \in 1 .. Len(queue')
    BY <1>1
  <1>4. \A i \in 1 .. Len(queue) : i # 1 => queue[i] = queue'[i - 1]
    BY <1>1, <1>2, <1>3
  <1>5. Head(queue) \in Reaction /\ Queued(Head(queue))
    BY <1>1 DEF Queued
  <1>6. ASSUME NEW q, Queued(q), q # Head(queue)
        PROVE  Queued(q)'
    <2>1. PICK i \in 1 .. Len(queue) : queue[i] = q
      BY <1>1, <1>6 DEF Queued
    <2>2. i - 1 \in DOMAIN queue' /\ queue'[i - 1] = q
      BY <1>1, <1>3, <1>4, <1>6, <2>1
    <2>3. QED
      BY <2>2 DEF Queued
  <1>7. ASSUME NEW q, Queued(q)'
        PROVE  Queued(q)
    <2>1. PICK i \in 1 .. Len(queue') : queue'[i] = q
      BY <1>1, <1>7 DEF Queued
    <2>2. i + 1 \in DOMAIN queue /\ queue[i + 1] = q
      BY <1>1, <1>2, <2>1
    <2>3. QED
      BY <2>2 DEF Queued
  <1>8. QED
    BY <1>1, <1>5, <1>6, <1>7

LEMMA AfterCreateOK ==
    ASSUME IInv, NEW m \in Message, AfterCreate(m)
    PROVE  IInv'
  <1> DEFINE r == [to |-> "message", id |-> m]
  <1>1. /\ Stored(m) /\ Enqueue(r) /\ Goto(m, "extend")
        /\ UNCHANGED <<ledger, asked, charged, intents, status, seen, lost>>
    BY DEF AfterCreate, Stored
  <1>2. msg' \in Conversation /\ Kept /\ Threads'
    BY <1>1, GoesOn
  <1>3. r \in Reaction /\ r.to = "message" /\ r.id = m
    BY DEF Reaction
  <1> HIDE DEF r
  <1>4. Founded(r)'
    BY <1>1, <1>2, <1>3 DEF Founded, Kept
  <1>5. queue' \in Seq(Reaction) /\ Reactions'
    BY <1>1, <1>2, <1>3, <1>4, EnqueuedOK
  <1>6. PaidItemIsSold'
    <2>1. \A q : Queued(q) => Queued(q)'
      BY <1>1, <1>3, QueueGrows DEF IInv, TypeOK
    <2>2. Undone => Undone'
      BY <1>2 DEF Undone, Kept, Stored, Sent
    <2>3. QED
      BY <1>1, <2>1, <2>2 DEF IInv, PaidItemIsSold, Queued, Succeeded
  <1>7. TypeOK'
    BY <1>1, <1>2, <1>5 DEF IInv, TypeOK, Conversation
  <1>8. Intents' /\ Calls' /\ Rows'
    BY <1>1, <1>2, IntentsKept, CallsKept, RowsKept DEF IInv, TypeOK
  <1>9. QED
    BY <1>2, <1>5, <1>6, <1>7, <1>8 DEF IInv

-----------------------------------------------------------------------------
(* The payments *)

\* A row is appended only for a call that was asked for, and stays.
LEMMA AppendTransactionOK ==
    ASSUME IInv, NEW a \in Message, AppendTransaction(a)
    PROVE  IInv'
  <1>1. PICK row \in ({"charge"} \X {"intent", "initiated", "succeeded", "failed", "canceled"})
                      \cup ({"transfer"} \X {"initiated", "failed"}) :
          /\ Ledger!Append(a, row)
          /\ row = <<"charge", "intent">> => "payment_intent" \in asked[a]
          /\ row = <<"charge", "initiated">> => "payment_capture" \in asked[a]
          /\ row = <<"transfer", "initiated">> => "payment_transfer" \in asked[a]
          /\ charged' = IF row = <<"charge", "succeeded">> THEN charged \cup {a} ELSE charged
    BY DEF AppendTransaction
  <1>2. UNCHANGED <<msg, asked, intents, status, queue, seen, lost>>
    BY DEF AppendTransaction
  <1>3. row \in Ledger!Row
    BY DEF Ledger!Row
  <1>4. /\ ledger'[a] = ledger[a] \cup {row} /\ ledger' \in [Message -> SUBSET Ledger!Row]
        /\ \A b \in Message : b # a => ledger'[b] = ledger[b]
        /\ Ledger!Precede(row) \subseteq ledger[a]
    BY <1>1, <1>3 DEF IInv, TypeOK, Ledger!Append
  <1>5. Sent(a)
    <2>1. CASE row = <<"charge", "intent">>
      BY <1>1, <2>1 DEF IInv, Calls
    <2>2. CASE row # <<"charge", "intent">>
      <3>1. \E earlier \in Ledger!Row : earlier \in Ledger!Precede(row)
        <4>1. {<<"charge", "intent">>, <<"charge", "initiated">>, <<"charge", "succeeded">>,
               <<"transfer", "initiated">>} \subseteq Ledger!Row
          BY DEF Ledger!Row
        <4>2. \/ <<"charge", "intent">> \in Ledger!Precede(row)
              \/ <<"charge", "initiated">> \in Ledger!Precede(row)
              \/ <<"charge", "succeeded">> \in Ledger!Precede(row)
              \/ <<"transfer", "initiated">> \in Ledger!Precede(row)
          BY <1>1, <2>2 DEF Ledger!Precede
        <4>3. QED
          BY <4>1, <4>2
      <3>2. ledger[a] # {}
        BY <1>4, <3>1
      <3>3. QED
        BY <3>2 DEF IInv, Rows
    <2>3. QED
      BY <2>1, <2>2
  <1>6. Kept /\ NoneSent
    BY <1>2, MessagesStand
  <1>7. Threads' /\ Intents' /\ Calls'
    BY <1>2, <1>6, ThreadsKept, IntentsKept, CallsKept DEF IInv, TypeOK, Conversation
  <1>8. charged' \subseteq Message
    BY <1>1 DEF IInv, TypeOK
  <1>9. TypeOK'
    BY <1>2, <1>4, <1>8 DEF IInv, TypeOK
  <1>10. Rows'
    <2>1. ASSUME NEW b \in Message
          PROVE  /\ ledger'[b] # {} => Sent(b)
                 /\ <<"charge", "initiated">> \in ledger'[b] => "payment_capture" \in asked[b]
                 /\ <<"transfer", "initiated">> \in ledger'[b] => "payment_transfer" \in asked[b]
      BY <1>1, <1>4, <1>5 DEF IInv, Rows
    <2>2. QED
      BY <1>2, <2>1 DEF Rows, Sent
  <1>11. \A b \in Message : Succeeded(b) => Succeeded(b)'
    BY <1>4 DEF Succeeded
  <1>12. Reactions'
    <2>1. \A b \in charged' : Succeeded(b)'
      BY <1>1, <1>4, <1>11 DEF IInv, TypeOK, Reactions, Succeeded
    <2>2. ASSUME NEW i \in DOMAIN queue PROVE Founded(queue[i])'
      <3>1. queue[i] \in Reaction /\ Founded(queue[i])
        BY DEF IInv, TypeOK, Reactions
      <3>2. QED
        BY <1>2, <1>11, <3>1 DEF Founded, Reaction, Stored
    <2>3. QED
      BY <1>2, <2>1, <2>2 DEF IInv, Reactions
  <1>13. PaidItemIsSold'
    <2>1. Undone <=> Undone'
      BY <1>2 DEF Undone, Stored
    <2>2. \A b \in Message : Succeeded(b)' => Succeeded(b) \/ b \in charged'
      BY <1>1, <1>4 DEF Succeeded
    <2>3. charged \subseteq charged'
      BY <1>1
    <2>4. QED
      BY <1>2, <2>1, <2>2, <2>3 DEF IInv, PaidItemIsSold
  <1>14. QED
    BY <1>7, <1>9, <1>10, <1>12, <1>13 DEF IInv

\* A charge that succeeded is queued, or its reaction is lost.
LEMMA AfterChargeOK ==
    ASSUME IInv, NEW a \in Message, AfterCharge(a)
    PROVE  IInv'
  <1> DEFINE r == [to |-> "charge", id |-> a]
  <1>1. /\ a \in charged /\ charged' = charged \ {a}
        /\ UNCHANGED <<msg, ledger, asked, intents, status, seen>>
        /\ \/ Enqueue(r) /\ UNCHANGED lost
           \/ lost' = TRUE /\ UNCHANGED queue
    BY DEF AfterCharge
  <1>2. r \in Reaction /\ r.to = "charge" /\ r.id = a
    BY DEF Reaction
  <1>3. Kept /\ NoneSent /\ Threads' /\ Intents' /\ Calls' /\ Rows'
    <2>1. Kept /\ NoneSent
      BY <1>1, MessagesStand
    <2>2. QED
      BY <1>1, <2>1, ThreadsKept, IntentsKept, CallsKept, RowsKept DEF IInv, TypeOK, Conversation
  <1>4. Undone <=> Undone'
    BY <1>1 DEF Undone, Stored
  <1>5. CASE Enqueue(r) /\ UNCHANGED lost
    <2>1. Founded(r)'
      BY <1>1, <1>2 DEF Founded, Succeeded, IInv, Reactions
    <2>2. queue' \in Seq(Reaction) /\ Reactions'
      BY <1>1, <1>2, <1>3, <1>5, <2>1, EnqueuedOK
    <2>3. Queued(r)' /\ \A q : Queued(q) => Queued(q)'
      BY <1>2, <1>5, QueueGrows DEF IInv, TypeOK
    <2>4. PaidItemIsSold'
      BY <1>1, <1>4, <1>5, <2>3 DEF IInv, PaidItemIsSold, Queued, Succeeded
    <2>5. TypeOK'
      BY <1>1, <1>5, <2>2 DEF IInv, TypeOK
    <2>6. QED
      BY <1>3, <2>2, <2>4, <2>5 DEF IInv
  <1>6. CASE lost' = TRUE /\ UNCHANGED queue
    <2>1. PaidItemIsSold'
      BY <1>6 DEF PaidItemIsSold
    <2>2. ASSUME NEW i \in DOMAIN queue PROVE Founded(queue[i])'
      BY <1>1, <1>6 DEF IInv, Reactions, Founded, Stored, Succeeded
    <2>3. Reactions'
      BY <1>1, <1>6, <2>2 DEF IInv, Reactions, Succeeded
    <2>4. TypeOK'
      BY <1>1, <1>6 DEF IInv, TypeOK
    <2>5. QED
      BY <1>3, <2>1, <2>3, <2>4 DEF IInv
  <1>7. QED
    BY <1>1, <1>5, <1>6

-----------------------------------------------------------------------------
(* The reactions *)

LEMMA ReadStatusOK ==
    ASSUME IInv, ReadStatus
    PROVE  IInv'
  <1>1. /\ queue # <<>> /\ seen' = status
        /\ UNCHANGED <<msg, ledger, asked, charged, intents, status, queue, lost>>
    BY DEF ReadStatus
  <1>2. Kept /\ NoneSent
    BY <1>1, MessagesStand
  <1>3. TypeOK'
    BY <1>1 DEF IInv, TypeOK
  <1>4. Threads' /\ Intents' /\ Calls' /\ Rows' /\ PaidItemIsSold'
    BY <1>1, <1>2, ThreadsKept, IntentsKept, CallsKept, RowsKept, SaleKept DEF IInv, TypeOK, Conversation
  <1>5. ASSUME NEW i \in DOMAIN queue PROVE Founded(queue[i])'
    BY <1>1 DEF IInv, Reactions, Founded, Stored, Succeeded
  <1>6. Reactions'
    BY <1>1, <1>5 DEF IInv, Reactions, Succeeded
  <1>7. QED
    BY <1>3, <1>4, <1>6 DEF IInv

\* The reaction at the head of the queue is founded.
LEMMA HeadIsFounded ==
    ASSUME IInv, queue # <<>>
    PROVE  Head(queue) \in Reaction /\ Founded(Head(queue)) /\ Head(queue).id \in Message
  <1>1. 1 \in DOMAIN queue /\ Head(queue) = queue[1] /\ Head(queue) \in Reaction
    BY LenProperties, HeadTailProperties, EmptySeq DEF IInv, TypeOK
  <1>2. QED
    BY <1>1 DEF IInv, Reactions, Reaction

\* A reaction leaves the queue: the others are as founded as before.
LEMMA DequeuedOK ==
    ASSUME IInv, queue # <<>>, queue' = Tail(queue), seen' = "unread",
           UNCHANGED <<msg, ledger, asked, charged, intents>>
    PROVE  queue' \in Seq(Reaction) /\ Threads' /\ Intents' /\ Calls' /\ Rows' /\ Reactions'
  <1>1. Kept /\ NoneSent
    BY MessagesStand
  <1>2. queue' \in Seq(Reaction) /\ \A q : Queued(q)' => Queued(q)
    BY QueueShrinks DEF IInv, TypeOK
  <1>3. Threads' /\ Intents' /\ Calls' /\ Rows'
    BY <1>1, ThreadsKept, IntentsKept, CallsKept, RowsKept DEF IInv, TypeOK, Conversation
  <1>4. ASSUME NEW i \in DOMAIN queue' PROVE Founded(queue[i])'
    <2>1. Queued(queue'[i])
      BY <1>2 DEF Queued
    <2>2. Founded(queue'[i])
      BY <2>1 DEF Queued, IInv, Reactions
    <2>3. QED
      BY <2>2 DEF Founded, Stored, Succeeded
  <1>5. Reactions'
    BY <1>4 DEF IInv, Reactions, Succeeded
  <1>6. QED
    BY <1>2, <1>3, <1>5

\* What a reaction may do to the status: it is appended, and it has read the
\* current one.
LEMMA StatusAfterOK ==
    ASSUME IInv, seen # "unread"
    PROVE  LET new == StatusAfter(Head(queue), seen)
               r   == Head(queue)
           IN  /\ new \in Status
               /\ \/ new = status
                  \/ r.to = "charge" /\ new = "sold" /\ Succeeded(r.id)
                  \/ r.to = "message" /\ status = "available" /\ new \in Pending
                  \/ r.to = "message" /\ new = "available"
               /\ r.to = "message" /\ status = "sold" /\ new # "sold" => Undone
  <1> DEFINE r == Head(queue)
             m == msg[r.id]
             new == StatusAfter(r, seen)
  <1>1. /\ queue # <<>> /\ seen = status /\ status \in Status
        /\ r \in Reaction /\ Founded(r) /\ r.id \in Message
    BY HeadIsFounded DEF IInv, Reactions, TypeOK
  <1>2. m.type \in AnyType
    BY <1>1 DEF IInv, TypeOK
  <1>3. PendingStatusForType(m.type) \in Pending
    BY <1>2 DEF PendingStatusForType, Pending, AnyType
  <1>4. CASE r.to = "charge"
    BY <1>1, <1>4 DEF StatusAfter, Status, Founded
  <1>5. CASE r.to = "message" /\ m.value = "accept" /\ status = "available"
    BY <1>1, <1>3, <1>5 DEF StatusAfter, Status
  <1>6. CASE /\ r.to = "message" /\ ~ (m.value = "accept" /\ status = "available")
             /\ ShouldRollback(m.value, status)
    <2>1. new = "available"
      BY <1>1, <1>6 DEF StatusAfter
    <2>2. Stored(r.id)
      BY <1>1, <1>6 DEF Founded
    <2>3. status = "sold" => m.value \in Failing
      BY <1>6 DEF ShouldRollback, Failing, Pending
    <2>4. status = "sold" => Undone
      BY <1>1, <2>2, <2>3 DEF Undone, Failing
    <2> HIDE DEF r, new
    <2>5. QED
      BY <1>6, <2>1, <2>4 DEF Status, r, new
  <1>7. CASE /\ r.to = "message" /\ ~ (m.value = "accept" /\ status = "available")
             /\ ~ ShouldRollback(m.value, status)
    <2>1. new = status
      BY <1>1, <1>7 DEF StatusAfter
    <2>2. QED
      BY <1>1, <2>1
  <1>8. r.to = "charge" \/ r.to = "message"
    BY <1>1 DEF Reaction
  <1>9. QED
    BY <1>4, <1>5, <1>6, <1>7, <1>8

LEMMA AppendStatusOK ==
    ASSUME IInv, AppendStatus
    PROVE  IInv'
  <1> DEFINE r == Head(queue)
  <1>1. /\ seen # "unread" /\ status' = StatusAfter(r, seen) /\ queue' = Tail(queue) /\ seen' = "unread"
        /\ UNCHANGED <<msg, ledger, asked, charged, intents, lost>> /\ queue # <<>>
    BY DEF AppendStatus, IInv, Reactions
  <1>2. queue' \in Seq(Reaction) /\ Threads' /\ Intents' /\ Calls' /\ Rows' /\ Reactions'
    BY <1>1, DequeuedOK
  <1>3. /\ status' \in Status
        /\ r.to = "message" /\ status = "sold" /\ status' # "sold" => Undone
        /\ r.to = "charge" => status' = status \/ status' = "sold"
    BY <1>1, StatusAfterOK
  <1>4. /\ r \in Reaction
        /\ \A q : Queued(q) => Queued(q)' \/ q = r
    BY <1>1, QueueShrinks DEF IInv, TypeOK
  <1>5. r.to = "charge" => status' = "sold"
    BY <1>1 DEF StatusAfter
  <1>6. Undone <=> Undone'
    BY <1>1 DEF Undone, Stored
  <1>7. PaidItemIsSold'
    <2>1. SUFFICES ASSUME NEW a \in Message, Succeeded(a), ~ (status' = "sold"), ~ Undone, ~ lost,
                          a \notin charged
                   PROVE  Queued([to |-> "charge", id |-> a])'
      BY <1>1, <1>6 DEF PaidItemIsSold, Queued, Succeeded
    <2>2. r.to = "message"
      BY <1>4, <1>5, <2>1 DEF Reaction
    <2>3. status # "sold"
      BY <1>3, <2>1, <2>2
    <2>4. Queued([to |-> "charge", id |-> a])
      BY <2>1, <2>3 DEF IInv, PaidItemIsSold, Queued
    <2>5. [to |-> "charge", id |-> a] # r
      BY <2>2
    <2>6. QED
      BY <1>4, <2>4, <2>5
  <1>8. TypeOK'
    BY <1>1, <1>2, <1>3 DEF IInv, TypeOK
  <1>9. QED
    BY <1>2, <1>7, <1>8 DEF IInv

LEMMA FailReactionOK ==
    ASSUME IInv, FailReaction
    PROVE  IInv'
  <1>1. queue' \in Seq(Reaction) /\ Threads' /\ Intents' /\ Calls' /\ Rows' /\ Reactions'
    BY DequeuedOK DEF FailReaction
  <1>2. PaidItemIsSold' /\ TypeOK'
    BY <1>1 DEF FailReaction, PaidItemIsSold, IInv, TypeOK
  <1>3. QED
    BY <1>1, <1>2 DEF IInv

\* What was queued is lost with a restart; what was said and paid is not.
LEMMA RestartOK ==
    ASSUME IInv, Restart
    PROVE  IInv'
  <1>1. /\ queue' = <<>> /\ seen' = "unread" /\ lost' = (lost \/ queue # <<>>)
        /\ UNCHANGED <<ledger, asked, charged, intents, status>>
    BY DEF Restart
  <1>2. msg \in Conversation
    BY DEF IInv, TypeOK, Conversation
  <1>3. \A m \in Message :
           /\ msg'[m].value = msg[m].value /\ msg'[m].type = msg[m].type
           /\ msg'[m].parent = msg[m].parent /\ msg'[m].root = msg[m].root
           /\ msg'[m].payment = msg[m].payment
           /\ msg'[m].pc = CASE msg[m].pc \in {"validate", "resolve"}              -> "vetoed"
                             [] msg[m].pc \in {"extend", "pay", "asked", "record"} -> "done"
                             [] OTHER                                              -> msg[m].pc
    BY <1>2 DEF Restart, Conversation
  <1>4. msg' \in Conversation
    BY <1>2 DEF Restart, Conversation, Pc
  <1>5. Kept /\ NoneSent
    BY <1>3 DEF Kept, NoneSent, Sent, Stored
  <1>6. Threads' /\ Intents' /\ Calls' /\ Rows'
    BY <1>1, <1>2, <1>5, ThreadsKept, IntentsKept, CallsKept, RowsKept DEF IInv, TypeOK
  <1>7. lost' \in BOOLEAN
    BY <1>1
  <1>8. TypeOK'
    <2>1. <<>> \in Seq(Reaction)
      OBVIOUS
    <2>2. QED
      BY <1>1, <1>4, <1>7, <2>1 DEF IInv, TypeOK, Conversation
  <1>9. Reactions'
    BY <1>1 DEF IInv, Reactions, Succeeded
  <1>10. PaidItemIsSold'
    <2>1. Undone => Undone'
      BY <1>5 DEF Undone, Kept, Stored, Sent
    <2>2. queue = <<>> => DOMAIN queue = {}
      OBVIOUS
    <2>3. lost' <=> lost \/ queue # <<>>
      BY <1>1
    <2>4. QED
      BY <1>1, <2>1, <2>2, <2>3 DEF IInv, PaidItemIsSold, Succeeded
  <1>11. QED
    BY <1>6, <1>8, <1>9, <1>10 DEF IInv

LEMMA InitOK == Init => IInv
  <1> SUFFICES ASSUME Init PROVE IInv
    OBVIOUS
  <1>1. TypeOK
    <2>1. 0 \in 0 .. MaxMessages
      BY PurchaseAssumption DEF PurchaseAssumption
    <2>2. [pc |-> "unsent", type |-> "pickup", value |-> "pending", parent |-> 0, root |-> 0,
          payment |-> 0]
            \in [pc : Pc, type : AnyType, value : Value, parent : 0 .. MaxMessages,
                 root : 0 .. MaxMessages, payment : 0 .. MaxMessages]
      BY <2>1 DEF Pc, AnyType, Value
    <2>3. ledger \in [Message -> SUBSET Ledger!Row] /\ asked \in [Message -> SUBSET Call]
      BY DEF Init, Ledger!Init
    <2>4. msg \in Conversation /\ intents \in [Message -> SUBSET Message]
      <3> HIDE DEF Message
      <3>1. QED
        BY <2>1, <2>2 DEF Init, Conversation
    <2>5. <<>> \in Seq(Reaction)
      OBVIOUS
    <2>6. QED
      BY <2>3, <2>4, <2>5 DEF Init, TypeOK, Conversation, Status
  <1>2. Threads /\ Intents /\ Calls /\ Rows
    BY DEF Init, Ledger!Init, Threads, Intents, Calls, Rows, Sent
  <1>3. Reactions
    BY DEF Init, Reactions
  <1>4. PaidItemIsSold
    BY DEF Init, Ledger!Init, PaidItemIsSold, Succeeded
  <1>5. QED
    BY <1>1, <1>2, <1>3, <1>4 DEF IInv

LEMMA NextOK == IInv /\ [Next]_vars => IInv'
  <1> SUFFICES ASSUME IInv, [Next]_vars PROVE IInv'
    OBVIOUS
  <1>1. CASE UNCHANGED vars
    <2>1. msg' \in Conversation /\ Kept /\ NoneSent
      BY <1>1, MessagesStand DEF vars, IInv, TypeOK, Conversation
    <2>2. Threads'
      BY <2>1, ThreadsKept DEF IInv, TypeOK, Conversation
    <2>3. QED
      BY <1>1, <2>1, <2>2, OnlyMessages DEF vars, IInv, TypeOK
  <1>2. CASE \E m \in Message : Create(m)
    BY <1>2, SendOK, AuthorFailureOK, MovesOK, AfterCreateOK, LinkOK, PayOK, AnswerOK DEF Create
  <1>3. CASE \E a \in Message : AppendTransaction(a)
    BY <1>3, AppendTransactionOK
  <1>4. CASE \E a \in Message : AfterCharge(a)
    BY <1>4, AfterChargeOK
  <1>5. CASE ReadStatus
    BY <1>5, ReadStatusOK
  <1>6. CASE AppendStatus
    BY <1>6, AppendStatusOK
  <1>7. CASE FailReaction
    BY <1>7, FailReactionOK
  <1>8. CASE Restart
    BY <1>8, RestartOK
  <1>9. QED
    BY <1>1, <1>2, <1>3, <1>4, <1>5, <1>6, <1>7, <1>8 DEF Next

-----------------------------------------------------------------------------
(* The theorems *)

LEMMA Invariance == Spec => []IInv
  BY InitOK, NextOK, PTL DEF Spec

\* The state of a sale is well typed.
THEOREM TypeCorrect == Spec => []TypeOK
  <1>1. IInv => TypeOK
    BY DEF IInv
  <1>2. QED
    BY <1>1, Invariance, PTL

\* Nobody's answer touches the payment of another buyer.
THEOREM IntentsInThread == Spec => []IntentsStayInTheirThread
  <1>1. IInv => IntentsStayInTheirThread
    BY DEF IInv, Intents, IntentsStayInTheirThread
  <1>2. QED
    BY <1>1, Invariance, PTL

\* Charges are captured and passed on only for what was said in their thread.
THEOREM MoneyFollows == Spec => []MoneyFollowsTheConversation
  <1>1. IInv => MoneyFollowsTheConversation
    BY DEF IInv, Rows, Calls, Said, Sale, Delivery, MoneyFollowsTheConversation
  <1>2. QED
    BY <1>1, Invariance, PTL

\* A paid item is sold, unless the sale was called off or a reaction lost.
THEOREM PaidIsSold == Spec => []PaidItemIsSold
  <1>1. IInv => PaidItemIsSold
    BY DEF IInv
  <1>2. QED
    BY <1>1, Invariance, PTL

-----------------------------------------------------------------------------
(* The status keeps its order *)

Paid == \E a \in Message : Succeeded(a)

\* Every step is one of ItemStatus, or leaves the status and what is paid.
LEMMA StatusStep == IInv /\ [Next]_vars => [StatusIsOrdered!Next]_<<status, Paid>>
  <1> SUFFICES ASSUME IInv, [Next]_vars PROVE [StatusIsOrdered!Next]_<<status, Paid>>
    OBVIOUS
  <1>1. CASE UNCHANGED <<status, ledger>>
    BY <1>1 DEF Paid, Succeeded
  <1>2. ASSUME NEW a \in Message, AppendTransaction(a)
        PROVE  [StatusIsOrdered!Next]_<<status, Paid>>
    <2>1. PICK row \in ({"charge"} \X {"intent", "initiated", "succeeded", "failed", "canceled"})
                        \cup ({"transfer"} \X {"initiated", "failed"}) : Ledger!Append(a, row)
      BY <1>2 DEF AppendTransaction
    <2>2. /\ ledger'[a] = ledger[a] \cup {row}
          /\ \A b \in Message : b # a => ledger'[b] = ledger[b]
          /\ UNCHANGED status
      BY <1>2, <2>1 DEF AppendTransaction, Ledger!Append, IInv, TypeOK
    <2>3. CASE row = <<"charge", "succeeded">>
      <3>1. Succeeded(a)'
        BY <2>2, <2>3 DEF Succeeded
      <3>2. Paid' = TRUE
        BY <3>1 DEF Paid
      <3>3. StatusIsOrdered!Charge
        BY <2>2, <3>2 DEF StatusIsOrdered!Charge, Paid
      <3>4. QED
        BY <3>3 DEF StatusIsOrdered!Next
    <2>4. CASE row # <<"charge", "succeeded">>
      <3>1. \A b \in Message : Succeeded(b)' <=> Succeeded(b)
        BY <2>2, <2>4 DEF Succeeded
      <3>2. Paid' = Paid
        BY <3>1 DEF Paid
      <3>3. QED
        BY <2>2, <3>2
    <2>5. QED
      BY <2>3, <2>4
  <1>3. CASE AppendStatus
    <2>1. /\ seen # "unread" /\ status' = StatusAfter(Head(queue), seen) /\ UNCHANGED ledger
          /\ queue # <<>>
      BY <1>3 DEF AppendStatus, IInv, Reactions
    <2>2. Head(queue).id \in Message
      BY <2>1, HeadIsFounded
    <2>3. \/ status' = status
          \/ status' = "sold" /\ Succeeded(Head(queue).id)
          \/ status = "available" /\ status' \in Pending
          \/ status' = "available"
      BY <2>1, StatusAfterOK
    <2>4. Paid' = Paid
      BY <2>1 DEF Paid, Succeeded
    <2>5. Succeeded(Head(queue).id) => Paid
      BY <2>2 DEF Paid
    <2>6. \/ status' = status
          \/ StatusIsOrdered!Sell \/ StatusIsOrdered!Reserve \/ StatusIsOrdered!Release
      BY <2>3, <2>4, <2>5
         DEF StatusIsOrdered!Sell, StatusIsOrdered!Reserve, StatusIsOrdered!Release,
             StatusIsOrdered!Pending, Pending, Paid
    <2>7. QED
      BY <2>4, <2>6 DEF StatusIsOrdered!Next
  <1>4. QED
    BY <1>1, <1>2, <1>3
       DEF Next, vars, Create, Send, Says, AuthorFailure, Validate, Resolve, Insert, AfterCreate,
           ExtendIntent, Pay, Answer, RecordIntent, Lose, AfterCharge, ReadStatus, FailReaction, Restart

\* However messages and payments interleave, an item is reserved only from
\* available and sold only when paid.
THEOREM StatusInOrder == Spec => StatusKeepsItsOrder
  <1>1. Init => StatusIsOrdered!Init
    BY DEF Init, Ledger!Init, StatusIsOrdered!Init, Succeeded
  <1>2. IInv /\ [Next]_vars => [StatusIsOrdered!Next]_(StatusIsOrdered!vars)
    BY StatusStep DEF StatusIsOrdered!vars, Paid
  <1>3. QED
    BY <1>1, <1>2, Invariance, PTL DEF Spec, StatusKeepsItsOrder, StatusIsOrdered!Spec

=============================================================================
