--------------------------- MODULE PaymentLedger ---------------------------
(***************************************************************************)
(* What the payment procedures promise about the transaction rows of each  *)
(* payment, whoever calls them and whatever Stripe sends: rows appear one  *)
(* at a time and stay, each after the row it follows from, and a charge    *)
(* that succeeded is not also a canceled one.  Payments implements this    *)
(* specification; Purchase relies on it for the payments of an item.       *)
(***************************************************************************)
CONSTANT Payment

VARIABLE rows       \* [Payment -> the rows it has, as pairs of type and status]

Row == ({"charge"} \X {"intent", "initiated", "succeeded", "failed", "completed", "canceled"})
          \cup ({"transfer"} \X {"initiated", "succeeded", "failed", "completed"})

\* The rows a payment has before it has this one.
Precede(row) ==
    CASE row = <<"charge", "intent">>                                   -> {}
      [] row \in {"charge"} \X {"initiated", "canceled"}   -> {<<"charge", "intent">>}
      [] row \in {"charge"} \X {"succeeded", "failed"}     -> {<<"charge", "initiated">>}
      [] row \in {<<"charge", "completed">>, <<"transfer", "initiated">>} -> {<<"charge", "succeeded">>}
      [] row \in {"transfer"} \X {"succeeded", "failed"}   -> {<<"transfer", "initiated">>}
      [] row = <<"transfer", "completed">>                 -> {<<"transfer", "succeeded">>}

\* The rows a payment cannot have beside this one.
Preclude(row) ==
    CASE row = <<"charge", "succeeded">> -> {<<"charge", "canceled">>}
      [] row = <<"charge", "canceled">>  -> {<<"charge", "succeeded">>}
      [] OTHER                           -> {}

Init == rows = [p \in Payment |-> {}]

\* Payment p gets the row.
Append(p, row) ==
    /\ row \notin rows[p]
    /\ Precede(row) \subseteq rows[p]
    /\ Preclude(row) \cap rows[p] = {}
    /\ rows' = [rows EXCEPT ![p] = @ \cup {row}]

Next == \E p \in Payment, row \in Row : Append(p, row)

Spec == Init /\ [][Next]_rows

=============================================================================
