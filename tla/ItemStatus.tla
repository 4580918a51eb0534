----------------------------- MODULE ItemStatus -----------------------------
(***************************************************************************)
(* What the marketplace promises about the status of an item, whatever     *)
(* messages and payments it hears of and in whatever order: an item is     *)
(* reserved only while it is available and sold only when a charge has     *)
(* succeeded; a sold item is never merely reserved again, and a reserved   *)
(* one is not reserved for someone else without being available first.     *)
(* Purchase implements this specification.                                 *)
(***************************************************************************)
VARIABLES
    status,     \* the item's current status
    paid        \* whether a charge for it has succeeded

vars == <<status, paid>>

Pending == {"pickup_pending", "delivery_pending", "shipping_pending"}
Status  == {"available", "sold"} \cup Pending

Init == status = "available" /\ paid = FALSE

Charge  == paid' = TRUE /\ UNCHANGED status
Reserve == status = "available" /\ status' \in Pending /\ UNCHANGED paid
Sell    == paid /\ status' = "sold" /\ UNCHANGED paid
Release == status' = "available" /\ UNCHANGED paid

Next == Charge \/ Reserve \/ Sell \/ Release

Spec == Init /\ [][Next]_vars

=============================================================================
