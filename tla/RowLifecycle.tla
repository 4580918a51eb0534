---------------------------- MODULE RowLifecycle ----------------------------
(***************************************************************************)
(* What the versioned store promises about a row, whoever writes it and    *)
(* however the requests interleave: a row is born once, is rewritten any   *)
(* number of times and is buried at most once, after which it is never     *)
(* live again (a tombstone may still be rewritten, and stays a tombstone); *)
(* and every one of these steps gives the row a version that no row ever   *)
(* had before.  CoreResource implements this specification.                *)
(***************************************************************************)
EXTENDS Naturals

CONSTANT Row

VARIABLES
    phase,      \* [Row -> {"absent", "live", "deleted"}]
    version,    \* [Row -> Nat]: the row's version token, 0 while it is absent
    used        \* every version a row has had

vars == <<phase, version, used>>

Init ==
    /\ phase = [r \in Row |-> "absent"]
    /\ version = [r \in Row |-> 0]
    /\ used = {}

\* The row r moves to phase p with a fresh version.
Become(r, p) ==
    /\ version'[r] \in Nat \ used
    /\ version' = [version EXCEPT ![r] = version'[r]]
    /\ used' = used \cup {version'[r]}
    /\ phase' = [phase EXCEPT ![r] = p]

Born(r)      == phase[r] = "absent" /\ Become(r, "live")
Rewritten(r) == \E p \in {"live", "deleted"} : phase[r] = p /\ Become(r, p)
Buried(r)    == phase[r] = "live" /\ Become(r, "deleted")

Next == \E r \in Row : Born(r) \/ Rewritten(r) \/ Buried(r)

Spec == Init /\ [][Next]_vars

=============================================================================
