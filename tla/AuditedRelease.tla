--------------------------- MODULE AuditedRelease ----------------------------
(***************************************************************************)
(* What the query server promises about its audit log, without calls,      *)
(* warehouse, limits or faults: a result is put on record, once, and only  *)
(* a result that is on record leaves the server, once.                     *)
(***************************************************************************)

CONSTANT Results        \* [call, rowCount]: which call, and what it returned

VARIABLES
    recorded,       \* the results on record
    released        \* the results that have left the server

Init == recorded = {} /\ released = {}

Record(r) ==
    /\ \A s \in recorded : s.call # r.call
    /\ recorded' = recorded \cup {r}
    /\ UNCHANGED released

Release(r) ==
    /\ r \in recorded \ released
    /\ released' = released \cup {r}
    /\ UNCHANGED recorded

Next == \E r \in Results : Record(r) \/ Release(r)

Spec == Init /\ [][Next]_<<recorded, released>>
=============================================================================
