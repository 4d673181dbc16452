------------------------------ MODULE ItemPool ------------------------------
(***************************************************************************)
(* What a bounded buffer of anonymous items promises: items are added one  *)
(* at a time while there is room, taken one at a time while there are any, *)
(* and the pool is closed only when all Total of them have come and gone.  *)
(* The producer/consumer program of pa3_1 implements it.                   *)
(***************************************************************************)
EXTENDS Naturals

CONSTANTS Capacity, Total

VARIABLES
    items,    \* items in the pool
    added,    \* items ever added
    closed    \* the program has returned, reporting success

vars == <<items, added, closed>>

Init == items = 0 /\ added = 0 /\ closed = FALSE

Add ==
    /\ ~closed
    /\ items < Capacity
    /\ added < Total
    /\ items' = items + 1
    /\ added' = added + 1
    /\ UNCHANGED closed

Take ==
    /\ ~closed
    /\ items > 0
    /\ items' = items - 1
    /\ UNCHANGED <<added, closed>>

Close ==
    /\ items = 0
    /\ added = Total
    /\ closed' = TRUE
    /\ UNCHANGED <<items, added>>

Next == Add \/ Take \/ Close

Spec == Init /\ [][Next]_vars
=============================================================================
