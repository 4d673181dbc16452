---------------------------- MODULE DemandPaging ----------------------------
(***************************************************************************)
(* What a demand paging memory promises: a read returns the page's block,  *)
(* it faults exactly when the page is not in memory, and when there is no  *)
(* room the page to go is the one loaded first ("fifo") or read least      *)
(* recently ("lru").  There is no TLB and there are no frame numbers.      *)
(***************************************************************************)
EXTENDS Integers, Sequences, SequencesExt

CONSTANTS Pages, NumFrames, Strategy, Nothing

VARIABLES
    resident,   \* the pages in memory, the next victim first
    page,       \* the page read last
    faulted,    \* the last read found its page missing
    value       \* what it returned, Nothing if it failed

vars == <<resident, page, faulted, value>>

Init == resident = <<>> /\ page \in Pages /\ faulted = FALSE /\ value = Nothing

Hit(p) ==
    /\ page' = p /\ faulted' = FALSE /\ value' = p
    /\ \E i \in DOMAIN resident :
          /\ resident[i] = p
          /\ resident' = IF Strategy = "lru" THEN Append(RemoveAt(resident, i), p)
                                             ELSE resident

Fault(p) ==
    /\ page' = p /\ faulted' = TRUE /\ value' = p
    /\ p \notin ToSet(resident)
    /\ resident' = IF Len(resident) < NumFrames
                   THEN Append(resident, p) ELSE Append(Tail(resident), p)

\* The page cannot be fetched: nothing is evicted for it.
Fail(p) ==
    /\ page' = p /\ faulted' = TRUE /\ value' = Nothing
    /\ p \notin ToSet(resident)
    /\ UNCHANGED resident

Next == \E p \in Pages : Hit(p) \/ Fault(p) \/ Fail(p)

Spec == Init /\ [][Next]_vars
=============================================================================
