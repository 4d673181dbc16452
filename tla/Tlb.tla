-------------------------------- MODULE Tlb --------------------------------
(***************************************************************************)
(* The cache of page translations of the two virtual memory managers       *)
(* (tlb.cpp of pa3_2 and of pa3_3; only the latter has invalidate).        *)
(***************************************************************************)
EXTENDS Integers

CONSTANTS
    TlbSize,    \* NumberOfTlbEntries
    NoEntry     \* an entry that is not valid

ASSUME TlbAssumption == TlbSize \in Nat \ {0}

Indices == 0..(TlbSize - 1)

\* A page number and the frame it is translated to; the entry is valid.
Entry(page, frame) == [page |-> page, frame |-> frame]

\* initialize: no entry is valid.
TlbInit == [table |-> [i \in Indices |-> NoEntry], robin |-> -1]

\* The indices whose valid entry is about page p.
Matches(tlb, p) ==
    {i \in Indices : tlb.table[i] # NoEntry /\ tlb.table[i].page = p}

TlbHit(tlb, p) == Matches(tlb, p) # {}

\* lookup stops at the first match.
TlbFrame(tlb, p) ==
    tlb.table[CHOOSE i \in Matches(tlb, p) : \A j \in Matches(tlb, p) : i <= j].frame

\* invalidate looks for an entry about the frame in a copy of each entry and
\* clears the valid bit of the copy: the table stays as it is.
TlbInvalidate(tlb, frame) == tlb

\* addEntry overwrites the entries round robin.
TlbAdd(tlb, p, frame) ==
    LET victim == (tlb.robin + 1) % TlbSize
    IN  [table |-> [tlb.table EXCEPT ![victim] = Entry(p, frame)],
         robin |-> victim]
=============================================================================
