----------------------------- MODULE PageTable -----------------------------
(***************************************************************************)
(* The page table of the virtual memory manager of pa3_3 (pagetable.cpp)   *)
(* and its two replacement strategies.                                     *)
(*                                                                         *)
(* The frame number of an entry that is not valid is never used: frame[p]  *)
(* is NoFrame then.  accessno and fifono only order the entries, and only  *)
(* the one the strategy compares matters: order lists the pages whose      *)
(* number was ever set, the lowest first.                                  *)
(***************************************************************************)
EXTENDS Integers, Sequences

CONSTANTS
    Pages,       \* page numbers
    NoFrame,     \* the frame of a page that is not valid
    Strategy     \* "fifo" or "lru"

ASSUME StrategyAssumption == Strategy \in {"fifo", "lru"}

\* initialize, invalidateTable: no page is valid.
TableInit == [frame |-> [p \in Pages |-> NoFrame], order |-> <<>>]

IsValid(table, p) == table.frame[p] # NoFrame

\* table[p].accessno (or fifono) takes the next number: p moves to the end.
Numbered(order, p) ==
    IF \E k \in DOMAIN order : order[k] = p
    THEN LET k == CHOOSE k \in DOMAIN order : order[k] = p
         IN  [i \in DOMAIN order |-> IF i < k THEN order[i]
                                    ELSE IF i < Len(order) THEN order[i + 1]
                                    ELSE p]
    ELSE Append(order, p)

\* lookup does the book keeping of an access, which is nothing for Fifo, before
\* its caller looks at whether the page is valid.
TableLookup(table, p) ==
    [frame |-> table.frame,
     order |-> IF Strategy = "lru" THEN Numbered(table.order, p)
                                   ELSE table.order]

\* updatePageEntry sets both numbers, whatever the strategy.
TableUpdate(table, p, frame) ==
    [frame |-> [table.frame EXCEPT ![p] = frame],
     order |-> Numbered(table.order, p)]

\* Fault: the highest number for the lowest.
BugFollows(order, p, q) ==
    \E i, j \in DOMAIN order : j < i /\ order[i] = p /\ order[j] = q

Precedes(order, p, q) ==
    \E i, j \in DOMAIN order : i < j /\ order[i] = p /\ order[j] = q

\* findVictim: the valid page with the lowest number names the frame, and
\* rlookup finds the page that is valid there.
IsVictim(table, v) ==
    /\ IsValid(table, v)
    /\ \E oldest \in Pages :
          /\ IsValid(table, oldest)
          /\ \A q \in Pages \ {oldest} :
                IsValid(table, q) => Precedes(table.order, oldest, q)
          /\ table.frame[v] = table.frame[oldest]
=============================================================================
