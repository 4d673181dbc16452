-------------------------------- MODULE Vmm2 --------------------------------
(***************************************************************************)
(* The virtual memory manager of pa3_3/VMM2: vmm.cpp composes the TLB, the *)
(* page table, the working set of free frames, the physical memory and the *)
(* backing store; main.cpp reads one address after another through it.     *)
(*                                                                         *)
(* An address is its page: the offset is carried along unchanged.  A frame *)
(* or a byte read is the page whose block of the backing store it holds.   *)
(* The free frames are a stack of NumberOfFramesInPm-1 down to 0 from      *)
(* which frames are only taken: used of them are gone.  The counters of    *)
(* the statistics are told by kind, which of them the last read raised.    *)
(***************************************************************************)
EXTENDS Tlb, PageTable, FiniteSets

CONSTANTS
    NumFrames,    \* NumberOfFramesInPm
    Garbage,      \* what a frame or a buffer that was never filled holds
    DiskFaults    \* which calls on the backing store may fail

ASSUME FrameAssumption ==
    /\ NumFrames \in Nat \ {0}
    /\ NoFrame \notin Int
    /\ NoEntry \notin [page : Pages, frame : Nat]
    /\ Garbage \notin Pages
    /\ DiskFaults \subseteq {"seek", "read"}

Frames == 0..(NumFrames - 1)

VARIABLES
    tlb,
    pageTable,
    used,      \* frames taken from the working set
    frames,    \* physicalMemory
    page,      \* virtualAddress of main: the page read last
    byte,      \* byte of main: what it prints
    kind,      \* "tlbhit", "pagehit" or "pagefault"
    status     \* what the last readByte returned

vars == <<tlb, pageTable, used, frames, page, byte, kind, status>>

-----------------------------------------------------------------------------
Init ==
    /\ tlb = TlbInit
    /\ pageTable = TableInit
    /\ used = 0
    /\ frames = [f \in Frames |-> Garbage]
    /\ page \in Pages
    /\ byte = Garbage
    /\ kind = "none"
    /\ status = "none"

\* addPage and loadFrame overwrite the frame; readByte takes a byte from it.
LoadFrame(frame, block) == [frames EXCEPT ![frame] = block]
ByteAt(memory, frame) == memory[frame]

\* readByte: count the lookup and fetch the byte from the frame translate found.
Deliver(p, how, frame) ==
    /\ page' = p
    /\ kind' = how
    /\ status' = "success"
    /\ byte' = ByteAt(frames', frame)

\* Fault: the page table is not told of an access the TLB served.
BugHitUntold(p) ==
    /\ TlbHit(tlb, p)
    /\ UNCHANGED <<tlb, pageTable, used, frames>>
    /\ Deliver(p, "tlbhit", TlbFrame(tlb, p))

\* Fault: the translation is added to the TLB on a hit as well.
BugHitAdds(p) ==
    /\ TlbHit(tlb, p)
    /\ pageTable' = TableLookup(pageTable, p)
    /\ tlb' = TlbAdd(tlb, p, TlbFrame(tlb, p))
    /\ UNCHANGED <<used, frames>>
    /\ Deliver(p, "tlbhit", TlbFrame(tlb, p))

\* The TLB knows the page: the page table is only told of the access.
ReadTlbHit(p) ==
    /\ TlbHit(tlb, p)
    /\ pageTable' = TableLookup(pageTable, p)
    /\ UNCHANGED <<tlb, used, frames>>
    /\ Deliver(p, "tlbhit", TlbFrame(tlb, p))

\* The page table knows the page: its translation enters the TLB.
ReadPageHit(p) ==
    /\ ~TlbHit(tlb, p)
    /\ IsValid(pageTable, p)
    /\ pageTable' = TableLookup(pageTable, p)
    /\ tlb' = TlbAdd(tlb, p, pageTable.frame[p])
    /\ UNCHANGED <<used, frames>>
    /\ Deliver(p, "pagehit", pageTable.frame[p])

IsFault(p) == ~TlbHit(tlb, p) /\ ~IsValid(pageTable, p)

\* backingStore.getPage: the block of the page, or, when read fails, whatever is
\* in the buffer, as the error is logged but 0 returned.
GetPage(p) == {p} \cup (IF "read" \in DiskFaults THEN {Garbage} ELSE {})

\* getPage returns an error when lseek fails: nothing has changed yet but the
\* number lookup gave to the page.  main prints the byte it read last.
ReadSeekFails(p) ==
    /\ "seek" \in DiskFaults
    /\ IsFault(p)
    /\ pageTable' = TableLookup(pageTable, p)
    /\ page' = p
    /\ kind' = "pagefault"
    /\ status' = "failure"
    /\ UNCHANGED <<tlb, used, frames, byte>>

\* A page fault that finds a free frame.
ReadFaultFree(p) ==
    /\ IsFault(p)
    /\ used < NumFrames
    /\ used' = used + 1
    /\ \E block \in GetPage(p) : frames' = LoadFrame(used, block)
    /\ pageTable' = TableUpdate(TableLookup(pageTable, p), p, used)
    /\ tlb' = TlbAdd(tlb, p, used)
    /\ Deliver(p, "pagefault", used)

\* Fault: the victim stays valid.
BugVictimStays(p, v) ==
    LET looked == TableLookup(pageTable, p)
        frame == pageTable.frame[v]
    IN  /\ IsFault(p)
        /\ used = NumFrames
        /\ IsVictim(looked, v)
        /\ frames' = LoadFrame(frame, p)
        /\ pageTable' = TableUpdate(looked, p, frame)
        /\ tlb' = TlbAdd(TlbInvalidate(tlb, frame), p, frame)
        /\ UNCHANGED used
        /\ Deliver(p, "pagefault", frame)

\* A page fault that takes the frame of the victim v.
ReadFaultEvict(p, v) ==
    LET looked == TableLookup(pageTable, p)
        frame == pageTable.frame[v]
    IN  /\ IsFault(p)
        /\ used = NumFrames
        /\ IsVictim(looked, v)
        /\ \E block \in GetPage(p) : frames' = LoadFrame(frame, block)
        /\ pageTable' = TableUpdate(TableUpdate(looked, v, NoFrame), p, frame)
        /\ tlb' = TlbAdd(TlbInvalidate(tlb, frame), p, frame)
        /\ UNCHANGED used
        /\ Deliver(p, "pagefault", frame)

Next ==
    \E p \in Pages :
        \/ ReadTlbHit(p)
        \/ ReadPageHit(p)
        \/ ReadSeekFails(p)
        \/ ReadFaultFree(p)
        \/ \E v \in Pages : ReadFaultEvict(p, v)

Spec == Init /\ [][Next]_vars

-----------------------------------------------------------------------------
(* Properties                                                              *)

Resident == {p \in Pages : IsValid(pageTable, p)}

TypeOK ==
    /\ tlb \in [table : [Indices -> [page : Pages, frame : Frames] \cup {NoEntry}],
                robin : -1..(TlbSize - 1)]
    /\ pageTable.frame \in [Pages -> Frames \cup {NoFrame}]
    /\ pageTable.order \in Seq(Pages)
    /\ used \in 0..NumFrames
    /\ frames \in [Frames -> Pages \cup {Garbage}]
    /\ page \in Pages
    /\ byte \in Pages \cup {Garbage}
    /\ kind \in {"none", "tlbhit", "pagehit", "pagefault"}
    /\ status \in {"none", "success", "failure"}

\* A frame is taken from the working set exactly once and then always belongs
\* to one valid page: evictions and failed reads neither leak a frame nor give
\* one to two pages.
FramesOwned ==
    /\ \A p, q \in Resident :
          pageTable.frame[p] = pageTable.frame[q] => p = q
    /\ {pageTable.frame[p] : p \in Resident} = 0..(used - 1)

\* The page table never lies: a valid page's frame holds that page's block.
TableCoherent == \A p \in Resident : frames[pageTable.frame[p]] = p

\* A TLB entry agrees with the page table about where its page is: no entry
\* outlives the residence of its page.
TlbCoherent ==
    \A i \in Indices : tlb.table[i] # NoEntry =>
        pageTable.frame[tlb.table[i].page] = tlb.table[i].frame

\* The round robin never gives a page two TLB entries, so that no older one can
\* shadow or outlive a newer one.
TlbUnique == \A p \in Pages : \A i, j \in Matches(tlb, p) : i = j

\* "translate the virtual address to physical address", "read the byte from
\* physical memory": a successful read returns the byte the backing store holds
\* at that address.
ReadsBackingStore == status = "success" => byte = page

\* The valid pages, the one with the lowest number first.
ValidPlaces(table) == {i \in DOMAIN table.order : IsValid(table, table.order[i])}
ValidInOrder(table) ==
    [k \in 1..Cardinality(ValidPlaces(table)) |->
        table.order[CHOOSE i \in ValidPlaces(table) :
                        Cardinality({j \in ValidPlaces(table) : j < i}) = k - 1]]

\* The manager is a demand paging memory of NumFrames frames with exact LRU or
\* FIFO replacement, whatever the TLB does.
Paging == INSTANCE DemandPaging WITH
              resident <- ValidInOrder(pageTable),
              faulted <- kind = "pagefault",
              value <- IF status = "success" THEN byte ELSE Garbage,
              Nothing <- Garbage

PagingSpec == Paging!Spec
=============================================================================
