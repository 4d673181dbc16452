-------------------------------- MODULE Vmm1 --------------------------------
(***************************************************************************)
(* The first virtual memory manager, pa3_2/VirtualMemoryManager: there are *)
(* as many frames as pages, a frame is chosen round robin by               *)
(* physicalmemory.cpp without telling the page table or the TLB, and a     *)
(* page once loaded stays.                                                 *)
(*                                                                         *)
(* As in Vmm2 an address is its page, and a frame or a byte read is the    *)
(* page whose block of the backing store it holds.                         *)
(***************************************************************************)
EXTENDS Tlb, FiniteSets

CONSTANTS
    Pages,        \* page numbers, NumberOfPageInVm of them
    NumFrames,    \* NumberOfFramesInPm
    NoFrame,      \* the frame of a page that is not valid
    Garbage,      \* what a frame or a buffer that was never filled holds
    DiskFaults,   \* which calls on the backing store may fail
    MaxFailures   \* bound on the failures of a run

\* globals.h: NumberOfPageInVm and NumberOfFramesInPm are both 256.
ASSUME SizeAssumption ==
    /\ IsFiniteSet(Pages)
    /\ NumFrames \in Nat \ {0} /\ Cardinality(Pages) <= NumFrames
    /\ NoFrame \notin Int
    /\ Garbage \notin Pages
    /\ DiskFaults \subseteq {"seek", "read"}
    /\ MaxFailures \in Nat

Frames == 0..(NumFrames - 1)

VARIABLES
    tlb,
    frame,        \* the page table: frame of each page, NoFrame if not valid
    frameno,      \* the frame PhysicalMemory filled last, -1 at first
    frames,       \* physicalMemory
    page,         \* virtualAddress of main: the page read last
    byte,         \* byte of main: what it prints
    kind,         \* "hit" or "pagefault": how the last read found its page
    status,       \* what the last readByte returned
    pagefaults,   \* the statistics' count of page faults
    failures      \* history: page faults that ended in an error

vars == <<tlb, frame, frameno, frames, page, byte, kind, status,
          pagefaults, failures>>

-----------------------------------------------------------------------------
(* pagetable.cpp and physicalmemory.cpp                                    *)

\* initialize, invalidateTable: no page is valid.
TableInit == [p \in Pages |-> NoFrame]
IsValid(p) == frame[p] # NoFrame
UpdatePageEntry(p, f) == [frame EXCEPT ![p] = f]

\* Fault: the frames go round one too early.
BugFrameReused == (frameno + 1) % (NumFrames - 1)

\* findVictim: the frames are taken in turn.
NextFrame == (frameno + 1) % NumFrames

\* addPage and loadFrame overwrite the frame; readByte takes a byte from it.
LoadFrame(f, block) == [frames EXCEPT ![f] = block]
ByteAt(memory, f) == memory[f]

-----------------------------------------------------------------------------
(* vmm.cpp                                                                 *)

Init ==
    /\ tlb = TlbInit
    /\ frame = TableInit
    /\ frameno = -1
    /\ frames = [f \in Frames |-> Garbage]
    /\ page \in Pages
    /\ byte = Garbage
    /\ kind = "none"
    /\ status = "none"
    /\ pagefaults = 0
    /\ failures = 0

\* readByte fetches the byte from the frame translate found.
Deliver(p, how, f) ==
    /\ page' = p
    /\ kind' = how
    /\ status' = "success"
    /\ byte' = ByteAt(frames', f)

\* The TLB knows the page: the page table is not consulted.
ReadTlbHit(p) ==
    /\ TlbHit(tlb, p)
    /\ UNCHANGED <<tlb, frame, frameno, frames, pagefaults, failures>>
    /\ Deliver(p, "hit", TlbFrame(tlb, p))

\* The page table knows the page: its translation enters the TLB.
ReadPageHit(p) ==
    /\ ~TlbHit(tlb, p)
    /\ IsValid(p)
    /\ tlb' = TlbAdd(tlb, p, frame[p])
    /\ UNCHANGED <<frame, frameno, frames, pagefaults, failures>>
    /\ Deliver(p, "hit", frame[p])

IsFault(p) == ~TlbHit(tlb, p) /\ ~IsValid(p)

\* backingStore.getPage: an error of read is logged but 0 returned.
GetPage(p) == {p} \cup (IF "read" \in DiskFaults THEN {Garbage} ELSE {})

\* getPage returns an error when lseek fails, with the page fault counted.
ReadSeekFails(p) ==
    /\ "seek" \in DiskFaults
    /\ failures < MaxFailures
    /\ IsFault(p)
    /\ page' = p
    /\ kind' = "pagefault"
    /\ status' = "failure"
    /\ pagefaults' = pagefaults + 1
    /\ failures' = failures + 1
    /\ UNCHANGED <<tlb, frame, frameno, frames, byte>>

\* Fault: the page table is not told where the page is.
BugFaultUnrecorded(p) ==
    /\ IsFault(p)
    /\ pagefaults' = pagefaults + 1
    /\ frameno' = NextFrame
    /\ frames' = LoadFrame(frameno', p)
    /\ tlb' = TlbAdd(tlb, p, frameno')
    /\ UNCHANGED <<frame, failures>>
    /\ Deliver(p, "pagefault", frameno')

\* A page fault: the page is loaded into the next frame.
ReadFault(p) ==
    /\ IsFault(p)
    /\ pagefaults' = pagefaults + 1
    /\ frameno' = NextFrame
    /\ \E block \in GetPage(p) : frames' = LoadFrame(frameno', block)
    /\ frame' = UpdatePageEntry(p, frameno')
    /\ tlb' = TlbAdd(tlb, p, frameno')
    /\ UNCHANGED failures
    /\ Deliver(p, "pagefault", frameno')

Next ==
    \E p \in Pages :
        ReadTlbHit(p) \/ ReadPageHit(p) \/ ReadSeekFails(p) \/ ReadFault(p)

Spec == Init /\ [][Next]_vars

-----------------------------------------------------------------------------
(* Properties                                                              *)

Resident == {p \in Pages : IsValid(p)}

TypeOK ==
    /\ tlb \in [table : [Indices -> [page : Pages, frame : Frames] \cup {NoEntry}],
                robin : -1..(TlbSize - 1)]
    /\ frame \in [Pages -> Frames \cup {NoFrame}]
    /\ frameno \in -1..(NumFrames - 1)
    /\ frames \in [Frames -> Pages \cup {Garbage}]
    /\ page \in Pages
    /\ byte \in Pages \cup {Garbage}
    /\ kind \in {"none", "hit", "pagefault"}
    /\ status \in {"none", "success", "failure"}
    /\ pagefaults \in Nat
    /\ failures \in 0..MaxFailures

\* The round robin of physicalmemory.cpp never comes back to a frame that is in
\* use, although nothing there checks that: each frame up to the last one filled
\* belongs to one valid page, and holds its block.
FramesOwned ==
    /\ {frame[p] : p \in Resident} = 0..frameno
    /\ \A p, q \in Resident : frame[p] = frame[q] => p = q
    /\ \A p \in Resident : frames[frame[p]] = p

\* README.txt: "The number of page faults max out at 256, because the logical
\* address space is equal to the physical address space": but for those that
\* ended in an error, there are no more page faults than pages.
FaultsMaxOut ==
    /\ pagefaults - failures <= Cardinality(Pages)
    /\ pagefaults - failures = Cardinality(Resident)

\* The manager is a demand paging memory that never has to replace a page: a
\* successful read returns the page's block, and a page is loaded only once,
\* whatever the TLB has forgotten since.
Paging == INSTANCE DemandPaging WITH
              resident <- [i \in 1..(frameno + 1) |-> frames[i - 1]],
              faulted <- kind = "pagefault",
              value <- IF status = "success" THEN byte ELSE Garbage,
              Strategy <- "fifo",
              Nothing <- Garbage

PagingSpec == Paging!Spec
=============================================================================
