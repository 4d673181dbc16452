------------------------------ MODULE Vmm1Proofs ------------------------------
(***************************************************************************)
(* What holds of the virtual memory manager of pa3_2 for any numbers of    *)
(* pages, frames and TLB entries: the round robin of physicalmemory.cpp    *)
(* never comes back to a frame that is in use, page faults max out, and    *)
(* the manager is a demand paging memory that replaces nothing.            *)
(***************************************************************************)
EXTENDS Vmm1, FiniteSetTheorems, SequenceTheorems, TLAPS

-----------------------------------------------------------------------------
(* Frames are handed out in turn: the frames 0..frameno have been, each to *)
(* one page.  Counting them against the pages shows that the counter does  *)
(* not wrap around while a page is still missing.                          *)

TlbType == tlb \in [table : [Indices -> [page : Pages, frame : Frames] \cup {NoEntry}],
                    robin : -1..(TlbSize - 1)]

\* No page has two entries in the TLB, so that lookup finds the only one.
TlbUnique == \A p \in Pages : \A i, j \in Matches(tlb, p) : i = j

\* The frames filled so far belong to one valid page each, and each page fault that
\* ended well filled one.
Handed ==
    /\ {frame[p] : p \in Resident} = 0..frameno
    /\ \A p, q \in Resident : frame[p] = frame[q] => p = q
    /\ Cardinality(Resident) = frameno + 1
    /\ pagefaults - failures = frameno + 1

FrameInv == TypeOK /\ TlbUnique /\ Handed

USE DEF Frames, Indices

LEMMA ResidentFinite ==
    /\ IsFiniteSet(Resident)
    /\ Cardinality(Resident) \in Nat /\ Cardinality(Pages) \in Nat
    /\ Cardinality(Resident) <= Cardinality(Pages)
<1>1. Resident \in SUBSET Pages  BY DEF Resident
<1> QED  BY <1>1, SizeAssumption, FS_Subset, FS_CardinalityType

\* While a page is missing there is a frame that has not been handed out.
LEMMA NextFrameIsNew ==
    ASSUME FrameInv, NEW p \in Pages, ~IsValid(p)
    PROVE  NextFrame = frameno + 1 /\ NextFrame \in Frames
<1>1. Resident \in SUBSET (Pages \ {p})  BY DEF Resident
<1>2. /\ IsFiniteSet(Pages \ {p})
      /\ Cardinality(Pages \ {p}) = Cardinality(Pages) - 1
  BY SizeAssumption, FS_RemoveElement
<1>3. Cardinality(Resident) <= Cardinality(Pages) - 1
  BY <1>1, <1>2, FS_Subset
<1>4. frameno + 1 < NumFrames /\ frameno + 1 \in Nat /\ NumFrames \in Nat
  BY <1>3, ResidentFinite, SizeAssumption DEF FrameInv, TypeOK, Handed
<1>5. (frameno + 1) % NumFrames = frameno + 1  BY <1>4
<1> QED  BY <1>4, <1>5 DEF NextFrame

\* Adding an entry keeps the TLB well formed, and changes a single entry.
LEMMA TlbAddEntry ==
    ASSUME TlbType, NEW p \in Pages, NEW f \in Frames, tlb' = TlbAdd(tlb, p, f)
    PROVE  /\ TlbType'
           /\ \E victim \in Indices : \A i \in Indices :
                 tlb'.table[i] = IF i = victim THEN Entry(p, f) ELSE tlb.table[i]
<1> DEFINE victim == (tlb.robin + 1) % TlbSize
<1>1. victim \in Indices /\ victim \in -1..(TlbSize - 1)
  BY TlbAssumption DEF TlbType
<1>2. Entry(p, f) \in [page : Pages, frame : Frames]  BY DEF Entry
<1>3. /\ tlb'.table = [tlb.table EXCEPT ![victim] = Entry(p, f)]
      /\ tlb' = [table |-> tlb'.table, robin |-> victim]
  BY DEF TlbAdd
<1> HIDE DEF victim
<1>4. tlb.table \in [Indices -> [page : Pages, frame : Frames] \cup {NoEntry}]
  BY DEF TlbType
<1>5. \A i \in Indices :
          tlb'.table[i] = IF i = victim THEN Entry(p, f) ELSE tlb.table[i]
  BY <1>1, <1>3, <1>4
<1>6. tlb'.table \in [Indices -> [page : Pages, frame : Frames] \cup {NoEntry}]
  BY <1>1, <1>2, <1>3, <1>4
<1>7. TlbType'
  <2>1. [table |-> tlb'.table, robin |-> victim] \in
            [table : [Indices -> [page : Pages, frame : Frames] \cup {NoEntry}],
             robin : -1..(TlbSize - 1)]
    BY <1>1, <1>6
  <2> QED  BY <1>3, <2>1, Zenon DEF TlbType
<1> QED  BY <1>1, <1>5, <1>7

\* An entry is added only for a page that has none.
LEMMA AddKeepsUnique ==
    ASSUME TlbType, TlbUnique, NEW p \in Pages, NEW f \in Frames,
           ~TlbHit(tlb, p), tlb' = TlbAdd(tlb, p, f)
    PROVE  TlbUnique'
<1>1. PICK victim \in Indices : \A i \in Indices :
          tlb'.table[i] = IF i = victim THEN Entry(p, f) ELSE tlb.table[i]
  BY TlbAddEntry
<1>2. Entry(p, f).page = p  BY DEF Entry
<1> SUFFICES ASSUME NEW q \in Pages, NEW i \in Indices, NEW j \in Indices,
                    i \in Matches(tlb', q), j \in Matches(tlb', q)
             PROVE  i = j
  BY DEF TlbUnique, Matches
<1>3. \A k \in Indices : k # victim => k \notin Matches(tlb', p)
  BY <1>1 DEF TlbHit, Matches
<1>4. CASE i # victim /\ j # victim
  BY <1>1, <1>4 DEF TlbUnique, Matches
<1>5. CASE i = victim \/ j = victim
  <2>1. q = p  BY <1>1, <1>2, <1>5 DEF Matches
  <2> QED  BY <1>3, <1>5, <2>1
<1> QED  BY <1>4, <1>5

\* A hit is found at the only entry about the page.
LEMMA HitEntry ==
    ASSUME TlbType, TlbUnique, NEW p \in Pages, TlbHit(tlb, p)
    PROVE  \E i \in Indices : /\ tlb.table[i] # NoEntry /\ tlb.table[i].page = p
                              /\ tlb.table[i].frame \in Frames
                              /\ TlbFrame(tlb, p) = tlb.table[i].frame
<1>1. PICK i \in Matches(tlb, p) : TRUE  BY DEF TlbHit
<1>2. i \in Indices /\ i \in Int  BY <1>1, TlbAssumption DEF Matches
<1>3. Matches(tlb, p) = {i}  BY <1>1 DEF TlbUnique
<1>4. (CHOOSE k \in {i} : \A j \in {i} : k <= j) = i  BY <1>2
<1>5. TlbFrame(tlb, p) = tlb.table[i].frame  BY <1>3, <1>4 DEF TlbFrame
<1>6. tlb.table[i] # NoEntry /\ tlb.table[i].page = p  BY <1>1 DEF Matches
<1>7. tlb.table[i].frame \in Frames  BY <1>2, <1>6 DEF TlbType
<1> QED  BY <1>2, <1>5, <1>6, <1>7

LEMMA InitFrames == Init => FrameInv
<1> SUFFICES ASSUME Init PROVE FrameInv  OBVIOUS
<1>1. TypeOK
  BY SizeAssumption, TlbAssumption DEF Init, TypeOK, TlbInit, TableInit
<1>2. Resident = {}  BY DEF Init, Resident, IsValid, TableInit
<1>3. TlbUnique  BY DEF Init, TlbInit, TlbUnique, Matches
<1>4. frameno = -1 /\ pagefaults = 0 /\ failures = 0  BY DEF Init
<1>5. Handed  BY <1>2, <1>4, FS_EmptySet DEF Handed
<1> QED  BY <1>1, <1>3, <1>5 DEF FrameInv

\* What a page fault does, when the read of the backing store goes well or is taken
\* to have gone well.
LEMMA FaultFrames ==
    ASSUME FrameInv, NEW p \in Pages, ReadFault(p)
    PROVE  /\ frameno' = frameno + 1 /\ frameno' \in Frames
           /\ frame[p] = NoFrame
           /\ frame' = [frame EXCEPT ![p] = frameno']
           /\ \E block \in Pages \cup {Garbage} :
                 frames' = [frames EXCEPT ![frameno'] = block]
           /\ tlb' = TlbAdd(tlb, p, frameno')
           /\ Resident' = Resident \cup {p} /\ p \notin Resident
<1>1. ~IsValid(p) /\ frameno' = NextFrame  BY DEF ReadFault, IsFault
<1>2. frameno' = frameno + 1 /\ frameno' \in Frames  BY <1>1, NextFrameIsNew
<1>3. frame[p] = NoFrame  BY <1>1 DEF IsValid
<1>4. frame' = [frame EXCEPT ![p] = frameno']  BY DEF ReadFault, UpdatePageEntry
<1>5. Resident' = Resident \cup {p} /\ p \notin Resident
  BY <1>2, <1>3, <1>4, SizeAssumption DEF Resident, IsValid, FrameInv, TypeOK
<1> QED
  BY <1>2, <1>3, <1>4, <1>5 DEF ReadFault, LoadFrame, GetPage

LEMMA StepFrames == FrameInv /\ [Next]_vars => FrameInv'
<1> SUFFICES ASSUME FrameInv, [Next]_vars PROVE FrameInv'  OBVIOUS
<1>1. ASSUME frame' = frame, frameno' = frameno,
             pagefaults' - failures' = pagefaults - failures
      PROVE  Handed'
  BY <1>1 DEF FrameInv, Handed, Resident, IsValid
<1>2. ASSUME tlb' = tlb PROVE TlbUnique' /\ TlbType'
  BY <1>2 DEF FrameInv, TlbUnique, TypeOK, TlbType
<1>3. /\ TlbType /\ TlbUnique
      /\ pagefaults \in Nat /\ failures \in 0..MaxFailures /\ MaxFailures \in Nat
      /\ frames \in [Frames -> Pages \cup {Garbage}]
      /\ frame \in [Pages -> Frames \cup {NoFrame}]
  BY SizeAssumption DEF FrameInv, TypeOK, TlbType
<1>4. ASSUME NEW p \in Pages, ReadTlbHit(p) PROVE FrameInv'
  <2>1. Handed'  BY <1>1, <1>4 DEF ReadTlbHit
  <2>2. TlbUnique'  BY <1>2, <1>4 DEF ReadTlbHit
  <2>3. TlbFrame(tlb, p) \in Frames
    BY <1>3, <1>4, HitEntry DEF ReadTlbHit
  <2>4. byte' \in Pages \cup {Garbage}
    BY <1>3, <1>4, <2>3 DEF ReadTlbHit, Deliver, ByteAt
  <2>5. TypeOK'  BY <1>4, <2>4 DEF ReadTlbHit, Deliver, FrameInv, TypeOK
  <2> QED  BY <2>1, <2>2, <2>5 DEF FrameInv
<1>5. ASSUME NEW p \in Pages, ReadPageHit(p) PROVE FrameInv'
  <2>1. Handed'  BY <1>1, <1>5 DEF ReadPageHit
  <2>2. frame[p] \in Frames  BY <1>3, <1>5 DEF ReadPageHit, IsValid
  <2>3. TlbUnique' /\ TlbType'
    BY <1>3, <1>5, <2>2, AddKeepsUnique, TlbAddEntry DEF ReadPageHit
  <2>4. byte' \in Pages \cup {Garbage}
    BY <1>3, <1>5, <2>2 DEF ReadPageHit, Deliver, ByteAt
  <2>5. TypeOK'
    BY <1>5, <2>3, <2>4 DEF ReadPageHit, Deliver, FrameInv, TypeOK, TlbType
  <2> QED  BY <2>1, <2>3, <2>5 DEF FrameInv
<1>6. ASSUME NEW p \in Pages, ReadSeekFails(p) PROVE FrameInv'
  <2>1. pagefaults' - failures' = pagefaults - failures /\ pagefaults' \in Nat
        /\ failures' \in 0..MaxFailures
    BY <1>3, <1>6 DEF ReadSeekFails
  <2>2. Handed'  BY <1>1, <1>6, <2>1 DEF ReadSeekFails
  <2>3. TlbUnique'  BY <1>2, <1>6 DEF ReadSeekFails
  <2>4. TypeOK'  BY <1>6, <2>1 DEF ReadSeekFails, FrameInv, TypeOK
  <2> QED  BY <2>2, <2>3, <2>4 DEF FrameInv
<1>7. ASSUME NEW p \in Pages, ReadFault(p) PROVE FrameInv'
  <2> DEFINE f == frameno'
  <2>1. /\ f = frameno + 1 /\ f \in Frames /\ frame[p] = NoFrame
        /\ frame' = [frame EXCEPT ![p] = f]
        /\ tlb' = TlbAdd(tlb, p, f)
        /\ Resident' = Resident \cup {p} /\ p \notin Resident
    BY <1>7, FaultFrames
  <2>2. frameno \in Int /\ f \in Nat /\ f \in -1..(NumFrames - 1)
    BY <2>1, SizeAssumption DEF FrameInv, TypeOK
  <2>3. TlbUnique' /\ TlbType'
    BY <1>3, <1>7, <2>1, AddKeepsUnique, TlbAddEntry DEF ReadFault, IsFault
  <2>4. frames' \in [Frames -> Pages \cup {Garbage}]
    BY <1>3, <1>7, FaultFrames
  <2>5. byte' \in Pages \cup {Garbage}
    BY <1>7, <2>1, <2>4 DEF ReadFault, Deliver, ByteAt
  <2>6. TypeOK'
    <3>1. frame' \in [Pages -> Frames \cup {NoFrame}]  BY <1>3, <2>1
    <3>2. pagefaults' \in Nat  BY <1>3, <1>7 DEF ReadFault
    <3> QED
      BY <1>3, <1>7, <2>2, <2>3, <2>4, <2>5, <3>1, <3>2
      DEF ReadFault, Deliver, TypeOK, TlbType
  <2>7. Handed'
    <3>1. Cardinality(Resident') = Cardinality(Resident) + 1
      BY <2>1, ResidentFinite, FS_AddElement
    <3>2. \A q \in Resident : frame'[q] = frame[q] /\ frame[q] \in 0..frameno
      BY <1>3, <2>1 DEF FrameInv, Handed, Resident
    <3>3. frame'[p] = f  BY <1>3, <2>1
    <3>4. {frame'[q] : q \in Resident'} = 0..f
      <4>1. {frame'[q] : q \in Resident'} = {frame[q] : q \in Resident} \cup {f}
        BY <2>1, <3>2, <3>3
      <4>2. 0..f = 0..frameno \cup {f}  BY <2>1, <2>2
      <4> QED  BY <4>1, <4>2 DEF FrameInv, Handed
    <3>5. \A q, r \in Resident' : frame'[q] = frame'[r] => q = r
      <4>1. \A q \in Resident : frame'[q] # f  BY <2>1, <2>2, <3>2
      <4> QED  BY <2>1, <3>2, <3>3, <4>1 DEF FrameInv, Handed
    <3>6. pagefaults' - failures' = pagefaults - failures + 1
      BY <1>3, <1>7 DEF ReadFault
    <3> QED
      BY <2>1, <2>2, <3>1, <3>4, <3>5, <3>6 DEF FrameInv, Handed
  <2> QED  BY <2>3, <2>6, <2>7 DEF FrameInv
<1>8. CASE UNCHANGED vars
  BY <1>1, <1>2, <1>8 DEF vars, FrameInv, TypeOK
<1> QED  BY <1>4, <1>5, <1>6, <1>7, <1>8 DEF Next

\* Every variable has its type; frameno stays below NumFrames.
THEOREM TypeCorrect == Spec => []TypeOK
<1>1. FrameInv => TypeOK  BY DEF FrameInv
<1> QED  BY <1>1, InitFrames, StepFrames, PTL DEF Spec

\* "The number of page faults max out at 256": page faults that end well are as many
\* as the pages in memory, and so never more than there are pages.
THEOREM PageFaultsMaxOut == Spec => []FaultsMaxOut
<1>1. FrameInv => FaultsMaxOut
  BY ResidentFinite DEF FrameInv, Handed, FaultsMaxOut
<1> QED  BY <1>1, InitFrames, StepFrames, PTL DEF Spec

-----------------------------------------------------------------------------
(* When read(2) on the backing store succeeds the frames hold what they    *)
(* should, and so does the TLB: a page once loaded stays.                  *)

\* An entry of the TLB agrees with the page table.
TlbCoherent ==
    \A i \in Indices : tlb.table[i] # NoEntry =>
        frame[tlb.table[i].page] = tlb.table[i].frame

ReadInv == TlbCoherent /\ FramesOwned

LEMMA InitReads == Init => ReadInv
<1> SUFFICES ASSUME Init PROVE ReadInv  OBVIOUS
<1>1. Resident = {}  BY DEF Init, Resident, IsValid, TableInit
<1>2. TlbCoherent  BY DEF Init, TlbInit, TlbCoherent
<1>3. FramesOwned  BY <1>1 DEF Init, FramesOwned
<1> QED  BY <1>2, <1>3 DEF ReadInv

\* What a page fault loads when read(2) succeeds.
LEMMA StepReads ==
    ASSUME "read" \notin DiskFaults, FrameInv, FrameInv', ReadInv, [Next]_vars
    PROVE  ReadInv'
<1> USE DEF ReadInv
<1>0. /\ frame \in [Pages -> Frames \cup {NoFrame}]
      /\ frames \in [Frames -> Pages \cup {Garbage}]
      /\ TlbType
  BY DEF FrameInv, TypeOK, TlbType
<1>1. ASSUME frame' = frame, frameno' = frameno, frames' = frames
      PROVE  FramesOwned'
  BY <1>1 DEF FramesOwned, Resident, IsValid
<1>2. ASSUME tlb' = tlb, frame' = frame PROVE TlbCoherent'
  BY <1>2 DEF TlbCoherent
<1>3. ASSUME NEW p \in Pages, ReadTlbHit(p) \/ ReadSeekFails(p) PROVE ReadInv'
  BY <1>1, <1>2, <1>3 DEF ReadTlbHit, ReadSeekFails
<1>4. ASSUME NEW p \in Pages, ReadPageHit(p) PROVE ReadInv'
  <2>1. FramesOwned'  BY <1>1, <1>4 DEF ReadPageHit
  <2>2. frame[p] \in Frames  BY <1>0, <1>4 DEF ReadPageHit, IsValid
  <2>3. \A i \in Indices : tlb'.table[i] = Entry(p, frame[p])
                           \/ tlb'.table[i] = tlb.table[i]
    BY <1>0, <1>4, <2>2, TlbAddEntry DEF ReadPageHit
  <2>4. frame' = frame  BY <1>4 DEF ReadPageHit
  <2> QED  BY <2>1, <2>3, <2>4 DEF TlbCoherent, Entry
<1>5. ASSUME NEW p \in Pages, ReadFault(p) PROVE ReadInv'
  <2> DEFINE f == frameno'
  <2>1. /\ f = frameno + 1 /\ f \in Frames /\ frame[p] = NoFrame
        /\ frame' = [frame EXCEPT ![p] = f]
        /\ tlb' = TlbAdd(tlb, p, f)
        /\ Resident' = Resident \cup {p} /\ p \notin Resident
    BY <1>5, FaultFrames
  <2>2. frames' = [frames EXCEPT ![f] = p]
    BY <1>5 DEF ReadFault, LoadFrame, GetPage
  <2>3. frame'[p] = f /\ \A q \in Pages \ {p} : frame'[q] = frame[q]
    BY <1>0, <2>1
  <2>4. TlbCoherent'
    <3>1. \A i \in Indices : tlb'.table[i] = Entry(p, f)
                             \/ tlb'.table[i] = tlb.table[i]
      BY <1>0, <2>1, TlbAddEntry
    <3>2. \A i \in Indices : tlb.table[i] # NoEntry =>
              tlb.table[i].page \in Pages /\ tlb.table[i].page # p
      BY <1>0, <1>5 DEF ReadFault, IsFault, TlbHit, Matches, TlbType
    <3>3. Entry(p, f).page = p /\ Entry(p, f).frame = f  BY DEF Entry
    <3> QED  BY <2>3, <3>1, <3>2, <3>3 DEF TlbCoherent
  <2>5. \A q \in Resident : frame[q] \in Frames /\ frame[q] # f
    <3>1. \A q \in Resident : frame[q] \in 0..frameno  BY DEF FramesOwned
    <3>2. frameno \in Int  BY SizeAssumption DEF FrameInv, TypeOK
    <3> QED  BY <2>1, <3>1, <3>2, SizeAssumption
  <2>6. \A q \in Resident' : frames'[frame'[q]] = q
    BY <1>0, <2>1, <2>2, <2>3, <2>5 DEF FramesOwned, Resident
  <2> QED  BY <2>4, <2>6 DEF FrameInv, Handed, FramesOwned
<1>6. CASE UNCHANGED vars
  BY <1>1, <1>2, <1>6 DEF vars
<1> QED  BY <1>3, <1>4, <1>5, <1>6 DEF Next

\* The round robin never overwrites a frame that is in use: each one belongs to a
\* single page and holds its block.
THEOREM FramesStayOwned ==
    ASSUME "read" \notin DiskFaults
    PROVE  Spec => []FramesOwned
<1>1. ReadInv => FramesOwned  BY DEF ReadInv
<1>2. FrameInv /\ FrameInv' /\ ReadInv /\ [Next]_vars => ReadInv'  BY StepReads
<1> QED
  BY <1>1, <1>2, InitFrames, StepFrames, InitReads, PTL DEF Spec

-----------------------------------------------------------------------------
(* Refinement: the manager is a demand paging memory.                      *)

\* The pages in memory, in the order they were loaded.
Memory == [i \in 1..(frameno + 1) |-> frames[i - 1]]

\* It lists the valid pages.
LEMMA MemoryIsResident ==
    ASSUME FrameInv, ReadInv
    PROVE  /\ Memory \in Seq(Pages)
           /\ Len(Memory) = frameno + 1
           /\ \A p \in Pages : p \in Paging!ToSet(Memory) <=> IsValid(p)
<1>1. frameno \in Int /\ frameno + 1 \in Nat
  BY SizeAssumption DEF FrameInv, TypeOK
<1>2. \A k \in 0..frameno : \E p \in Resident : frame[p] = k /\ frames[k] = p
  BY DEF ReadInv, FramesOwned
<1>3. \A i \in 1..(frameno + 1) : i - 1 \in 0..frameno  BY <1>1
<1>4. \A i \in 1..(frameno + 1) : frames[i - 1] \in Resident
  BY <1>2, <1>3
<1>5. Memory \in [1..(frameno + 1) -> Pages]  BY <1>4 DEF Memory, Resident
<1>6. Memory \in Seq(Pages) /\ Len(Memory) = frameno + 1
  BY <1>1, <1>5
<1>7. ASSUME NEW p \in Pages, p \in Paging!ToSet(Memory) PROVE IsValid(p)
  <2>1. PICK i \in 1..(frameno + 1) : p = frames[i - 1]
    BY <1>5, <1>7 DEF Paging!ToSet, Memory
  <2> QED  BY <1>4, <2>1 DEF Resident
<1>8. ASSUME NEW p \in Pages, IsValid(p) PROVE p \in Paging!ToSet(Memory)
  <2>1. p \in Resident  BY <1>8 DEF Resident
  <2>2. frame[p] \in 0..frameno /\ frames[frame[p]] = p
    BY <2>1 DEF ReadInv, FramesOwned
  <2>3. frame[p] + 1 \in 1..(frameno + 1) /\ (frame[p] + 1) - 1 = frame[p]
    BY <1>1, <2>2
  <2>4. Memory[frame[p] + 1] = p  BY <2>2, <2>3 DEF Memory
  <2> QED  BY <1>5, <2>3, <2>4 DEF Paging!ToSet
<1> QED  BY <1>6, <1>7, <1>8

LEMMA PagingInit == Init => Paging!Init
<1> SUFFICES ASSUME Init PROVE Paging!Init  OBVIOUS
<1>1. frameno = -1  BY DEF Init
<1>2. Memory = <<>>
  <2>1. Memory \in [1..0 -> {}]  BY <1>1 DEF Memory
  <2>2. Memory \in Seq({}) /\ Len(Memory) = 0  BY <2>1
  <2> QED  BY <2>2, EmptySeq
<1> QED  BY <1>2 DEF Init, Paging!Init, Memory

LEMMA PagingStep ==
    ASSUME "read" \notin DiskFaults, FrameInv, FrameInv', ReadInv, ReadInv',
           [Next]_vars
    PROVE  [Paging!Next]_(Paging!vars)
<1> USE DEF Paging!vars
<1>0. /\ frame \in [Pages -> Frames \cup {NoFrame}]
      /\ TlbType /\ TlbUnique
  BY DEF FrameInv, TypeOK, TlbType
<1>1. ASSUME NEW p \in Pages, IsValid(p), UNCHANGED <<frameno, frames>>,
             Deliver(p, "hit", frame[p])
      PROVE  Paging!Hit(p)
  <2>1. frames[frame[p]] = p  BY <1>1 DEF ReadInv, FramesOwned, Resident
  <2>2. p \in Paging!ToSet(Memory)  BY <1>1, MemoryIsResident
  <2>3. Memory' = Memory  BY <1>1 DEF Memory
  <2>4. PICK i \in DOMAIN Memory : Memory[i] = p  BY <2>2 DEF Paging!ToSet
  <2>5. page' = p /\ (kind' = "pagefault") = FALSE /\ status' = "success" /\ byte' = p
    BY <1>1, <2>1 DEF Deliver, ByteAt
  <2> QED  BY <2>3, <2>4, <2>5 DEF Paging!Hit, Memory
<1>2. ASSUME NEW p \in Pages, ReadTlbHit(p) PROVE Paging!Next
  <2>1. PICK i \in Indices : /\ tlb.table[i] # NoEntry /\ tlb.table[i].page = p
                             /\ tlb.table[i].frame \in Frames
                             /\ TlbFrame(tlb, p) = tlb.table[i].frame
    BY <1>0, <1>2, HitEntry DEF ReadTlbHit
  <2>2. TlbFrame(tlb, p) = frame[p] /\ IsValid(p)
    BY <2>1, SizeAssumption DEF ReadInv, TlbCoherent, IsValid
  <2> QED  BY <1>1, <1>2, <2>2 DEF ReadTlbHit, Paging!Next
<1>3. ASSUME NEW p \in Pages, ReadPageHit(p) PROVE Paging!Next
  BY <1>1, <1>3 DEF ReadPageHit, Paging!Next
<1>4. ASSUME NEW p \in Pages, ReadSeekFails(p) PROVE Paging!Next
  <2>1. p \notin Paging!ToSet(Memory)
    BY <1>4, MemoryIsResident DEF ReadSeekFails, IsFault
  <2>2. Memory' = Memory  BY <1>4 DEF ReadSeekFails, Memory
  <2>3. Paging!Fail(p)
    BY <1>4, <2>1, <2>2 DEF ReadSeekFails, Paging!Fail, Memory
  <2> QED  BY <2>3 DEF Paging!Next
<1>5. ASSUME NEW p \in Pages, ReadFault(p) PROVE Paging!Next
  <2> DEFINE f == frameno'
  <2>1. /\ f = frameno + 1 /\ f \in Frames
        /\ Resident' = Resident \cup {p} /\ p \notin Resident
    BY <1>5, FaultFrames
  <2>2. frames' = [frames EXCEPT ![f] = p]
    BY <1>5 DEF ReadFault, LoadFrame, GetPage
  <2>3. frames \in [Frames -> Pages \cup {Garbage}] /\ frameno \in Int
    BY SizeAssumption DEF FrameInv, TypeOK
  <2>4. p \notin Paging!ToSet(Memory) /\ Len(Memory) = f
    BY <1>5, <2>1, MemoryIsResident DEF ReadFault, IsFault
  <2>5. Memory' = Append(Memory, p)
    <3>1. Memory \in Seq(Pages) /\ Len(Memory) = f  BY <2>1, MemoryIsResident
    <3>2. Memory' \in Seq(Pages) /\ Len(Memory') = f + 1
      <4>1. (Memory \in Seq(Pages) /\ Len(Memory) = frameno + 1)'
        BY MemoryIsResident, PTL
      <4> QED  BY <4>1
    <3>3. Memory'[f + 1] = p  BY <2>1, <2>2, <2>3 DEF Memory
    <3>4. \A i \in 1..f : Memory'[i] = Memory[i]
      BY <2>1, <2>2, <2>3 DEF Memory
    <3>5. /\ Append(Memory, p) \in Seq(Pages)
          /\ Len(Append(Memory, p)) = f + 1
          /\ \A i \in 1..f : Append(Memory, p)[i] = Memory[i]
          /\ Append(Memory, p)[f + 1] = p
      BY <3>1, AppendProperties
    <3>6. \A i \in 1..(f + 1) : Memory'[i] = Append(Memory, p)[i]
      BY <2>1, <3>3, <3>4, <3>5
    <3> QED  BY <3>2, <3>5, <3>6, SeqEqual
  <2>6. byte' = p
    BY <1>5, <2>1, <2>2, <2>3 DEF ReadFault, Deliver, ByteAt
  <2>7. f < NumFrames  BY <2>1, SizeAssumption
  <2>8. Paging!Fault(p)
    BY <1>5, <2>4, <2>5, <2>6, <2>7 DEF ReadFault, Deliver, Paging!Fault, Memory
  <2> QED  BY <2>8 DEF Paging!Next
<1>6. CASE UNCHANGED vars
  BY <1>6 DEF vars
<1> QED  BY <1>2, <1>3, <1>4, <1>5, <1>6 DEF Next

\* Seen from outside the manager is a memory that loads each page once and returns
\* the block of the page asked for, whatever the TLB remembers, for any numbers of
\* pages, frames and TLB entries, provided that read(2) succeeds.
THEOREM ManagerIsDemandPaging ==
    ASSUME "read" \notin DiskFaults
    PROVE  Spec => PagingSpec
<1>1. FrameInv /\ FrameInv' /\ ReadInv /\ [Next]_vars => ReadInv'  BY StepReads
<1>2. FrameInv /\ FrameInv' /\ ReadInv /\ ReadInv' /\ [Next]_vars
          => [Paging!Next]_(Paging!vars)
  BY PagingStep
<1> QED
  BY <1>1, <1>2, InitFrames, StepFrames, InitReads, PagingInit, PTL
  DEF Spec, PagingSpec, Paging!Spec
=============================================================================
