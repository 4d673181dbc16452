----------------------------- MODULE Vmm2Proofs -----------------------------
(***************************************************************************)
(* What holds of the virtual memory manager of pa3_3 for any numbers of    *)
(* pages, frames and TLB entries and either strategy: the frames are never *)
(* leaked or shared and, when read(2) does not fail, the page table never  *)
(* lies.  And when there are as many frames as pages, so that nothing is   *)
(* ever evicted, the TLB never lies either and every read is right, in     *)
(* spite of Tlb::invalidate having no effect.                              *)
(***************************************************************************)
EXTENDS Vmm2, FiniteSetTheorems, SequenceTheorems, TLAPS

-----------------------------------------------------------------------------
(* The part of TypeOK the proofs need: all but the order of the pages.     *)

TlbType ==
    /\ tlb.table \in [Indices -> [page : Pages, frame : Frames] \cup {NoEntry}]
    /\ tlb.robin \in -1..(TlbSize - 1)

TableType == pageTable.frame \in [Pages -> Frames \cup {NoFrame}]

MemoryType ==
    /\ used \in 0..NumFrames
    /\ frames \in [Frames -> Pages \cup {Garbage}]

VmmType == TlbType /\ TableType /\ MemoryType

USE DEF Frames, Indices, LoadFrame, ByteAt

\* Adding an entry keeps the TLB well formed; one entry is the new one and the
\* others are as they were.
LEMMA TlbAddEntry ==
    ASSUME TlbType, NEW p \in Pages, NEW f \in Frames, tlb' = TlbAdd(tlb, p, f)
    PROVE  /\ TlbType'
           /\ \A i \in Indices : tlb'.table[i] = Entry(p, f)
                                 \/ tlb'.table[i] = tlb.table[i]
<1> DEFINE victim == (tlb.robin + 1) % TlbSize
<1>1. victim \in Indices /\ victim \in -1..(TlbSize - 1)
  BY TlbAssumption DEF TlbType
<1>2. Entry(p, f) \in [page : Pages, frame : Frames]  BY DEF Entry
<1>3. /\ tlb'.table = [tlb.table EXCEPT ![victim] = Entry(p, f)]
      /\ tlb'.robin = victim
  BY DEF TlbAdd
<1> HIDE DEF victim
<1> QED  BY <1>1, <1>2, <1>3 DEF TlbType

LEMMA InitType == Init => VmmType
BY FrameAssumption, TlbAssumption
DEF Init, VmmType, TlbType, TableType, MemoryType, TlbInit, TableInit

\* The frame of a page that is valid.
LEMMA ValidFrame ==
    ASSUME TableType, NEW p \in Pages
    PROVE  IsValid(pageTable, p) => pageTable.frame[p] \in Frames
BY DEF TableType, IsValid

LEMMA StepType == VmmType /\ [Next]_vars => VmmType'
<1> SUFFICES ASSUME VmmType, [Next]_vars PROVE VmmType'  OBVIOUS
<1> USE DEF VmmType
<1>1. ASSUME NEW p \in Pages, ReadTlbHit(p) PROVE VmmType'
  BY <1>1 DEF ReadTlbHit, TableLookup, TlbType, TableType, MemoryType
<1>2. ASSUME NEW p \in Pages, ReadPageHit(p) PROVE VmmType'
  <2>1. TlbType'  BY <1>2, ValidFrame, TlbAddEntry DEF ReadPageHit
  <2> QED  BY <1>2, <2>1 DEF ReadPageHit, TableLookup, TableType, MemoryType
<1>3. ASSUME NEW p \in Pages, ReadSeekFails(p) PROVE VmmType'
  BY <1>3 DEF ReadSeekFails, TableLookup, TlbType, TableType, MemoryType
<1>4. ASSUME NEW p \in Pages, ReadFaultFree(p) PROVE VmmType'
  <2>1. used \in Frames  BY <1>4, FrameAssumption DEF ReadFaultFree, MemoryType
  <2>2. TlbType'  BY <1>4, <2>1, TlbAddEntry DEF ReadFaultFree
  <2>3. TableType'
    BY <1>4, <2>1 DEF ReadFaultFree, TableUpdate, TableLookup, TableType
  <2>4. MemoryType'
    BY <1>4, <2>1, FrameAssumption DEF ReadFaultFree, MemoryType, GetPage
  <2> QED  BY <2>2, <2>3, <2>4
<1>5. ASSUME NEW p \in Pages, NEW v \in Pages, ReadFaultEvict(p, v)
      PROVE  VmmType'
  <2>1. pageTable.frame[v] \in Frames
    BY <1>5, ValidFrame DEF ReadFaultEvict, IsVictim, IsValid, TableLookup
  <2>2. TlbType'
    BY <1>5, <2>1, TlbAddEntry DEF ReadFaultEvict, TlbInvalidate
  <2>3. TableType'
    BY <1>5, <2>1 DEF ReadFaultEvict, TableUpdate, TableLookup, TableType
  <2>4. MemoryType'
    BY <1>5, <2>1 DEF ReadFaultEvict, MemoryType, GetPage
  <2> QED  BY <2>2, <2>3, <2>4
<1>6. CASE UNCHANGED vars
  BY <1>6 DEF vars, TlbType, TableType, MemoryType
<1> QED  BY <1>1, <1>2, <1>3, <1>4, <1>5, <1>6 DEF Next

-----------------------------------------------------------------------------
(* Frames and the page table.                                              *)

LEMMA InitOwned == Init => FramesOwned
BY FrameAssumption
DEF Init, FramesOwned, Resident, IsValid, TableInit

\* What an eviction does to the translations.
LEMMA EvictFrames ==
    ASSUME TableType, NEW p \in Pages, NEW v \in Pages, ReadFaultEvict(p, v)
    PROVE  /\ pageTable.frame[v] \in Frames
           /\ p # v
           /\ pageTable.frame[p] = NoFrame
           /\ pageTable'.frame = [pageTable.frame EXCEPT
                                    ![v] = NoFrame, ![p] = pageTable.frame[v]]
BY ValidFrame
DEF ReadFaultEvict, IsFault, IsVictim, IsValid, TableLookup, TableUpdate,
    TableType

\* What a fault that finds a free frame does to them.
LEMMA FreeFrames ==
    ASSUME TableType, MemoryType, NEW p \in Pages, ReadFaultFree(p)
    PROVE  /\ used \in Frames
           /\ pageTable.frame[p] = NoFrame
           /\ pageTable'.frame = [pageTable.frame EXCEPT ![p] = used]
BY FrameAssumption
DEF ReadFaultFree, IsFault, IsValid, TableLookup, TableUpdate, TableType,
    MemoryType

LEMMA StepOwned == VmmType /\ FramesOwned /\ [Next]_vars => FramesOwned'
<1> SUFFICES ASSUME VmmType, FramesOwned, [Next]_vars PROVE FramesOwned'
  OBVIOUS
<1> USE DEF VmmType
<1>0. ASSUME pageTable'.frame = pageTable.frame, used' = used
      PROVE  FramesOwned'
  BY <1>0 DEF FramesOwned, Resident, IsValid
<1>1. ASSUME NEW p \in Pages, ReadTlbHit(p) PROVE FramesOwned'
  BY <1>0, <1>1 DEF ReadTlbHit, TableLookup
<1>2. ASSUME NEW p \in Pages, ReadPageHit(p) PROVE FramesOwned'
  BY <1>0, <1>2 DEF ReadPageHit, TableLookup
<1>3. ASSUME NEW p \in Pages, ReadSeekFails(p) PROVE FramesOwned'
  BY <1>0, <1>3 DEF ReadSeekFails, TableLookup
<1>4. ASSUME NEW p \in Pages, ReadFaultFree(p) PROVE FramesOwned'
  <2>1. /\ used \in Frames /\ pageTable.frame[p] = NoFrame
        /\ pageTable'.frame = [pageTable.frame EXCEPT ![p] = used]
    BY <1>4, FreeFrames
  <2>2. used' = used + 1 /\ used \in Nat
    BY <1>4, FrameAssumption DEF ReadFaultFree, MemoryType
  <2>3. Resident' = Resident \cup {p}
    BY <2>1, FrameAssumption DEF Resident, IsValid, TableType
  <2>4. \A q \in Resident : pageTable'.frame[q] = pageTable.frame[q]
    BY <2>1 DEF Resident, IsValid, TableType
  <2>5. pageTable'.frame[p] = used  BY <2>1 DEF TableType
  <2>6. \A q \in Resident : pageTable.frame[q] \in 0..(used - 1)
    BY DEF FramesOwned
  <2>7. \A q, r \in Resident' :
            pageTable'.frame[q] = pageTable'.frame[r] => q = r
    <3>1. \A q \in Resident : pageTable'.frame[q] # used
      BY <2>2, <2>4, <2>6
    <3> QED  BY <2>3, <2>4, <2>5, <3>1 DEF FramesOwned
  <2>8. {pageTable'.frame[q] : q \in Resident'} =
            {pageTable.frame[q] : q \in Resident} \cup {used}
    BY <2>3, <2>4, <2>5
  <2>9. 0..(used' - 1) = 0..(used - 1) \cup {used}  BY <2>2
  <2> QED  BY <2>7, <2>8, <2>9 DEF FramesOwned
<1>5. ASSUME NEW p \in Pages, NEW v \in Pages, ReadFaultEvict(p, v)
      PROVE  FramesOwned'
  <2>1. /\ pageTable.frame[v] \in Frames /\ p # v
        /\ pageTable.frame[p] = NoFrame
        /\ pageTable'.frame = [pageTable.frame EXCEPT
                                 ![v] = NoFrame, ![p] = pageTable.frame[v]]
    BY <1>5, EvictFrames
  <2>2. used' = used  BY <1>5 DEF ReadFaultEvict
  <2>3. v \in Resident /\ p \notin Resident
    BY <2>1, FrameAssumption DEF Resident, IsValid
  <2>4. /\ pageTable'.frame[p] = pageTable.frame[v]
        /\ \A q \in Resident \ {v} : pageTable'.frame[q] = pageTable.frame[q]
    BY <2>1, <2>3 DEF TableType, Resident
  <2>5. Resident' = (Resident \ {v}) \cup {p}
    BY <2>1, FrameAssumption DEF Resident, IsValid, TableType
  <2>6. \A q, r \in Resident' :
            pageTable'.frame[q] = pageTable'.frame[r] => q = r
    BY <2>3, <2>4, <2>5 DEF FramesOwned
  <2>7. {pageTable'.frame[q] : q \in Resident'} =
            {pageTable.frame[q] : q \in Resident}
    BY <2>3, <2>4, <2>5
  <2> QED  BY <2>2, <2>6, <2>7 DEF FramesOwned
<1>6. CASE UNCHANGED vars
  BY <1>0, <1>6 DEF vars
<1> QED  BY <1>1, <1>2, <1>3, <1>4, <1>5, <1>6 DEF Next

\* Every frame taken from the working set belongs to exactly one valid page, in
\* whatever order pages are read, evicted and fail to load.
THEOREM FramesNeverLeaked == Spec => []FramesOwned
<1> QED  BY InitType, StepType, InitOwned, StepOwned, PTL DEF Spec

\* The page table never points to a frame that holds another page's block, with
\* or without evictions, provided that read(2) on the backing store succeeds.
THEOREM TableNeverLies ==
    ASSUME "read" \notin DiskFaults
    PROVE  Spec => []TableCoherent
<1>1. Init => TableCoherent
  BY FrameAssumption DEF Init, TableCoherent, Resident, IsValid, TableInit
<1>2. VmmType /\ FramesOwned /\ TableCoherent /\ [Next]_vars => TableCoherent'
  <2> SUFFICES ASSUME VmmType, FramesOwned, TableCoherent, [Next]_vars
               PROVE  TableCoherent'
    OBVIOUS
  <2> USE DEF VmmType
  <2>0. ASSUME pageTable'.frame = pageTable.frame, frames' = frames
        PROVE  TableCoherent'
    BY <2>0 DEF TableCoherent, Resident, IsValid
  <2>1. ASSUME NEW p \in Pages, ReadTlbHit(p) \/ ReadPageHit(p) \/ ReadSeekFails(p)
        PROVE  TableCoherent'
    BY <2>0, <2>1 DEF ReadTlbHit, ReadPageHit, ReadSeekFails, TableLookup
  <2>2. ASSUME NEW p \in Pages, ReadFaultFree(p) PROVE TableCoherent'
    <3>1. /\ used \in Frames
          /\ pageTable'.frame = [pageTable.frame EXCEPT ![p] = used]
      BY <2>2, FreeFrames
    <3>2. frames' = [frames EXCEPT ![used] = p]
      BY <2>2 DEF ReadFaultFree, GetPage
    <3>0. \A q \in Resident : pageTable.frame[q] \in 0..(used - 1)
      BY DEF FramesOwned
    <3>3. \A q \in Resident : pageTable.frame[q] \in Frames \ {used}
      BY <3>0, <3>1, FrameAssumption
    <3>4. \A q \in Resident' \ {p} : q \in Resident
      BY <3>1 DEF Resident, IsValid, TableType
    <3> QED
      BY <3>1, <3>2, <3>3, <3>4
      DEF TableCoherent, Resident, TableType, MemoryType
  <2>3. ASSUME NEW p \in Pages, NEW v \in Pages, ReadFaultEvict(p, v)
        PROVE  TableCoherent'
    <3>1. /\ pageTable.frame[v] \in Frames /\ p # v
          /\ pageTable'.frame = [pageTable.frame EXCEPT
                                   ![v] = NoFrame, ![p] = pageTable.frame[v]]
      BY <2>3, EvictFrames
    <3>2. frames' = [frames EXCEPT ![pageTable.frame[v]] = p]
      BY <2>3 DEF ReadFaultEvict, GetPage
    <3>3. v \in Resident
      BY <3>1, FrameAssumption DEF Resident, IsValid
    <3>4. \A q \in Resident' \ {p} : q \in Resident /\ q # v
      BY <3>1 DEF Resident, IsValid, TableType
    <3>5. \A q \in Resident \ {v} : pageTable.frame[q] # pageTable.frame[v]
      BY <3>3 DEF FramesOwned
    <3>6. \A q \in Resident : pageTable.frame[q] \in Frames
      BY ValidFrame DEF Resident
    <3> QED
      BY <3>1, <3>2, <3>4, <3>5, <3>6
      DEF TableCoherent, Resident, TableType, MemoryType
  <2>4. CASE UNCHANGED vars
    BY <2>0, <2>4 DEF vars
  <2> QED  BY <2>1, <2>2, <2>3, <2>4 DEF Next
<1> QED
  BY <1>1, <1>2, InitType, StepType, InitOwned, StepOwned, PTL DEF Spec

-----------------------------------------------------------------------------
(* The TLB.  An entry is added only for a page that has none, so entries   *)
(* are unique; and while nothing is evicted they agree with the table.     *)

\* What adding an entry for a page that has none does to the matches.
LEMMA AddKeepsUnique ==
    ASSUME TlbType, TlbUnique, NEW p \in Pages, NEW f \in Frames,
           ~TlbHit(tlb, p), tlb' = TlbAdd(tlb, p, f)
    PROVE  TlbUnique'
<1> DEFINE victim == (tlb.robin + 1) % TlbSize
<1>1. victim \in Indices  BY TlbAssumption DEF TlbType
<1>2. tlb'.table = [tlb.table EXCEPT ![victim] = Entry(p, f)]
  BY DEF TlbAdd
<1> HIDE DEF victim
<1>3. \A i \in Indices : tlb'.table[i] =
          IF i = victim THEN Entry(p, f) ELSE tlb.table[i]
  BY <1>1, <1>2 DEF TlbType
<1>4. Entry(p, f).page = p  BY DEF Entry
<1>5. SUFFICES ASSUME NEW q \in Pages, NEW i \in Indices, NEW j \in Indices,
                      i \in Matches(tlb', q), j \in Matches(tlb', q)
               PROVE  i = j
  BY DEF TlbUnique, Matches
<1>6. CASE i # victim /\ j # victim
  BY <1>3, <1>5, <1>6 DEF TlbUnique, Matches
<1>7. ASSUME NEW k \in Indices, k # victim, k \in Matches(tlb', p) PROVE FALSE
  BY <1>3, <1>7 DEF TlbHit, Matches
<1>8. CASE i = victim
  <2>1. q = p  BY <1>3, <1>4, <1>5, <1>8 DEF Matches
  <2> QED  BY <1>5, <1>7, <1>8, <2>1
<1>9. CASE j = victim
  <2>1. q = p  BY <1>3, <1>4, <1>5, <1>9 DEF Matches
  <2> QED  BY <1>5, <1>7, <1>9, <2>1
<1> QED  BY <1>6, <1>8, <1>9

LEMMA StepUnique == VmmType /\ TlbUnique /\ [Next]_vars => TlbUnique'
<1> SUFFICES ASSUME VmmType, TlbUnique, [Next]_vars PROVE TlbUnique'  OBVIOUS
<1> USE DEF VmmType
<1>1. ASSUME tlb' = tlb PROVE TlbUnique'
  BY <1>1 DEF TlbUnique, Matches
<1>2. ASSUME NEW p \in Pages, ReadTlbHit(p) \/ ReadSeekFails(p) PROVE TlbUnique'
  BY <1>1, <1>2 DEF ReadTlbHit, ReadSeekFails
<1>3. ASSUME NEW p \in Pages, ReadPageHit(p) PROVE TlbUnique'
  BY <1>3, ValidFrame, AddKeepsUnique DEF ReadPageHit
<1>4. ASSUME NEW p \in Pages, ReadFaultFree(p) PROVE TlbUnique'
  BY <1>4, FreeFrames, AddKeepsUnique DEF ReadFaultFree, IsFault
<1>5. ASSUME NEW p \in Pages, NEW v \in Pages, ReadFaultEvict(p, v)
      PROVE  TlbUnique'
  BY <1>5, EvictFrames, AddKeepsUnique DEF ReadFaultEvict, IsFault, TlbInvalidate
<1>6. CASE UNCHANGED vars  BY <1>1, <1>6 DEF vars
<1> QED  BY <1>2, <1>3, <1>4, <1>5, <1>6 DEF Next

LEMMA InitUnique == Init => TlbUnique
BY DEF Init, TlbInit, TlbUnique, Matches

\* No page ever has two TLB entries.
THEOREM TlbNeverAmbiguous == Spec => []TlbUnique
<1> QED  BY InitType, StepType, InitUnique, StepUnique, PTL DEF Spec

\* With as many frames as pages, a page that is not valid finds a free frame.
LEMMA AlwaysAFreeFrame ==
    ASSUME VmmType, FramesOwned, IsFiniteSet(Pages),
           Cardinality(Pages) <= NumFrames,
           NEW p \in Pages, ~IsValid(pageTable, p)
    PROVE  used < NumFrames
<1>1. SUFFICES ASSUME used = NumFrames PROVE FALSE
  BY FrameAssumption DEF VmmType, MemoryType
<1>2. Resident \in SUBSET (Pages \ {p})  BY DEF Resident
<1>3. /\ IsFiniteSet(Pages \ {p})
      /\ Cardinality(Pages \ {p}) = Cardinality(Pages) - 1
  BY FS_RemoveElement
<1>4. /\ IsFiniteSet(Resident)
      /\ Cardinality(Resident) <= Cardinality(Pages) - 1
  BY <1>2, <1>3, FS_Subset
<1> DEFINE T == {pageTable.frame[q] : q \in Resident}
           place == [q \in Resident |-> pageTable.frame[q]]
<1>5. place \in Surjection(Resident, T)  BY DEF Surjection
<1>6. Cardinality(T) <= Cardinality(Resident)  BY <1>4, <1>5, FS_Surjection
<1>7. T = 0..(NumFrames - 1)  BY <1>1 DEF FramesOwned
<1>8. Cardinality(0..(NumFrames - 1)) = NumFrames
  BY FrameAssumption, FS_Interval
<1>9. Cardinality(T) = NumFrames  BY <1>7, <1>8
<1> HIDE DEF T
<1>10. Cardinality(Pages) \in Nat /\ Cardinality(Resident) \in Nat
  BY <1>4, FS_CardinalityType
<1> QED  BY <1>4, <1>6, <1>9, <1>10, FrameAssumption

\* A fault that finds a free frame keeps the TLB in agreement with the table.
LEMMA FreeCoherent ==
    ASSUME VmmType, TlbCoherent, NEW p \in Pages, ReadFaultFree(p)
    PROVE  TlbCoherent'
<1> USE DEF VmmType
<1>1. /\ used \in Frames
      /\ pageTable'.frame = [pageTable.frame EXCEPT ![p] = used]
  BY FreeFrames
<1>2. \A i \in Indices : tlb'.table[i] = Entry(p, used)
                         \/ tlb'.table[i] = tlb.table[i]
  BY <1>1, TlbAddEntry DEF ReadFaultFree
<1>3. \A i \in Indices : tlb.table[i] # NoEntry => tlb.table[i].page # p
  BY DEF ReadFaultFree, IsFault, TlbHit, Matches
<1>4. \A i \in Indices : tlb.table[i] # NoEntry => tlb.table[i].page \in Pages
  BY DEF TlbType
<1>5. pageTable'.frame[p] = used  BY <1>1 DEF TableType
<1>6. \A q \in Pages \ {p} : pageTable'.frame[q] = pageTable.frame[q]
  BY <1>1 DEF TableType
<1>7. Entry(p, used).page = p /\ Entry(p, used).frame = used  BY DEF Entry
<1> QED  BY <1>2, <1>3, <1>4, <1>5, <1>6, <1>7 DEF TlbCoherent

\* One step of a manager that never evicts keeps the TLB in agreement.
LEMMA StepTlb ==
    ASSUME IsFiniteSet(Pages), Cardinality(Pages) <= NumFrames,
           VmmType, FramesOwned, TlbCoherent, [Next]_vars
    PROVE  TlbCoherent'
<1> USE DEF VmmType
<1>1. ASSUME tlb' = tlb, pageTable'.frame = pageTable.frame PROVE TlbCoherent'
  BY <1>1 DEF TlbCoherent
<1>2. ASSUME NEW p \in Pages, ReadTlbHit(p) \/ ReadSeekFails(p)
      PROVE  TlbCoherent'
  BY <1>1, <1>2 DEF ReadTlbHit, ReadSeekFails, TableLookup
<1>3. ASSUME NEW p \in Pages, ReadPageHit(p) PROVE TlbCoherent'
  <2>1. pageTable.frame[p] \in Frames  BY <1>3, ValidFrame DEF ReadPageHit
  <2>2. \A i \in Indices : tlb'.table[i] = Entry(p, pageTable.frame[p])
                           \/ tlb'.table[i] = tlb.table[i]
    BY <1>3, <2>1, TlbAddEntry DEF ReadPageHit
  <2>3. pageTable'.frame = pageTable.frame  BY <1>3 DEF ReadPageHit, TableLookup
  <2> QED  BY <2>2, <2>3 DEF TlbCoherent, Entry
<1>4. ASSUME NEW p \in Pages, ReadFaultFree(p) PROVE TlbCoherent'
  BY <1>4, FreeCoherent
<1>5. ASSUME NEW p \in Pages, NEW v \in Pages, ReadFaultEvict(p, v) PROVE FALSE
  BY <1>5, AlwaysAFreeFrame, FrameAssumption DEF ReadFaultEvict, IsFault
<1>6. CASE UNCHANGED vars  BY <1>1, <1>6 DEF vars
<1> QED  BY <1>2, <1>3, <1>4, <1>5, <1>6 DEF Next

\* The byte a successful read delivers, when table and TLB are right.
LEMMA StepReads ==
    ASSUME VmmType, TlbUnique, TlbCoherent, TableCoherent, ReadsBackingStore,
           "read" \notin DiskFaults, [Next]_vars
    PROVE  ReadsBackingStore'
<1> USE DEF VmmType
<1>1. ASSUME NEW p \in Pages, ReadTlbHit(p) PROVE ReadsBackingStore'
  <2>1. PICK i \in Matches(tlb, p) : TRUE  BY <1>1 DEF ReadTlbHit, TlbHit
  <2>2. i \in Int  BY <2>1, TlbAssumption DEF Matches
  <2>3. \A j \in Matches(tlb, p) : i = j  BY <2>1 DEF TlbUnique
  <2>4. TlbFrame(tlb, p) = tlb.table[i].frame
    <3>1. i \in Matches(tlb, p)  BY <2>1
    <3>2. Matches(tlb, p) = {i}  BY <2>3, <3>1
    <3>3. (CHOOSE k \in {i} : \A j \in {i} : k <= j) = i  BY <2>2
    <3> QED  BY <3>2, <3>3 DEF TlbFrame
  <2>5. tlb.table[i].frame \in Frames /\ pageTable.frame[p] = tlb.table[i].frame
    BY <2>1 DEF Matches, TlbCoherent, TlbType
  <2>6. p \in Resident
    BY <2>5, FrameAssumption DEF Resident, IsValid
  <2> QED
    BY <1>1, <2>4, <2>5, <2>6
    DEF ReadTlbHit, Deliver, TableCoherent, ReadsBackingStore
<1>2. ASSUME NEW p \in Pages, ReadPageHit(p) PROVE ReadsBackingStore'
  BY <1>2 DEF ReadPageHit, Deliver, TableCoherent, Resident, ReadsBackingStore
<1>3. ASSUME NEW p \in Pages, ReadSeekFails(p) PROVE ReadsBackingStore'
  BY <1>3 DEF ReadSeekFails, ReadsBackingStore
<1>4. ASSUME NEW p \in Pages, ReadFaultFree(p) PROVE ReadsBackingStore'
  BY <1>4, FreeFrames
  DEF ReadFaultFree, Deliver, GetPage, ReadsBackingStore, MemoryType
<1>5. ASSUME NEW p \in Pages, NEW v \in Pages, ReadFaultEvict(p, v)
      PROVE  ReadsBackingStore'
  BY <1>5, EvictFrames
  DEF ReadFaultEvict, Deliver, GetPage, ReadsBackingStore, MemoryType
<1>6. CASE UNCHANGED vars  BY <1>6 DEF vars, ReadsBackingStore
<1> QED  BY <1>1, <1>2, <1>3, <1>4, <1>5, <1>6 DEF Next

\* With at least as many frames as pages no TLB entry is ever stale.
THEOREM TlbCoherentWithEnoughFrames ==
    ASSUME IsFiniteSet(Pages), Cardinality(Pages) <= NumFrames
    PROVE  Spec => []TlbCoherent
<1>1. Init => TlbCoherent  BY DEF Init, TlbInit, TlbCoherent
<1>2. VmmType /\ FramesOwned /\ TlbCoherent /\ [Next]_vars => TlbCoherent'
  BY StepTlb
<1> QED
  BY <1>1, <1>2, InitType, StepType, InitOwned, StepOwned, PTL DEF Spec

\* With at least as many frames as pages, and a backing store that can be read,
\* every read that succeeds returns what the backing store holds there.
THEOREM ReadsRightWithEnoughFrames ==
    ASSUME IsFiniteSet(Pages), Cardinality(Pages) <= NumFrames,
           "read" \notin DiskFaults
    PROVE  Spec => []ReadsBackingStore
<1>1. Init => ReadsBackingStore  BY DEF Init, ReadsBackingStore
<1>2. VmmType /\ TlbUnique /\ TlbCoherent /\ TableCoherent
        /\ ReadsBackingStore /\ [Next]_vars => ReadsBackingStore'
  BY StepReads
<1>3. Spec => []TlbCoherent  BY TlbCoherentWithEnoughFrames
<1>4. Spec => []TableCoherent  BY TableNeverLies
<1> QED
  BY <1>1, <1>2, <1>3, <1>4, InitType, StepType, InitUnique, StepUnique, PTL
  DEF Spec

-----------------------------------------------------------------------------
(* The order of the pages.                                                 *)

Distinct(order) == \A i, j \in DOMAIN order : order[i] = order[j] => i = j
RangeOf(order) == {order[i] : i \in DOMAIN order}

\* The page that gets the next number moves behind all others, which keep their order.
LEMMA NumberedOrder ==
    ASSUME NEW o \in Seq(Pages), Distinct(o), NEW p \in Pages
    PROVE  /\ Numbered(o, p) \in Seq(Pages) /\ Distinct(Numbered(o, p))
           /\ RangeOf(Numbered(o, p)) = RangeOf(o) \cup {p}
           /\ \A q, r \in Pages \ {p} :
                 Precedes(Numbered(o, p), q, r) <=> Precedes(o, q, r)
           /\ \A q \in Pages : ~Precedes(Numbered(o, p), p, q)
           /\ \A q \in RangeOf(o) \ {p} : Precedes(Numbered(o, p), q, p)
<1> SUFFICES ASSUME NEW n, n = Numbered(o, p)
             PROVE  /\ n \in Seq(Pages) /\ Distinct(n)
                    /\ RangeOf(n) = RangeOf(o) \cup {p}
                    /\ \A q, r \in Pages \ {p} : Precedes(n, q, r) <=> Precedes(o, q, r)
                    /\ \A q \in Pages : ~Precedes(n, p, q)
                    /\ \A q \in RangeOf(o) \ {p} : Precedes(n, q, p)
  OBVIOUS
<1> DEFINE L == Len(o)
<1>1. L \in Nat /\ DOMAIN o = 1..L /\ \A i \in 1..L : o[i] \in Pages
  BY LenProperties, ElementOfSeq
<1> HIDE DEF L
<1>2. CASE p \in RangeOf(o)
  <2>1. PICK k \in 1..L : o[k] = p  BY <1>1, <1>2 DEF RangeOf
  <2>2. (CHOOSE i \in DOMAIN o : o[i] = p) = k
    BY <1>1, <2>1 DEF Distinct
  <2>3. n = [i \in 1..L |-> IF i < k THEN o[i] ELSE IF i < L THEN o[i + 1] ELSE p]
    BY <1>1, <2>1, <2>2 DEF Numbered, L
  <2>4. n \in [1..L -> Pages] /\ DOMAIN n = 1..L
    <3>1. \A i \in 1..L : i < L => i + 1 \in 1..L  BY <1>1
    <3> QED  BY <1>1, <2>3, <3>1
  <2>5. n \in Seq(Pages)  BY <1>1, <2>4, IsASeq
  \* Where the page at place i of n is in o, and the other way round.
  <2> DEFINE old == [i \in 1..L |-> IF i < k THEN i ELSE IF i < L THEN i + 1 ELSE k]
             new == [i \in 1..L |-> IF i < k THEN i ELSE IF i = k THEN L ELSE i - 1]
  <2>6. /\ \A i \in 1..L : old[i] \in 1..L /\ new[i] \in 1..L
        /\ \A i \in 1..L : new[old[i]] = i /\ old[new[i]] = i
    BY <1>1, <2>1
  <2>7. \A i \in 1..L : n[i] = o[old[i]]
    <3> SUFFICES ASSUME NEW i \in 1..L PROVE n[i] = o[old[i]]  OBVIOUS
    <3>1. CASE i < k  BY <2>3, <3>1
    <3>2. CASE ~(i < k) /\ i < L  BY <2>3, <3>2
    <3>3. CASE ~(i < k) /\ ~(i < L)  BY <2>1, <2>3, <3>3
    <3> QED  BY <3>1, <3>2, <3>3
  <2>8. /\ \A i, j \in 1..L : i # k /\ j # k => (i < j <=> new[i] < new[j])
        /\ new[k] = L /\ \A i \in 1..L : i # k => new[i] < L
        /\ \A i \in 1..L : old[i] = k <=> i = L
    BY <1>1, <2>1
  <2> HIDE DEF old, new
  <2>9. \A i \in 1..L : o[i] = n[new[i]]  BY <2>6, <2>7
  <2>10. Distinct(n)
    BY <1>1, <2>4, <2>6, <2>7 DEF Distinct
  <2>11. RangeOf(n) = RangeOf(o) \cup {p}
    <3>1. RangeOf(n) = RangeOf(o)  BY <1>1, <2>4, <2>6, <2>7, <2>9 DEF RangeOf
    <3> QED  BY <1>2, <3>1
  <2>12. \A i \in 1..L : (o[i] = p <=> i = k) /\ (n[i] = p <=> i = L)
    <3>1. \A i \in 1..L : o[i] = p <=> i = k  BY <1>1, <2>1 DEF Distinct
    <3> QED  BY <2>6, <2>7, <2>8, <3>1
  <2>13. ASSUME NEW q \in Pages \ {p}, NEW r \in Pages \ {p}
         PROVE  Precedes(n, q, r) <=> Precedes(o, q, r)
    <3>1. ASSUME NEW i \in 1..L, NEW j \in 1..L, i < j, n[i] = q, n[j] = r
          PROVE  Precedes(o, q, r)
      <4>1. old[i] \in 1..L /\ old[j] \in 1..L /\ o[old[i]] = q /\ o[old[j]] = r
        BY <2>6, <2>7, <3>1
      <4>2. old[i] # k /\ old[j] # k  BY <2>12, <4>1
      <4>3. old[i] < old[j]  BY <2>6, <2>8, <3>1, <4>1, <4>2
      <4> QED  BY <1>1, <4>1, <4>3 DEF Precedes
    <3>2. ASSUME NEW i \in 1..L, NEW j \in 1..L, i < j, o[i] = q, o[j] = r
          PROVE  Precedes(n, q, r)
      <4>1. i # k /\ j # k  BY <2>12, <3>2
      <4>2. new[i] \in 1..L /\ new[j] \in 1..L /\ new[i] < new[j]
        BY <2>6, <2>8, <3>2, <4>1
      <4> QED  BY <2>4, <2>9, <3>2, <4>2 DEF Precedes
    <3> QED  BY <1>1, <2>4, <3>1, <3>2 DEF Precedes
  <2>14. \A q \in Pages : ~Precedes(n, p, q)
    BY <1>1, <2>4, <2>12 DEF Precedes
  <2>15. ASSUME NEW q \in RangeOf(o) \ {p} PROVE Precedes(n, q, p)
    <3>1. PICK i \in 1..L : o[i] = q  BY <1>1 DEF RangeOf
    <3>2. i # k /\ new[i] \in 1..L /\ new[i] < L /\ n[new[i]] = q
      BY <2>6, <2>8, <2>9, <2>12, <3>1
    <3>3. L \in 1..L /\ n[L] = p  BY <1>1, <2>1, <2>12
    <3> QED  BY <2>4, <3>2, <3>3 DEF Precedes
  <2> QED  BY <2>5, <2>10, <2>11, <2>13, <2>14, <2>15
<1>3. CASE p \notin RangeOf(o)
  <2>1. n = Append(o, p)  BY <1>3 DEF Numbered, RangeOf
  <2>2. n \in Seq(Pages) /\ Len(n) = L + 1  BY <2>1, AppendProperties DEF L
  <2>3. /\ DOMAIN n = 1..(L + 1) /\ n[L + 1] = p
        /\ \A i \in 1..L : n[i] = o[i] /\ o[i] # p
    BY <1>1, <1>3, <2>1, <2>2, LenProperties, AppendProperties DEF RangeOf, L
  <2>4. /\ L + 1 \in 1..(L + 1) /\ \A i \in 1..(L + 1) : i \in 1..L \/ i = L + 1
        /\ \A i \in 1..L : i \in 1..(L + 1) /\ i < L + 1
    BY <1>1
  <2>5. \A i \in 1..(L + 1) : n[i] = p <=> i = L + 1  BY <2>3, <2>4
  <2>6. Distinct(n)  BY <1>1, <2>3, <2>4, <2>5 DEF Distinct
  <2>7. RangeOf(n) = RangeOf(o) \cup {p}  BY <1>1, <2>3, <2>4 DEF RangeOf
  <2>8. ASSUME NEW q \in Pages \ {p}, NEW r \in Pages \ {p}
        PROVE  Precedes(n, q, r) <=> Precedes(o, q, r)
    BY <1>1, <2>3, <2>4, <2>5 DEF Precedes
  <2>9. \A q \in Pages : ~Precedes(n, p, q)
    BY <1>1, <2>3, <2>4, <2>5 DEF Precedes
  <2>10. ASSUME NEW q \in RangeOf(o) \ {p} PROVE Precedes(n, q, p)
    BY <1>1, <2>3, <2>4 DEF Precedes, RangeOf
  <2> QED  BY <2>2, <2>6, <2>7, <2>8, <2>9, <2>10
<1> QED  BY <1>2, <1>3

OrderInv == pageTable.order \in Seq(Pages) /\ Distinct(pageTable.order)

LEMMA InitOrder == Init => OrderInv
BY EmptySeq DEF Init, TableInit, OrderInv, Distinct

\* What a read does to the order: the page read moves to the end, behind the victim
\* if there is one.
LEMMA LookupOrder ==
    ASSUME OrderInv, NEW p \in Pages, NEW looked, looked = TableLookup(pageTable, p)
    PROVE  /\ looked.order \in Seq(Pages) /\ Distinct(looked.order)
           /\ \A q, r \in Pages \ {p} :
                 Precedes(looked.order, q, r) <=> Precedes(pageTable.order, q, r)
           /\ Strategy = "lru" => \A r \in Pages : ~Precedes(looked.order, p, r)
<1>1. CASE Strategy = "lru"
  <2>1. PICK o \in Seq(Pages) : o = pageTable.order /\ Distinct(o)  BY DEF OrderInv
  <2>2. PICK n : n = looked.order  OBVIOUS
  <2>3. n = Numbered(o, p)  BY <1>1, <2>1, <2>2 DEF TableLookup
  <2>4. /\ n \in Seq(Pages) /\ Distinct(n)
        /\ \A q, r \in Pages \ {p} : Precedes(n, q, r) <=> Precedes(o, q, r)
        /\ \A q \in Pages : ~Precedes(n, p, q)
    BY <2>1, <2>3, NumberedOrder
  <2> QED  BY <2>1, <2>2, <2>4
<1>2. CASE Strategy # "lru"
  BY <1>2 DEF TableLookup, OrderInv
<1> QED  BY <1>1, <1>2

LEMMA StepOrder == OrderInv /\ [Next]_vars => OrderInv'
<1> SUFFICES ASSUME OrderInv, [Next]_vars PROVE OrderInv'  OBVIOUS
<1>1. ASSUME NEW p \in Pages, pageTable' = TableLookup(pageTable, p) PROVE OrderInv'
  BY <1>1, LookupOrder DEF OrderInv
<1>2. ASSUME NEW p \in Pages, ReadTlbHit(p) \/ ReadPageHit(p) \/ ReadSeekFails(p)
      PROVE  OrderInv'
  BY <1>1, <1>2 DEF ReadTlbHit, ReadPageHit, ReadSeekFails
<1>3. ASSUME NEW p \in Pages, ReadFaultFree(p) PROVE OrderInv'
  <2>1. PICK looked : looked = TableLookup(pageTable, p)  OBVIOUS
  <2>2. pageTable'.order = Numbered(looked.order, p)
    BY <1>3, <2>1 DEF ReadFaultFree, TableUpdate
  <2>3. looked.order \in Seq(Pages) /\ Distinct(looked.order)  BY <2>1, LookupOrder
  <2>4. /\ Numbered(looked.order, p) \in Seq(Pages)
        /\ Distinct(Numbered(looked.order, p))
    BY <2>3, NumberedOrder
  <2> QED  BY <2>2, <2>4 DEF OrderInv
<1>4. ASSUME NEW p \in Pages, NEW v \in Pages, ReadFaultEvict(p, v) PROVE OrderInv'
  <2>1. PICK looked : looked = TableLookup(pageTable, p)  OBVIOUS
  <2>2. PICK moved : moved = Numbered(looked.order, v)  OBVIOUS
  <2>3. pageTable'.order = Numbered(moved, p)
    BY <1>4, <2>1, <2>2 DEF ReadFaultEvict, TableUpdate
  <2>4. looked.order \in Seq(Pages) /\ Distinct(looked.order)  BY <2>1, LookupOrder
  <2>5. moved \in Seq(Pages) /\ Distinct(moved)  BY <2>2, <2>4, NumberedOrder
  <2>6. Numbered(moved, p) \in Seq(Pages) /\ Distinct(Numbered(moved, p))
    BY <2>5, NumberedOrder
  <2> QED  BY <2>3, <2>6 DEF OrderInv
<1>5. CASE UNCHANGED vars  BY <1>5 DEF vars, OrderInv
<1> QED  BY <1>2, <1>3, <1>4, <1>5 DEF Next

-----------------------------------------------------------------------------
(* Least recently used pages and the TLB.                                  *)

\* The number of entries added after the one at index i.
Age(i) == IF i <= tlb.robin THEN tlb.robin - i ELSE tlb.robin - i + TlbSize

\* The pages that have an entry, and the valid ones read after q.
Cached == {tlb.table[i].page : i \in {j \in Indices : tlb.table[j] # NoEntry}}
Later(q) == {r \in Resident : Precedes(pageTable.order, q, r)}

\* A page whose translation is not in the TLB and that was read after q pushed another
\* entry out when it came in, after the entry of q.
RecencyInv ==
    \A i \in Indices : tlb.table[i] # NoEntry =>
        Cardinality(Later(tlb.table[i].page) \ Cached) <= Age(i)

\* The round robin overwrites the oldest entry.
LEMMA AddAges ==
    ASSUME TlbType, NEW p \in Pages, NEW f \in Frames, tlb' = TlbAdd(tlb, p, f)
    PROVE  \E victim \in Indices :
              /\ \A i \in Indices :
                    tlb'.table[i] = IF i = victim THEN Entry(p, f) ELSE tlb.table[i]
              /\ \A i \in Indices \ {victim} : Age(i)' = Age(i) + 1 /\ Age(i) < TlbSize - 1
              /\ Age(victim) = TlbSize - 1 /\ Age(victim)' = 0
              /\ \A i \in Indices : Age(i) \in 0..(TlbSize - 1)
<1> DEFINE victim == (tlb.robin + 1) % TlbSize
<1>1. tlb.robin \in -1..(TlbSize - 1) /\ TlbSize \in Nat \ {0}
  BY TlbAssumption DEF TlbType
<1>2. victim = IF tlb.robin + 1 = TlbSize THEN 0 ELSE tlb.robin + 1
  BY <1>1
<1>3. tlb'.table = [tlb.table EXCEPT ![victim] = Entry(p, f)] /\ tlb'.robin = victim
  BY DEF TlbAdd
<1> HIDE DEF victim
<1>4. victim \in Indices  BY <1>1, <1>2
<1>5. \A i \in Indices :
          tlb'.table[i] = IF i = victim THEN Entry(p, f) ELSE tlb.table[i]
  BY <1>3, <1>4 DEF TlbType
<1>6. /\ \A i \in Indices \ {victim} : Age(i)' = Age(i) + 1 /\ Age(i) < TlbSize - 1
      /\ \A i \in Indices : Age(i) \in 0..(TlbSize - 1)
  BY <1>1, <1>2, <1>3 DEF Age
<1>7. PICK v \in Indices : v = victim  BY <1>4
<1>8. Age(v) = TlbSize - 1 /\ Age(v)' = 0
  BY <1>1, <1>2, <1>3, <1>7 DEF Age
<1> QED  BY <1>5, <1>6, <1>7, <1>8

\* There are as many valid pages as frames in use.
LEMMA ResidentCount ==
    ASSUME VmmType, FramesOwned
    PROVE  IsFiniteSet(Resident) /\ Cardinality(Resident) = used
<1> DEFINE place == [q \in Resident |-> pageTable.frame[q]]
           T == 0..(used - 1)
<1>1. used \in Nat  BY FrameAssumption DEF VmmType, MemoryType
<1>2. IsFiniteSet(T) /\ Cardinality(T) = used  BY <1>1, FS_Interval
<1>3. {pageTable.frame[q] : q \in Resident} = T  BY DEF FramesOwned
<1> HIDE DEF T
<1>4. place \in Injection(Resident, T)
  <2>1. place \in [Resident -> T]  BY <1>3
  <2>2. \A q, r \in Resident : place[q] = place[r] => q = r  BY DEF FramesOwned
  <2> QED  BY <2>1, <2>2 DEF Injection, IsInjective
<1>5. place \in Surjection(Resident, T)  BY <1>3 DEF Surjection
<1> QED  BY <1>2, <1>4, <1>5, FS_Injection

\* What is left to cache of the pages read later, when one more has been added.
LEMMA AddRecency ==
    ASSUME TlbType, RecencyInv, IsFiniteSet(Resident), NEW p \in Pages, NEW f \in Frames,
           tlb' = TlbAdd(tlb, p, f), Later(p)' = {},
           \A i \in Indices : tlb'.table[i] # NoEntry /\ tlb'.table[i].page # p =>
              \A q \in Pages : q = tlb.table[i].page => Later(q)' \subseteq Later(q) \cup {p}
    PROVE  RecencyInv'
<1>1. PICK victim \in Indices :
          /\ \A i \in Indices :
                tlb'.table[i] = IF i = victim THEN Entry(p, f) ELSE tlb.table[i]
          /\ \A i \in Indices \ {victim} : Age(i)' = Age(i) + 1
          /\ Age(victim)' = 0
          /\ \A i \in Indices : Age(i) \in 0..(TlbSize - 1)
  BY AddAges
<1>2. Entry(p, f) # NoEntry /\ Entry(p, f).page = p
  BY FrameAssumption DEF Entry
<1>3. p \in Cached'  BY <1>1, <1>2 DEF Cached
<1>4. PICK r : \A q \in Cached : q # r => q \in Cached'
  <2>1. \A q \in Cached : q # tlb.table[victim].page => q \in Cached'
    BY <1>1 DEF Cached
  <2> QED  BY <2>1
<1> SUFFICES ASSUME NEW i \in Indices, tlb'.table[i] # NoEntry, NEW q \in Pages,
                    q = tlb'.table[i].page
             PROVE  Cardinality(Later(q)' \ Cached') <= Age(i)'
  <2>1. \A i \in Indices : tlb'.table[i] # NoEntry => tlb'.table[i].page \in Pages
    BY <1>1, <1>2 DEF TlbType
  <2> QED  BY <2>1 DEF RecencyInv, Later
<1>5. CASE q = p
  <2>1. Later(q)' = {}  BY <1>5 DEF Later
  <2>2. Cardinality(Later(q)' \ Cached') = 0  BY <2>1, FS_EmptySet
  <2>3. Age(i)' >= 0
    <3>1. CASE i = victim  BY <1>1, <3>1 DEF Age
    <3>2. CASE i # victim
      <4>1. Age(i)' = Age(i) + 1 /\ Age(i) \in 0..(TlbSize - 1)  BY <1>1, <3>2
      <4> QED  BY <4>1, TlbAssumption
    <3> QED  BY <3>1, <3>2
  <2> QED  BY <2>2, <2>3
<1>6. CASE q # p
  <2>1. i # victim /\ tlb'.table[i] = tlb.table[i]  BY <1>1, <1>2, <1>6
  <2>2. Later(q)' \subseteq Later(q) \cup {p}  BY <1>6, <2>1
  <2> DEFINE D == Later(q) \ Cached
  <2>3. Later(q)' \ Cached' \in SUBSET (D \cup {r})  BY <1>3, <1>4, <2>2
  <2>4. D \in SUBSET Resident  BY DEF Later
  <2>5. Cardinality(D) <= Age(i)  BY <2>1 DEF RecencyInv
  <2> HIDE DEF D
  <2>6. IsFiniteSet(D) /\ Cardinality(D) \in Nat  BY <2>4, FS_Subset, FS_CardinalityType
  <2>7. /\ IsFiniteSet(D \cup {r})
        /\ Cardinality(D \cup {r}) = IF r \in D THEN Cardinality(D) ELSE Cardinality(D) + 1
    BY <2>6, FS_AddElement
  <2>8. /\ Cardinality(Later(q)' \ Cached') <= Cardinality(D \cup {r})
        /\ Cardinality(Later(q)' \ Cached') \in Nat
    BY <2>3, <2>7, FS_Subset, FS_CardinalityType
  <2>9. Age(i)' = Age(i) + 1 /\ Age(i) \in 0..(TlbSize - 1)  BY <1>1, <2>1
  <2> QED  BY <2>5, <2>6, <2>7, <2>8, <2>9, TlbAssumption
<1> QED  BY <1>5, <1>6

\* A read the TLB serves, or that fails, leaves nothing new to cache.
LEMMA KeepRecency ==
    ASSUME TlbType, RecencyInv, IsFiniteSet(Resident), tlb' = tlb,
           \A q \in Pages : Later(q)' \subseteq Later(q) \cup Cached
    PROVE  RecencyInv'
<1> SUFFICES ASSUME NEW i \in Indices, tlb.table[i] # NoEntry, NEW q \in Pages,
                    q = tlb.table[i].page
             PROVE  Cardinality(Later(q)' \ Cached) <= Age(i)
  BY DEF RecencyInv, Later, TlbType, Cached, Age
<1> DEFINE D == Later(q) \ Cached
<1>1. Later(q)' \ Cached \in SUBSET D  OBVIOUS
<1>2. D \in SUBSET Resident  BY DEF Later
<1>3. Cardinality(D) <= Age(i)  BY DEF RecencyInv
<1>4. Age(i) \in Int  BY TlbAssumption DEF TlbType, Age
<1> HIDE DEF D
<1>5. IsFiniteSet(D) /\ Cardinality(D) \in Nat  BY <1>2, FS_Subset, FS_CardinalityType
<1>6. /\ Cardinality(Later(q)' \ Cached) <= Cardinality(D)
      /\ Cardinality(Later(q)' \ Cached) \in Nat
  BY <1>1, <1>5, FS_Subset, FS_CardinalityType
<1> QED  BY <1>3, <1>4, <1>5, <1>6

\* The victim of LRU was read before all other pages in memory.  These are as many as
\* can have been cached, or pushed out, since the victim's entry was added only if
\* that entry is the next one to be overwritten.
LEMMA VictimIsOldest ==
    ASSUME Strategy = "lru", NumFrames >= 2 * TlbSize - 1,
           VmmType, FramesOwned, OrderInv, RecencyInv,
           NEW p \in Pages, NEW v \in Pages, ReadFaultEvict(p, v),
           NEW i \in Indices, tlb.table[i] # NoEntry, tlb.table[i].page = v,
           Age(i) \in 0..(TlbSize - 1)
    PROVE  Age(i) = TlbSize - 1
<1>1. PICK looked : looked = TableLookup(pageTable, p)  OBVIOUS
<1>2. /\ used = NumFrames /\ IsVictim(looked, v) /\ ~IsValid(pageTable, p)
      /\ looked.frame = pageTable.frame
  BY <1>1 DEF ReadFaultEvict, IsFault, TableLookup
<1>3. v \in Resident  BY <1>2 DEF IsVictim, IsValid, Resident
<1>4. \A q \in Resident \ {v} : Precedes(looked.order, v, q)
  <2>1. PICK oldest \in Pages :
           /\ IsValid(looked, oldest) /\ looked.frame[v] = looked.frame[oldest]
           /\ \A q \in Pages \ {oldest} :
                 IsValid(looked, q) => Precedes(looked.order, oldest, q)
    BY <1>2 DEF IsVictim
  <2>2. oldest \in Resident  BY <1>2, <2>1 DEF IsValid, Resident
  <2>3. oldest = v  BY <1>2, <1>3, <2>1, <2>2 DEF FramesOwned
  <2> QED  BY <1>2, <2>1, <2>3 DEF IsValid, Resident
<1>5. \A q \in Resident \ {v} : Precedes(pageTable.order, v, q)
  <2>1. v # p /\ \A q \in Resident : q # p /\ q \in Pages
    BY <1>2, <1>3 DEF Resident
  <2> QED  BY <1>1, <1>4, <2>1, LookupOrder
<1> DEFINE D == Later(v) \ Cached
           C == Cached \ {v}
<1>6. Resident \ {v} \in SUBSET (D \cup C)  BY <1>5 DEF Later
<1>7. Cardinality(D) <= Age(i)  BY DEF RecencyInv
<1>8. D \in SUBSET Resident  BY DEF Later
<1>9. IsFiniteSet(C) /\ Cardinality(C) <= TlbSize - 1
  <2> DEFINE J == {j \in Indices : tlb.table[j] # NoEntry /\ tlb.table[j].page # v}
             at == [j \in J |-> tlb.table[j].page]
  <2>1. at \in Surjection(J, C)  BY DEF Surjection, Cached
  <2>2. J \in SUBSET (Indices \ {i})  OBVIOUS
  <2>3. IsFiniteSet(Indices) /\ Cardinality(Indices) = TlbSize
    BY TlbAssumption, FS_Interval
  <2>4. IsFiniteSet(Indices \ {i}) /\ Cardinality(Indices \ {i}) = TlbSize - 1
    BY <2>3, FS_RemoveElement
  <2> HIDE DEF J, C
  <2>5. IsFiniteSet(J) /\ Cardinality(J) <= TlbSize - 1  BY <2>2, <2>4, FS_Subset
  <2>6. IsFiniteSet(C) /\ Cardinality(C) <= Cardinality(J)
    BY <2>1, <2>5, FS_Surjection
  <2> QED
    BY <2>5, <2>6, FS_CardinalityType, TlbAssumption
<1>10. IsFiniteSet(Resident) /\ Cardinality(Resident) = NumFrames
  BY <1>2, ResidentCount
<1> HIDE DEF D, C
<1>11. Cardinality(Resident \ {v}) = NumFrames - 1  BY <1>3, <1>10, FS_RemoveElement
<1>12. IsFiniteSet(D) /\ Cardinality(D) \in Nat
  BY <1>8, <1>10, FS_Subset, FS_CardinalityType
<1>13. /\ IsFiniteSet(D \cup C)
       /\ Cardinality(D \cup C) <= Cardinality(D) + Cardinality(C)
       /\ Cardinality(C) \in Nat /\ Cardinality(D \cup C) \in Nat
  <2>1. IsFiniteSet(D \cap C)  BY <1>12, FS_Intersection
  <2>2. Cardinality(D \cap C) \in Nat  BY <2>1, FS_CardinalityType
  <2>3. /\ IsFiniteSet(D \cup C)
        /\ Cardinality(D \cup C) = Cardinality(D) + Cardinality(C) - Cardinality(D \cap C)
    BY <1>9, <1>12, FS_Union
  <2> QED  BY <1>9, <1>12, <2>2, <2>3, FS_CardinalityType
<1>14. NumFrames - 1 <= Cardinality(D \cup C)  BY <1>6, <1>11, <1>13, FS_Subset
<1> QED
  BY <1>7, <1>9, <1>12, <1>13, <1>14, FrameAssumption, TlbAssumption

LEMMA InitRecency == Init => RecencyInv
BY DEF Init, TlbInit, RecencyInv

\* Who is valid and read later, after each kind of read.
LEMMA LookupLater ==
    ASSUME Strategy = "lru", OrderInv, NEW p \in Pages,
           pageTable' = TableLookup(pageTable, p)
    PROVE  /\ Resident' = Resident /\ Later(p)' = {}
           /\ \A q \in Pages : Later(q)' \subseteq Later(q) \cup ({p} \cap Resident)
<1>1. pageTable'.frame = pageTable.frame  BY DEF TableLookup
<1>2. Resident' = Resident  BY <1>1 DEF Resident, IsValid
<1>3. /\ \A q, r \in Pages \ {p} :
            Precedes(pageTable'.order, q, r) => Precedes(pageTable.order, q, r)
      /\ \A r \in Pages : ~Precedes(pageTable'.order, p, r)
  <2>1. PICK looked : looked = TableLookup(pageTable, p)  OBVIOUS
  <2> QED  BY <2>1, LookupOrder
<1> QED  BY <1>2, <1>3 DEF Later, Resident

LEMMA FreeLater ==
    ASSUME Strategy = "lru", VmmType, OrderInv, NEW p \in Pages, ReadFaultFree(p)
    PROVE  /\ Later(p)' = {}
           /\ \A q \in Pages : Later(q)' \subseteq Later(q) \cup {p}
<1>1. PICK looked : looked = TableLookup(pageTable, p)  OBVIOUS
<1>2. pageTable'.order = Numbered(looked.order, p)
  BY <1>1 DEF ReadFaultFree, TableUpdate
<1>3. /\ looked.order \in Seq(Pages) /\ Distinct(looked.order)
      /\ \A q, r \in Pages \ {p} :
            Precedes(looked.order, q, r) => Precedes(pageTable.order, q, r)
  BY <1>1, LookupOrder
<1>4. /\ \A q, r \in Pages \ {p} :
            Precedes(pageTable'.order, q, r) => Precedes(pageTable.order, q, r)
      /\ \A r \in Pages : ~Precedes(pageTable'.order, p, r)
  BY <1>2, <1>3, NumberedOrder
<1>5. Resident' \ {p} \subseteq Resident
  BY FreeFrames DEF VmmType, Resident, IsValid, TableType
<1> QED  BY <1>4, <1>5 DEF Later, Resident

LEMMA EvictLater ==
    ASSUME Strategy = "lru", VmmType, OrderInv, NEW p \in Pages, NEW v \in Pages,
           ReadFaultEvict(p, v)
    PROVE  /\ Later(p)' = {}
           /\ \A q \in Pages \ {v} : Later(q)' \subseteq Later(q) \cup {p}
<1>1. PICK looked : looked = TableLookup(pageTable, p)  OBVIOUS
<1>2. PICK moved : moved = Numbered(looked.order, v)  OBVIOUS
<1>3. pageTable'.order = Numbered(moved, p)
  BY <1>1, <1>2 DEF ReadFaultEvict, TableUpdate
<1>4. /\ looked.order \in Seq(Pages) /\ Distinct(looked.order)
      /\ \A q, r \in Pages \ {p} :
            Precedes(looked.order, q, r) => Precedes(pageTable.order, q, r)
  BY <1>1, LookupOrder
<1>5. /\ moved \in Seq(Pages) /\ Distinct(moved)
      /\ \A q, r \in Pages \ {v} : Precedes(moved, q, r) => Precedes(looked.order, q, r)
  BY <1>2, <1>4, NumberedOrder
<1>6. /\ \A q, r \in Pages \ {p} : Precedes(pageTable'.order, q, r) => Precedes(moved, q, r)
      /\ \A r \in Pages : ~Precedes(pageTable'.order, p, r)
  <2>1. /\ \A q, r \in Pages \ {p} : Precedes(Numbered(moved, p), q, r) => Precedes(moved, q, r)
        /\ \A r \in Pages : ~Precedes(Numbered(moved, p), p, r)
    BY <1>5, NumberedOrder
  <2> QED  BY <1>3, <2>1
<1>7. Resident' \ {p} \subseteq Resident /\ v \notin Resident'
  <2>1. /\ p # v
        /\ pageTable'.frame = [pageTable.frame EXCEPT
                                 ![v] = NoFrame, ![p] = pageTable.frame[v]]
    BY EvictFrames DEF VmmType
  <2>2. pageTable'.frame[v] = NoFrame
        /\ \A q \in Pages \ {p, v} : pageTable'.frame[q] = pageTable.frame[q]
    BY <2>1 DEF VmmType, TableType
  <2> QED  BY <2>2 DEF Resident, IsValid
<1> QED  BY <1>4, <1>5, <1>6, <1>7 DEF Later, Resident

\* The victim has no entry when its frame is somebody else's.
LEMMA VictimNotCached ==
    ASSUME Strategy = "lru", NumFrames >= 2 * TlbSize - 1,
           VmmType, FramesOwned, OrderInv, RecencyInv,
           NEW p \in Pages, NEW v \in Pages, ReadFaultEvict(p, v)
    PROVE  \A i \in Indices : tlb'.table[i] # NoEntry => tlb'.table[i].page # v
<1>1. /\ pageTable.frame[v] \in Frames /\ p # v
      /\ tlb' = TlbAdd(tlb, p, pageTable.frame[v]) /\ TlbType
  BY EvictFrames DEF ReadFaultEvict, TlbInvalidate, VmmType
<1>2. PICK victim \in Indices :
          /\ \A i \in Indices :
                tlb'.table[i] = IF i = victim THEN Entry(p, pageTable.frame[v])
                                              ELSE tlb.table[i]
          /\ \A i \in Indices \ {victim} : Age(i) < TlbSize - 1
          /\ \A i \in Indices : Age(i) \in 0..(TlbSize - 1)
  BY <1>1, AddAges
<1> SUFFICES ASSUME NEW i \in Indices, tlb'.table[i] # NoEntry, tlb'.table[i].page = v
             PROVE  FALSE
  OBVIOUS
<1>3. i # victim  BY <1>1, <1>2 DEF Entry
<1>4. tlb.table[i] # NoEntry /\ tlb.table[i].page = v  BY <1>2, <1>3
<1>5. Age(i) = TlbSize - 1  BY <1>2, <1>4, VictimIsOldest
<1> QED  BY <1>2, <1>3, <1>5, TlbAssumption

LruInv == VmmType /\ FramesOwned /\ OrderInv /\ RecencyInv /\ TlbCoherent

LEMMA StepRecency ==
    ASSUME Strategy = "lru", NumFrames >= 2 * TlbSize - 1, LruInv, [Next]_vars
    PROVE  RecencyInv' /\ TlbCoherent'
<1> USE DEF VmmType, LruInv
<1>0. IsFiniteSet(Resident)  BY ResidentCount
<1>1. ASSUME NEW p \in Pages, ReadTlbHit(p) PROVE RecencyInv' /\ TlbCoherent'
  <2>1. tlb' = tlb /\ pageTable' = TableLookup(pageTable, p)  BY <1>1 DEF ReadTlbHit
  <2>2. p \in Cached  BY <1>1 DEF ReadTlbHit, TlbHit, Matches, Cached
  <2>3. RecencyInv'  BY <1>0, <2>1, <2>2, LookupLater, KeepRecency
  <2> QED  BY <2>1, <2>3 DEF TlbCoherent, TableLookup
<1>2. ASSUME NEW p \in Pages, ReadPageHit(p) PROVE RecencyInv' /\ TlbCoherent'
  <2>1. /\ tlb' = TlbAdd(tlb, p, pageTable.frame[p]) /\ pageTable.frame[p] \in Frames
        /\ pageTable' = TableLookup(pageTable, p)
    BY <1>2, ValidFrame DEF ReadPageHit
  <2>2. RecencyInv'  BY <1>0, <2>1, LookupLater, AddRecency
  <2>3. \A i \in Indices : tlb'.table[i] = Entry(p, pageTable.frame[p])
                           \/ tlb'.table[i] = tlb.table[i]
    BY <2>1, TlbAddEntry
  <2> QED  BY <2>1, <2>2, <2>3 DEF TlbCoherent, Entry, TableLookup
<1>3. ASSUME NEW p \in Pages, ReadSeekFails(p) PROVE RecencyInv' /\ TlbCoherent'
  <2>1. /\ tlb' = tlb /\ pageTable' = TableLookup(pageTable, p) /\ p \notin Resident
    BY <1>3 DEF ReadSeekFails, IsFault, Resident
  <2>2. RecencyInv'  BY <1>0, <2>1, LookupLater, KeepRecency
  <2> QED  BY <2>1, <2>2 DEF TlbCoherent, TableLookup
<1>4. ASSUME NEW p \in Pages, ReadFaultFree(p) PROVE RecencyInv' /\ TlbCoherent'
  <2>1. used \in Frames /\ tlb' = TlbAdd(tlb, p, used)
    BY <1>4, FreeFrames DEF ReadFaultFree
  <2>2. RecencyInv'  BY <1>0, <1>4, <2>1, FreeLater, AddRecency
  <2> QED  BY <1>4, <2>2, FreeCoherent
<1>5. ASSUME NEW p \in Pages, NEW v \in Pages, ReadFaultEvict(p, v)
      PROVE  RecencyInv' /\ TlbCoherent'
  <2>1. /\ pageTable.frame[v] \in Frames /\ p # v
        /\ tlb' = TlbAdd(tlb, p, pageTable.frame[v])
        /\ pageTable'.frame = [pageTable.frame EXCEPT
                                 ![v] = NoFrame, ![p] = pageTable.frame[v]]
    BY <1>5, EvictFrames DEF ReadFaultEvict, TlbInvalidate
  <2>2. \A i \in Indices : tlb'.table[i] # NoEntry => tlb'.table[i].page # v
    BY <1>5, VictimNotCached
  <2>3. \A i \in Indices : tlb'.table[i] = Entry(p, pageTable.frame[v])
                           \/ tlb'.table[i] = tlb.table[i]
    BY <2>1, TlbAddEntry
  <2>4. RecencyInv'
    <3>1. ASSUME NEW i \in Indices, tlb'.table[i] # NoEntry, tlb'.table[i].page # p,
                 NEW q \in Pages, q = tlb.table[i].page
          PROVE  Later(q)' \subseteq Later(q) \cup {p}
      <4>1. tlb'.table[i] = tlb.table[i]  BY <2>3, <3>1 DEF Entry
      <4>2. q # v  BY <2>2, <3>1, <4>1
      <4> QED  BY <1>5, <4>2, EvictLater
    <3>2. Later(p)' = {}  BY <1>5, EvictLater
    <3> QED  BY <1>0, <2>1, <3>1, <3>2, AddRecency
  <2>5. TlbCoherent'
    <3> SUFFICES ASSUME NEW i \in Indices, tlb'.table[i] # NoEntry
                 PROVE  pageTable'.frame[tlb'.table[i].page] = tlb'.table[i].frame
      BY DEF TlbCoherent
    <3>1. CASE tlb'.table[i] = Entry(p, pageTable.frame[v])
      BY <2>1, <3>1 DEF Entry, TableType
    <3>2. CASE tlb'.table[i] = tlb.table[i]
      <4>1. tlb.table[i].page \in Pages /\ tlb.table[i].page # v
        BY <2>2, <3>2 DEF TlbType
      <4>2. tlb.table[i].page # p
        BY <1>5, <3>2 DEF ReadFaultEvict, IsFault, TlbHit, Matches
      <4>3. pageTable'.frame[tlb.table[i].page] = pageTable.frame[tlb.table[i].page]
        BY <2>1, <4>1, <4>2 DEF TableType
      <4> QED  BY <3>2, <4>3 DEF TlbCoherent
    <3> QED  BY <2>3, <3>1, <3>2
  <2> QED  BY <2>4, <2>5
<1>6. CASE UNCHANGED vars
  BY <1>6 DEF vars, RecencyInv, TlbCoherent, Later, Cached, Age, Resident
<1> QED  BY <1>1, <1>2, <1>3, <1>4, <1>5, <1>6 DEF Next

\* Pages leave the TLB before they leave memory: under LRU, with 2 * TlbSize - 1 frames,
\* no entry is ever stale, however many pages there are.
THEOREM TlbCoherentUnderLru ==
    ASSUME Strategy = "lru", NumFrames >= 2 * TlbSize - 1
    PROVE  Spec => []TlbCoherent
<1>1. Init => TlbCoherent  BY DEF Init, TlbInit, TlbCoherent
<1>2. VmmType /\ FramesOwned /\ OrderInv /\ RecencyInv /\ TlbCoherent /\ [Next]_vars
        => RecencyInv' /\ TlbCoherent'
  BY StepRecency DEF LruInv
<1> QED
  BY <1>1, <1>2, InitType, StepType, InitOwned, StepOwned, InitOrder, StepOrder,
     InitRecency, PTL
  DEF Spec

\* Under LRU, with 2 * TlbSize - 1 frames and a backing store that can be read, every
\* read that succeeds returns what the backing store holds there.
THEOREM ReadsRightUnderLru ==
    ASSUME Strategy = "lru", NumFrames >= 2 * TlbSize - 1, "read" \notin DiskFaults
    PROVE  Spec => []ReadsBackingStore
<1>1. Init => ReadsBackingStore  BY DEF Init, ReadsBackingStore
<1>2. VmmType /\ TlbUnique /\ TlbCoherent /\ TableCoherent
        /\ ReadsBackingStore /\ [Next]_vars => ReadsBackingStore'
  BY StepReads
<1>3. Spec => []TlbCoherent  BY TlbCoherentUnderLru
<1>4. Spec => []TableCoherent  BY TableNeverLies
<1> QED
  BY <1>1, <1>2, <1>3, <1>4, InitType, StepType, InitUnique, StepUnique, PTL
  DEF Spec

-----------------------------------------------------------------------------
(* The manager is a demand paging memory: the pages in memory, the next    *)
(* victim first, are the valid pages in the order of their numbers.        *)

\* s is the pages of R in the order of o.
Enumerates(s, R, o) ==
    /\ s \in Seq(Pages) /\ RangeOf(s) = R /\ R \subseteq RangeOf(o)
    /\ \A i, j \in DOMAIN s : i < j => Precedes(o, s[i], s[j])

LEMMA PrecedesStrict ==
    ASSUME NEW o \in Seq(Pages), Distinct(o), NEW p, NEW q, Precedes(o, p, q)
    PROVE  p # q /\ ~Precedes(o, q, p)
<1>1. DOMAIN o = 1..Len(o) /\ Len(o) \in Nat  BY LenProperties
<1> QED  BY <1>1 DEF Precedes, Distinct

\* There is only one enumeration of the valid pages.
LEMMA OneEnumeration ==
    ASSUME NEW table, NEW o \in Seq(Pages), o = table.order, Distinct(o),
           NEW s, Enumerates(s, {p \in Pages : IsValid(table, p)}, o)
    PROVE  ValidInOrder(table) = s
<1> DEFINE n == Len(s)
           V == ValidPlaces(table)
           place == [k \in 1..n |-> CHOOSE i \in DOMAIN o : o[i] = s[k]]
<1>1. /\ n \in Nat /\ DOMAIN s = 1..n /\ s = [k \in 1..n |-> s[k]]
      /\ \A k \in 1..n : s[k] \in Pages
  BY LenProperties, ElementOfSeq DEF Enumerates
<1>2. Len(o) \in Nat /\ DOMAIN o = 1..Len(o) /\ \A i \in 1..Len(o) : o[i] \in Pages
  BY LenProperties, ElementOfSeq
<1>3. \A k \in 1..n : \E i \in DOMAIN o : o[i] = s[k]
  BY <1>1 DEF Enumerates, RangeOf
<1>4. \A k \in 1..n : place[k] \in DOMAIN o /\ o[place[k]] = s[k]
  BY <1>3
<1> HIDE DEF place, V, n
<1>5. \A k \in 1..n : IsValid(table, s[k])
  BY <1>1 DEF Enumerates, RangeOf
<1>6. \A k \in 1..n : place[k] \in V
  BY <1>4, <1>5 DEF V, ValidPlaces
<1>7. \A i \in V : i \in Int /\ i \in DOMAIN o /\ IsValid(table, o[i])
  BY <1>2 DEF V, ValidPlaces
<1>8. \A i \in V : \E k \in 1..n : place[k] = i
  <2> SUFFICES ASSUME NEW i \in V PROVE \E k \in 1..n : place[k] = i  OBVIOUS
  <2>1. o[i] \in {p \in Pages : IsValid(table, p)}  BY <1>2, <1>7
  <2>2. PICK k \in 1..n : s[k] = o[i]  BY <1>1, <2>1 DEF Enumerates, RangeOf
  <2> QED  BY <1>4, <1>7, <2>2 DEF Distinct
<1>9. \A j, k \in 1..n : j < k => place[j] < place[k]
  <2> SUFFICES ASSUME NEW j \in 1..n, NEW k \in 1..n, j < k PROVE place[j] < place[k]
    OBVIOUS
  <2>1. PICK a \in DOMAIN o, b \in DOMAIN o : a < b /\ o[a] = s[j] /\ o[b] = s[k]
    BY <1>1 DEF Enumerates, Precedes
  <2>2. a = place[j] /\ b = place[k]  BY <1>4, <2>1 DEF Distinct
  <2> QED  BY <2>1, <2>2
<1>10. \A j, k \in 1..n : place[j] < place[k] => j < k
  <2> SUFFICES ASSUME NEW j \in 1..n, NEW k \in 1..n, place[j] < place[k], k <= j
               PROVE  FALSE
    BY <1>1
  <2>1. k = j \/ k < j  BY <1>1
  <2>2. place[k] = place[j] \/ place[k] < place[j]  BY <1>9, <2>1
  <2> QED  BY <1>6, <1>7, <2>2
<1>11. \A j, k \in 1..n : place[j] = place[k] => j = k
  <2> SUFFICES ASSUME NEW j \in 1..n, NEW k \in 1..n, place[j] = place[k], j # k
               PROVE  FALSE
    OBVIOUS
  <2>1. j < k \/ k < j  BY <1>1
  <2>2. place[j] < place[k] \/ place[k] < place[j]  BY <1>9, <2>1
  <2> QED  BY <1>6, <1>7, <2>2
\* As many valid places as pages, and k - 1 of them before the k-th.
<1>12. ASSUME NEW m \in 0..n, NEW W, W \subseteq V, \A k \in 1..n : place[k] \in W <=> k <= m
       PROVE  Cardinality(W) = m
  <2> DEFINE f == [k \in 1..m |-> place[k]]
  <2>1. m \in Nat /\ \A k \in 1..m : k \in 1..n /\ k <= m  BY <1>1
  <2>2. f \in [1..m -> W]  BY <1>12, <2>1
  <2>3. \A j, k \in 1..m : f[j] = f[k] => j = k  BY <1>11, <2>1
  <2>4. \A i \in W : \E k \in 1..m : f[k] = i
    <3> SUFFICES ASSUME NEW i \in W PROVE \E k \in 1..m : f[k] = i  OBVIOUS
    <3>1. PICK k \in 1..n : place[k] = i  BY <1>8, <1>12
    <3>2. k <= m  BY <1>12, <3>1
    <3>3. k \in 1..m  BY <2>1, <3>2, <1>1
    <3> QED  BY <3>1, <3>3
  <2> HIDE DEF f
  <2>5. f \in Bijection(1..m, W)
    BY <2>2, <2>3, <2>4 DEF Bijection, Injection, Surjection, IsInjective
  <2>6. ExistsBijection(1..m, W)  BY <2>5 DEF ExistsBijection
  <2> QED  BY <2>1, <2>6, FS_CountingElements
<1>13. Cardinality(V) = n
  <2>1. n \in 0..n /\ \A k \in 1..n : place[k] \in V <=> k <= n  BY <1>1, <1>6
  <2> QED  BY <1>12, <2>1
<1>14. ASSUME NEW k \in 1..n
       PROVE  Cardinality({j \in V : j < place[k]}) = k - 1
  <2>1. k - 1 \in 0..n  BY <1>1
  <2>2. \A j \in 1..n : place[j] < place[k] <=> j < k  BY <1>9, <1>10
  <2>3. \A j \in 1..n : j < k <=> j <= k - 1  BY <1>1
  <2>4. \A j \in 1..n : place[j] \in {i \in V : i < place[k]} <=> j <= k - 1
    BY <1>6, <2>2, <2>3
  <2> QED  BY <1>12, <2>1, <2>4
<1>15. ASSUME NEW k \in 1..n
       PROVE  (CHOOSE i \in V : Cardinality({j \in V : j < i}) = k - 1) = place[k]
  <2>1. ASSUME NEW i \in V, Cardinality({j \in V : j < i}) = k - 1 PROVE i = place[k]
    <3>1. PICK l \in 1..n : place[l] = i  BY <1>8
    <3>2. l - 1 = k - 1  BY <1>14, <2>1, <3>1
    <3> QED  BY <1>1, <3>1, <3>2
  <2>2. place[k] \in V /\ Cardinality({j \in V : j < place[k]}) = k - 1
    BY <1>6, <1>14
  <2> DEFINE good(i) == Cardinality({j \in V : j < i}) = k - 1
  <2>3. good(place[k]) /\ \A i \in V : good(i) => i = place[k]  BY <2>1, <2>2
  <2> HIDE DEF good
  <2>4. (CHOOSE i \in V : good(i)) = place[k]  BY <2>2, <2>3
  <2> QED  BY <2>4 DEF good
<1>16. ValidInOrder(table) =
          [k \in 1..n |-> o[CHOOSE i \in V : Cardinality({j \in V : j < i}) = k - 1]]
  BY <1>13 DEF ValidInOrder, V
<1>17. ValidInOrder(table) = [k \in 1..n |-> s[k]]
  BY <1>4, <1>15, <1>16
<1> QED  BY <1>1, <1>17

\* Numbering a page that is not enumerated changes nothing.
LEMMA NumberedKeeps ==
    ASSUME NEW o \in Seq(Pages), Distinct(o), NEW p \in Pages,
           NEW s, NEW R \in SUBSET Pages, Enumerates(s, R, o), p \notin R
    PROVE  Enumerates(s, R, Numbered(o, p))
<1>1. \A i \in DOMAIN s : s[i] \in Pages \ {p}  BY DEF Enumerates, RangeOf
<1>2. /\ RangeOf(Numbered(o, p)) = RangeOf(o) \cup {p}
      /\ \A q, r \in Pages \ {p} :
            Precedes(Numbered(o, p), q, r) <=> Precedes(o, q, r)
  BY NumberedOrder
<1> QED  BY <1>1, <1>2 DEF Enumerates

\* A page that is numbered joins at the end.
LEMMA NumberedJoins ==
    ASSUME NEW o \in Seq(Pages), Distinct(o), NEW p \in Pages,
           NEW s, NEW R \in SUBSET Pages, Enumerates(s, R, o), p \notin R
    PROVE  Enumerates(Append(s, p), R \cup {p}, Numbered(o, p))
<1> DEFINE t == Append(s, p)
           L == Len(s)
<1>1. Enumerates(s, R, Numbered(o, p))  BY NumberedKeeps
<1>2. /\ RangeOf(Numbered(o, p)) = RangeOf(o) \cup {p}
      /\ \A q \in RangeOf(o) \ {p} : Precedes(Numbered(o, p), q, p)
  BY NumberedOrder
<1>3. L \in Nat /\ DOMAIN s = 1..L /\ s \in Seq(Pages)
  BY LenProperties DEF Enumerates
<1>4. t \in Seq(Pages) /\ Len(t) = L + 1  BY <1>3, AppendProperties
<1>5. /\ DOMAIN t = 1..(L + 1) /\ t[L + 1] = p /\ \A i \in 1..L : t[i] = s[i]
  BY <1>3, <1>4, LenProperties, AppendProperties
<1> HIDE DEF t, L
<1>6. /\ L + 1 \in 1..(L + 1) /\ \A i \in 1..(L + 1) : i \in 1..L \/ i = L + 1
      /\ \A i \in 1..L : i \in 1..(L + 1) /\ i < L + 1
  BY <1>3
<1>7. RangeOf(t) = R \cup {p}
  <2>1. RangeOf(t) = RangeOf(s) \cup {p}  BY <1>3, <1>5, <1>6 DEF RangeOf
  <2> QED  BY <2>1 DEF Enumerates
<1>8. ASSUME NEW i \in 1..(L + 1), NEW j \in 1..(L + 1), i < j
      PROVE  Precedes(Numbered(o, p), t[i], t[j])
  <2>1. i \in 1..L  BY <1>3, <1>8
  <2>2. CASE j \in 1..L
    BY <1>1, <1>3, <1>5, <1>8, <2>1, <2>2 DEF Enumerates
  <2>3. CASE j = L + 1
    <3>1. t[i] \in RangeOf(o) \ {p}
      BY <1>3, <1>5, <2>1 DEF Enumerates, RangeOf
    <3> QED  BY <1>2, <1>5, <2>3, <3>1
  <2> QED  BY <1>6, <2>2, <2>3
<1> QED  BY <1>2, <1>4, <1>5, <1>7, <1>8 DEF Enumerates, t

\* A page that is left out leaves the others in order.
LEMMA OthersStay ==
    ASSUME NEW o \in Seq(Pages), Distinct(o), NEW s, NEW R, Enumerates(s, R, o),
           NEW i \in DOMAIN s, NEW t \in Seq(Pages), Len(t) = Len(s) - 1,
           \A j \in 1..(Len(s) - 1) : t[j] = IF j < i THEN s[j] ELSE s[j + 1]
    PROVE  Enumerates(t, R \ {s[i]}, o)
<1> DEFINE L == Len(s)
           from == [j \in 1..(L - 1) |-> IF j < i THEN j ELSE j + 1]
<1>1. L \in Nat /\ DOMAIN s = 1..L /\ s \in Seq(Pages) /\ DOMAIN t = 1..(L - 1)
  BY LenProperties DEF Enumerates
<1> HIDE DEF L
<1>2. /\ \A j \in 1..(L - 1) : from[j] \in 1..L /\ from[j] # i
      /\ \A j, k \in 1..(L - 1) : j < k => from[j] < from[k]
      /\ \A k \in 1..L : k # i => \E j \in 1..(L - 1) : from[j] = k
  <2>1. \A k \in 1..L : k < i => k \in 1..(L - 1)  BY <1>1
  <2>2. \A k \in 1..L : k > i => k - 1 \in 1..(L - 1) /\ ~(k - 1 < i) /\ (k - 1) + 1 = k
    BY <1>1
  <2>3. \A k \in 1..L : k # i => k < i \/ k > i  BY <1>1
  <2>4. \A k \in 1..L : k < i => from[k] = k  BY <2>1
  <2>5. \A k \in 1..L : k > i => from[k - 1] = k  BY <2>2
  <2>6. \A k \in 1..L : k # i => \E j \in 1..(L - 1) : from[j] = k
    BY <2>1, <2>2, <2>3, <2>4, <2>5
  <2>7. /\ \A j \in 1..(L - 1) : from[j] \in 1..L /\ from[j] # i
        /\ \A j, k \in 1..(L - 1) : j < k => from[j] < from[k]
    BY <1>1
  <2> QED  BY <2>6, <2>7
<1>3. \A j \in 1..(L - 1) : t[j] = s[from[j]]
  <2> SUFFICES ASSUME NEW j \in 1..(L - 1) PROVE t[j] = s[from[j]]  OBVIOUS
  <2>1. CASE j < i  BY <2>1 DEF L
  <2>2. CASE ~(j < i)  BY <2>2 DEF L
  <2> QED  BY <2>1, <2>2
<1> HIDE DEF from
<1>4. \A j, k \in 1..L : s[j] = s[k] => j = k
  <2> SUFFICES ASSUME NEW j \in 1..L, NEW k \in 1..L, s[j] = s[k], j < k PROVE FALSE
    BY <1>1
  <2>1. Precedes(o, s[j], s[k])  BY <1>1 DEF Enumerates
  <2> QED  BY <2>1, PrecedesStrict
<1>5. RangeOf(t) = R \ {s[i]}
  <2>1. RangeOf(s) = R  BY DEF Enumerates
  <2>2. ASSUME NEW j \in 1..(L - 1) PROVE t[j] \in R /\ t[j] # s[i]
    <3>1. PICK k \in 1..L : k = from[j] /\ k # i  BY <1>2
    <3>2. t[j] = s[k]  BY <1>3, <3>1
    <3>3. s[k] \in R  BY <1>1, <2>1 DEF RangeOf
    <3>4. s[k] # s[i]  BY <1>1, <1>4, <3>1
    <3> QED  BY <3>2, <3>3, <3>4
  <2>3. ASSUME NEW q \in R, q # s[i] PROVE \E j \in 1..(L - 1) : t[j] = q
    <3>1. PICK k \in 1..L : s[k] = q  BY <1>1, <2>1 DEF RangeOf
    <3>2. PICK j \in 1..(L - 1) : from[j] = k  BY <1>2, <2>3, <3>1
    <3> QED  BY <1>3, <3>1, <3>2
  <2>4. RangeOf(t) = {t[j] : j \in 1..(L - 1)}  BY <1>1 DEF RangeOf
  <2> QED  BY <2>2, <2>3, <2>4
<1>6. ASSUME NEW j \in 1..(L - 1), NEW k \in 1..(L - 1), j < k
      PROVE  Precedes(o, t[j], t[k])
  <2>1. PICK a \in 1..L, b \in 1..L : a = from[j] /\ b = from[k] /\ a < b
    BY <1>2, <1>6
  <2>2. Precedes(o, s[a], s[b])  BY <1>1, <2>1 DEF Enumerates
  <2> QED  BY <1>3, <2>1, <2>2
<1> QED  BY <1>1, <1>5, <1>6 DEF Enumerates

\* What RemoveAt leaves.
LEMMA RemovedElements ==
    ASSUME NEW s \in Seq(Pages), NEW i \in DOMAIN s
    PROVE  /\ Paging!RemoveAt(s, i) \in Seq(Pages)
           /\ Len(Paging!RemoveAt(s, i)) = Len(s) - 1
           /\ \A j \in 1..(Len(s) - 1) :
                 Paging!RemoveAt(s, i)[j] = IF j < i THEN s[j] ELSE s[j + 1]
<1> DEFINE L == Len(s)
           a == SubSeq(s, 1, i - 1)
           b == SubSeq(s, i + 1, L)
<1>1. L \in Nat /\ DOMAIN s = 1..L /\ i \in 1..L /\ \A k \in 1..L : s[k] \in Pages
  BY LenProperties, ElementOfSeq
<1>2. /\ a \in Seq(Pages) /\ Len(a) = i - 1
      /\ \A j \in 1..(i - 1) : a[j] = s[j]
  <2>1. \A k \in 1..(i - 1) : s[k] \in Pages  BY <1>1
  <2>2. /\ a \in Seq(Pages) /\ Len(a) = IF 1 <= i - 1 THEN i - 1 - 1 + 1 ELSE 0
        /\ \A j \in 1..(i - 1 - 1 + 1) : a[j] = s[1 + j - 1]
    BY <1>1, <2>1, SubSeqProperties
  <2> HIDE DEF a
  <2>3. i - 1 - 1 + 1 = i - 1 /\ \A j \in 1..(i - 1) : 1 + j - 1 = j  BY <1>1
  <2> QED  BY <1>1, <2>2, <2>3
<1>3. /\ b \in Seq(Pages) /\ Len(b) = L - i
      /\ \A j \in 1..(L - i) : b[j] = s[i + j]
  <2>1. \A k \in (i + 1)..L : s[k] \in Pages  BY <1>1
  <2>2. /\ b \in Seq(Pages) /\ Len(b) = IF i + 1 <= L THEN L - (i + 1) + 1 ELSE 0
        /\ \A j \in 1..(L - (i + 1) + 1) : b[j] = s[i + 1 + j - 1]
    BY <1>1, <2>1, SubSeqProperties
  <2> HIDE DEF b
  <2>3. L - (i + 1) + 1 = L - i /\ \A j \in 1..(L - i) : i + 1 + j - 1 = i + j
    BY <1>1
  <2> QED  BY <1>1, <2>2, <2>3
<1>4. Paging!RemoveAt(s, i) = a \o b  BY DEF Paging!RemoveAt
<1> HIDE DEF a, b, L
<1>5. /\ a \o b \in Seq(Pages) /\ Len(a \o b) = i - 1 + (L - i)
      /\ \A j \in 1..(i - 1 + (L - i)) :
            (a \o b)[j] = IF j <= i - 1 THEN a[j] ELSE b[j - (i - 1)]
  <2>1. /\ a \o b \in Seq(Pages) /\ Len(a \o b) = Len(a) + Len(b)
        /\ \A j \in 1..(Len(a) + Len(b)) :
              (a \o b)[j] = IF j <= Len(a) THEN a[j] ELSE b[j - Len(a)]
    <3>1. a \in Seq(Pages) /\ b \in Seq(Pages)  BY <1>2, <1>3
    <3> QED  BY ONLY <3>1, ConcatProperties
  <2> QED  BY <1>2, <1>3, <2>1
<1>6. i - 1 + (L - i) = L - 1  BY <1>1
<1>7. ASSUME NEW j \in 1..(L - 1)
      PROVE  (a \o b)[j] = IF j < i THEN s[j] ELSE s[j + 1]
  <2>1. CASE j < i
    <3>1. j <= i - 1 /\ j \in 1..(i - 1)  BY <1>1, <2>1
    <3> QED  BY <1>2, <1>5, <1>6, <2>1, <3>1
  <2>2. CASE ~(j < i)
    <3>1. ~(j <= i - 1) /\ j - (i - 1) \in 1..(L - i) /\ i + (j - (i - 1)) = j + 1
      BY <1>1, <2>2
    <3>2. (a \o b)[j] = b[j - (i - 1)]  BY <1>5, <1>6, <3>1
    <3>3. b[j - (i - 1)] = s[i + (j - (i - 1))]  BY <1>3, <3>1
    <3> QED  BY <2>2, <3>1, <3>2, <3>3
  <2> QED  BY <2>1, <2>2
<1> QED  BY <1>4, <1>5, <1>6, <1>7 DEF L

\* What a sequence is without its first element.
LEMMA TailElements ==
    ASSUME NEW s \in Seq(Pages), s # <<>>
    PROVE  /\ 1 \in DOMAIN s /\ Tail(s) \in Seq(Pages) /\ Len(Tail(s)) = Len(s) - 1
           /\ \A j \in 1..(Len(s) - 1) : Tail(s)[j] = IF j < 1 THEN s[j] ELSE s[j + 1]
<1>1. Len(s) \in Nat /\ DOMAIN s = 1..Len(s) /\ Len(s) # 0
  BY LenProperties, EmptySeq
<1>2. /\ Tail(s) \in Seq(Pages) /\ Len(Tail(s)) = Len(s) - 1
      /\ \A j \in 1..Len(Tail(s)) : Tail(s)[j] = s[j + 1]
  BY HeadTailProperties
<1> QED  BY <1>1, <1>2

InOrder == Enumerates(ValidInOrder(pageTable), Resident, pageTable.order)

\* Whatever enumerates the valid pages after a step is what the refinement maps to.
LEMMA NextInOrder ==
    ASSUME OrderInv', NEW t, Enumerates(t, Resident', pageTable'.order)
    PROVE  ValidInOrder(pageTable)' = t /\ InOrder'
<1>1. PICK table : table = pageTable'  OBVIOUS
<1>2. Resident' = {p \in Pages : IsValid(table, p)}  BY <1>1 DEF Resident, IsValid
<1>3. PICK o \in Seq(Pages) : o = table.order /\ Distinct(o)  BY <1>1 DEF OrderInv
<1>4. Enumerates(t, {p \in Pages : IsValid(table, p)}, o)  BY <1>1, <1>2, <1>3
<1>5. ValidInOrder(table) = t  BY <1>3, <1>4, OneEnumeration
<1>6. ValidInOrder(pageTable)' = t  BY <1>1, <1>5
<1> QED  BY <1>6 DEF InOrder

\* The lookup of a page that is not valid leaves the valid ones in order.
LEMMA LookupKeeps ==
    ASSUME OrderInv, NEW p \in Pages, NEW looked, looked = TableLookup(pageTable, p),
           NEW s, NEW R \in SUBSET Pages, p \notin R, Enumerates(s, R, pageTable.order)
    PROVE  Enumerates(s, R, looked.order)
<1>1. PICK o \in Seq(Pages) : o = pageTable.order /\ Distinct(o)  BY DEF OrderInv
<1>2. looked.order = Numbered(o, p) \/ looked.order = o  BY <1>1 DEF TableLookup
<1> QED  BY <1>1, <1>2, NumberedKeeps

\* A read of a valid page is a hit of the memory.
LEMMA HitStep ==
    ASSUME OrderInv, OrderInv', InOrder, NEW p \in Resident,
           pageTable' = TableLookup(pageTable, p),
           page' = p, status' = "success", byte' = p, kind' # "pagefault"
    PROVE  InOrder' /\ Paging!Hit(p)
<1>1. PICK o \in Seq(Pages) : o = pageTable.order /\ Distinct(o)  BY DEF OrderInv
<1>2. PICK s : s = ValidInOrder(pageTable)  OBVIOUS
<1>3. PICK R \in SUBSET Pages : R = Resident  BY DEF Resident
<1>4. Enumerates(s, R, o)  BY <1>1, <1>2, <1>3 DEF InOrder
<1>5. PICK i \in DOMAIN s : s[i] = p  BY <1>3, <1>4 DEF Enumerates, RangeOf
<1>6. Resident' = R  BY <1>3 DEF Resident, IsValid, TableLookup
<1> DEFINE t == IF Strategy = "lru" THEN Append(Paging!RemoveAt(s, i), p) ELSE s
<1>7. Enumerates(t, R, pageTable'.order)
  <2>1. CASE Strategy = "lru"
    <3>1. PICK rest : rest = Paging!RemoveAt(s, i)  OBVIOUS
    <3>2. Enumerates(rest, R \ {p}, o)
      <4>1. s \in Seq(Pages)  BY <1>4 DEF Enumerates
      <4>2. /\ rest \in Seq(Pages) /\ Len(rest) = Len(s) - 1
            /\ \A j \in 1..(Len(s) - 1) : rest[j] = IF j < i THEN s[j] ELSE s[j + 1]
        BY <3>1, <4>1, RemovedElements
      <4> QED  BY <1>1, <1>4, <1>5, <4>2, OthersStay
    <3>3. p \in Pages /\ R \ {p} \in SUBSET Pages /\ (R \ {p}) \cup {p} = R
      BY <1>3
    <3>4. Enumerates(Append(rest, p), (R \ {p}) \cup {p}, Numbered(o, p))
      BY <1>1, <3>2, <3>3, NumberedJoins
    <3>5. pageTable'.order = Numbered(o, p)  BY <1>1, <2>1 DEF TableLookup
    <3> QED  BY <2>1, <3>1, <3>3, <3>4, <3>5
  <2>2. CASE Strategy # "lru"
    BY <1>1, <1>4, <2>2 DEF TableLookup
  <2> QED  BY <2>1, <2>2
<1> HIDE DEF t
<1>8. ValidInOrder(pageTable)' = t /\ InOrder'  BY <1>6, <1>7, NextInOrder
<1> QED  BY <1>2, <1>5, <1>8 DEF Paging!Hit, t

\* A read whose page is not valid and cannot be fetched fails.
LEMMA FailStep ==
    ASSUME OrderInv, OrderInv', InOrder, NEW p \in Pages, ReadSeekFails(p)
    PROVE  InOrder' /\ Paging!Fail(p)
<1>1. PICK s : s = ValidInOrder(pageTable)  OBVIOUS
<1>2. PICK R \in SUBSET Pages : R = Resident  BY DEF Resident
<1>3. Enumerates(s, R, pageTable.order)  BY <1>1, <1>2 DEF InOrder
<1>4. p \notin R /\ pageTable' = TableLookup(pageTable, p)
  BY <1>2 DEF ReadSeekFails, IsFault, Resident
<1>5. Resident' = R  BY <1>2, <1>4 DEF Resident, IsValid, TableLookup
<1>6. PICK looked : looked = TableLookup(pageTable, p)  OBVIOUS
<1>7. Enumerates(s, Resident', pageTable'.order)
  BY <1>3, <1>4, <1>5, <1>6, LookupKeeps
<1>8. ValidInOrder(pageTable)' = s /\ InOrder'  BY <1>7, NextInOrder
<1>9. p \notin Paging!ToSet(s)  BY <1>3, <1>4 DEF Enumerates, RangeOf, Paging!ToSet
<1> QED  BY <1>1, <1>8, <1>9 DEF Paging!Fail, ReadSeekFails

\* How many pages the memory holds.
LEMMA InOrderLength ==
    ASSUME VmmType, FramesOwned, InOrder, OrderInv
    PROVE  Len(ValidInOrder(pageTable)) = used
<1>1. PICK s : s = ValidInOrder(pageTable)  OBVIOUS
<1>2. s \in Seq(Pages) /\ RangeOf(s) = Resident  BY <1>1 DEF InOrder, Enumerates
<1>3. Len(s) \in Nat /\ DOMAIN s = 1..Len(s)  BY <1>2, LenProperties
<1>4. PICK o \in Seq(Pages) : o = pageTable.order /\ Distinct(o)  BY DEF OrderInv
<1>5. ASSUME NEW j \in 1..Len(s), NEW k \in 1..Len(s), s[j] = s[k], j < k PROVE FALSE
  <2>1. Precedes(o, s[j], s[k])
    BY <1>1, <1>3, <1>4, <1>5 DEF InOrder, Enumerates
  <2> QED  BY <1>4, <1>5, <2>1, PrecedesStrict
<1>6. \A j, k \in 1..Len(s) : s[j] = s[k] => j = k
  <2> SUFFICES ASSUME NEW j \in 1..Len(s), NEW k \in 1..Len(s), s[j] = s[k], j # k
               PROVE  FALSE
    OBVIOUS
  <2>1. j < k \/ k < j  BY <1>3
  <2> QED  BY <1>5, <2>1
<1>7. s \in [1..Len(s) -> Resident]
  <2>1. s = [k \in 1..Len(s) |-> s[k]]  BY <1>2, <1>3
  <2>2. \A k \in 1..Len(s) : s[k] \in Resident  BY <1>2, <1>3 DEF RangeOf
  <2> QED  BY <2>1, <2>2
<1>8. s \in Bijection(1..Len(s), Resident)
  <2>1. \A q \in Resident : \E k \in 1..Len(s) : s[k] = q  BY <1>2, <1>3 DEF RangeOf
  <2> QED  BY <1>6, <1>7, <2>1 DEF Bijection, Injection, Surjection, IsInjective
<1>9. Cardinality(Resident) = Len(s)
  BY <1>3, <1>8, FS_CountingElements DEF ExistsBijection
<1> QED  BY <1>1, <1>9, ResidentCount

\* A fault that finds a free frame is one of a memory that is not full.
LEMMA FaultFreeStep ==
    ASSUME VmmType, FramesOwned, OrderInv, OrderInv', InOrder, ReadsBackingStore',
           NEW p \in Pages, ReadFaultFree(p)
    PROVE  InOrder' /\ Paging!Fault(p)
<1>1. PICK s : s = ValidInOrder(pageTable)  OBVIOUS
<1>2. PICK R \in SUBSET Pages : R = Resident  BY DEF Resident
<1>3. Enumerates(s, R, pageTable.order)  BY <1>1, <1>2 DEF InOrder
<1>4. p \notin R  BY <1>2 DEF ReadFaultFree, IsFault, Resident
<1>5. Resident' = R \cup {p}
  <2>1. used \in Frames /\ pageTable'.frame = [pageTable.frame EXCEPT ![p] = used]
    BY FreeFrames DEF VmmType
  <2> QED
    BY <1>2, <2>1, FrameAssumption DEF Resident, IsValid, VmmType, TableType
<1>6. PICK looked : looked = TableLookup(pageTable, p)  OBVIOUS
<1>7. PICK o \in Seq(Pages) : o = looked.order /\ Distinct(o)
  BY <1>6, LookupOrder
<1>8. pageTable'.order = Numbered(o, p)  BY <1>6, <1>7 DEF ReadFaultFree, TableUpdate
<1>9. Enumerates(s, R, o)  BY <1>3, <1>4, <1>6, <1>7, LookupKeeps
<1>10. Enumerates(Append(s, p), Resident', pageTable'.order)
  BY <1>4, <1>5, <1>7, <1>8, <1>9, NumberedJoins
<1>11. ValidInOrder(pageTable)' = Append(s, p) /\ InOrder'  BY <1>10, NextInOrder
<1>12. p \notin Paging!ToSet(s)  BY <1>3, <1>4 DEF Enumerates, RangeOf, Paging!ToSet
<1>13. Len(s) < NumFrames  BY <1>1, InOrderLength DEF ReadFaultFree
<1>14. page' = p /\ kind' = "pagefault" /\ status' = "success" /\ byte' = p
  BY DEF ReadFaultFree, Deliver, ReadsBackingStore
<1> QED  BY <1>1, <1>11, <1>12, <1>13, <1>14 DEF Paging!Fault

\* A fault that takes a victim's frame is one of a full memory, and the victim is the
\* page this memory evicts.
LEMMA FaultEvictStep ==
    ASSUME VmmType, FramesOwned, OrderInv, OrderInv', InOrder, ReadsBackingStore',
           NEW p \in Pages, NEW v \in Pages, ReadFaultEvict(p, v)
    PROVE  InOrder' /\ Paging!Fault(p)
<1>1. PICK s : s = ValidInOrder(pageTable)  OBVIOUS
<1>2. PICK R \in SUBSET Pages : R = Resident  BY DEF Resident
<1>3. Enumerates(s, R, pageTable.order) /\ s \in Seq(Pages)
  BY <1>1, <1>2 DEF InOrder, Enumerates
<1>4. p \notin R /\ p # v /\ v \in R
  <2>1. pageTable.frame[v] \in Frames /\ p # v /\ pageTable.frame[p] = NoFrame
    BY EvictFrames DEF VmmType
  <2> QED  BY <1>2, <2>1, FrameAssumption DEF Resident, IsValid
<1>5. Resident' = (R \ {v}) \cup {p}
  <2>1. /\ pageTable.frame[v] \in Frames
        /\ pageTable'.frame = [pageTable.frame EXCEPT
                                 ![v] = NoFrame, ![p] = pageTable.frame[v]]
    BY EvictFrames DEF VmmType
  <2> QED
    BY <1>2, <2>1, FrameAssumption DEF Resident, IsValid, VmmType, TableType
<1>6. PICK looked : looked = TableLookup(pageTable, p)  OBVIOUS
<1>7. PICK o \in Seq(Pages) : o = looked.order /\ Distinct(o)
  BY <1>6, LookupOrder
<1>8. PICK m : m = Numbered(o, v)  OBVIOUS
<1>9. pageTable'.order = Numbered(m, p)
  BY <1>6, <1>7, <1>8 DEF ReadFaultEvict, TableUpdate
<1>10. Enumerates(s, R, o)  BY <1>3, <1>4, <1>6, <1>7, LookupKeeps
<1>11. Len(s) = NumFrames  BY <1>1, InOrderLength DEF ReadFaultEvict
<1>12. Len(s) \in Nat \ {0} /\ s # <<>> /\ DOMAIN s = 1..Len(s) /\ 1 \in DOMAIN s
  <2>1. Len(s) \in Nat \ {0} /\ DOMAIN s = 1..Len(s)
    BY <1>3, <1>11, FrameAssumption, LenProperties
  <2> QED  BY <2>1, EmptySeq
<1>13. \A q \in R \ {v} : Precedes(o, v, q)
  <2>1. PICK oldest \in Pages :
           /\ IsValid(looked, oldest) /\ looked.frame[v] = looked.frame[oldest]
           /\ \A q \in Pages \ {oldest} :
                 IsValid(looked, q) => Precedes(looked.order, oldest, q)
    BY <1>6 DEF ReadFaultEvict, IsVictim
  <2>2. looked.frame = pageTable.frame  BY <1>6 DEF TableLookup
  <2>3. oldest \in Resident  BY <2>1, <2>2 DEF IsValid, Resident
  <2>4. oldest = v  BY <1>2, <1>4, <2>1, <2>2, <2>3 DEF FramesOwned
  <2> QED  BY <1>2, <1>7, <2>1, <2>2, <2>4 DEF IsValid, Resident
<1>14. s[1] = v
  <2> SUFFICES ASSUME s[1] # v PROVE FALSE  OBVIOUS
  <2>1. PICK k \in DOMAIN s : s[k] = v  BY <1>4, <1>10 DEF Enumerates, RangeOf
  <2>2. 1 < k  BY <1>12, <2>1
  <2>3. Precedes(o, s[1], v)  BY <1>10, <1>12, <2>1, <2>2 DEF Enumerates
  <2>4. s[1] \in R  BY <1>10, <1>12 DEF Enumerates, RangeOf
  <2>5. Precedes(o, v, s[1])  BY <1>13, <2>4
  <2> QED  BY <1>7, <2>3, <2>5, PrecedesStrict
<1>15. PICK rest : rest = Tail(s)  OBVIOUS
<1>16. Enumerates(rest, R \ {v}, o)
  <2>1. /\ rest \in Seq(Pages) /\ Len(rest) = Len(s) - 1
        /\ \A j \in 1..(Len(s) - 1) : rest[j] = IF j < 1 THEN s[j] ELSE s[j + 1]
    BY <1>3, <1>12, <1>15, TailElements
  <2> QED  BY <1>7, <1>10, <1>12, <1>14, <2>1, OthersStay
<1>17. Enumerates(rest, R \ {v}, m)  BY <1>7, <1>8, <1>16, NumberedKeeps
<1>18. m \in Seq(Pages) /\ Distinct(m)  BY <1>7, <1>8, NumberedOrder
<1>19. Enumerates(Append(rest, p), Resident', pageTable'.order)
  BY <1>4, <1>5, <1>9, <1>17, <1>18, NumberedJoins
<1>20. ValidInOrder(pageTable)' = Append(rest, p) /\ InOrder'
  BY <1>19, NextInOrder
<1>21. p \notin Paging!ToSet(s)  BY <1>3, <1>4 DEF Enumerates, RangeOf, Paging!ToSet
<1>22. page' = p /\ kind' = "pagefault" /\ status' = "success" /\ byte' = p
  BY DEF ReadFaultEvict, Deliver, ReadsBackingStore
<1>23. ~(Len(s) < NumFrames)  BY <1>11, FrameAssumption
<1> QED  BY <1>1, <1>15, <1>20, <1>21, <1>22, <1>23 DEF Paging!Fault

\* Every read is a step of the memory, as long as the TLB agrees with the page table.
LEMMA PagingStep ==
    ASSUME VmmType, FramesOwned, OrderInv, OrderInv', TlbCoherent, InOrder,
           ReadsBackingStore', [Next]_vars
    PROVE  InOrder' /\ [Paging!Next]_(Paging!vars)
<1> USE DEF Paging!vars
<1>1. ASSUME NEW p \in Pages, ReadTlbHit(p) PROVE InOrder' /\ Paging!Next
  <2>1. PICK i \in Matches(tlb, p) : TRUE  BY <1>1 DEF ReadTlbHit, TlbHit
  <2>2. tlb.table[i].frame \in Frames /\ pageTable.frame[p] = tlb.table[i].frame
    BY <2>1 DEF Matches, TlbCoherent, VmmType, TlbType
  <2>3. p \in Resident  BY <2>2, FrameAssumption DEF Resident, IsValid
  <2>4. /\ pageTable' = TableLookup(pageTable, p) /\ page' = p /\ status' = "success"
        /\ byte' = p /\ kind' # "pagefault"
    BY <1>1 DEF ReadTlbHit, Deliver, ReadsBackingStore
  <2> QED  BY <2>3, <2>4, HitStep DEF Paging!Next, Resident
<1>2. ASSUME NEW p \in Pages, ReadPageHit(p) PROVE InOrder' /\ Paging!Next
  <2>1. /\ pageTable' = TableLookup(pageTable, p) /\ page' = p /\ status' = "success"
        /\ byte' = p /\ kind' # "pagefault" /\ p \in Resident
    BY <1>2 DEF ReadPageHit, Deliver, ReadsBackingStore, Resident
  <2> QED  BY <2>1, HitStep DEF Paging!Next, Resident
<1>3. ASSUME NEW p \in Pages, ReadSeekFails(p) PROVE InOrder' /\ Paging!Next
  BY <1>3, FailStep DEF Paging!Next
<1>4. ASSUME NEW p \in Pages, ReadFaultFree(p) PROVE InOrder' /\ Paging!Next
  BY <1>4, FaultFreeStep DEF Paging!Next
<1>5. ASSUME NEW p \in Pages, NEW v \in Pages, ReadFaultEvict(p, v)
      PROVE  InOrder' /\ Paging!Next
  BY <1>5, FaultEvictStep DEF Paging!Next
<1>6. CASE UNCHANGED vars
  <2>1. PICK table : table = pageTable  OBVIOUS
  <2>2. PICK s : s = ValidInOrder(table)  OBVIOUS
  <2>3. pageTable' = table /\ pageTable = table  BY <1>6, <2>1 DEF vars
  <2>4. ValidInOrder(pageTable)' = s /\ ValidInOrder(pageTable) = s  BY <2>2, <2>3
  <2>5. UNCHANGED <<page, byte, kind, status>>  BY <1>6 DEF vars
  <2> QED  BY <2>3, <2>4, <2>5 DEF InOrder, Resident
<1> QED  BY <1>1, <1>2, <1>3, <1>4, <1>5, <1>6 DEF Next

LEMMA InitPaging == Init => InOrder /\ Paging!Init
<1> SUFFICES ASSUME Init PROVE InOrder /\ Paging!Init  OBVIOUS
<1>1. PICK table : table = pageTable  OBVIOUS
<1>2. table.order = <<>> /\ \A p \in Pages : ~IsValid(table, p)
  BY <1>1 DEF Init, TableInit, IsValid
<1>3. <<>> \in Seq(Pages) /\ Distinct(<<>>) /\ RangeOf(<<>>) = {} /\ DOMAIN <<>> = {}
  BY EmptySeq DEF Distinct, RangeOf
<1>4. {p \in Pages : IsValid(table, p)} = {}  BY <1>2
<1>5. Enumerates(<<>>, {p \in Pages : IsValid(table, p)}, <<>>)
  BY <1>3, <1>4 DEF Enumerates
<1>6. ValidInOrder(table) = <<>>  BY <1>2, <1>3, <1>5, OneEnumeration
<1>7. InOrder  BY <1>1, <1>2, <1>5, <1>6 DEF InOrder, Resident
<1> QED  BY <1>1, <1>6, <1>7 DEF Init, Paging!Init

\* Seen from outside the manager is a memory of NumFrames frames with exact LRU, under
\* LRU with 2 * TlbSize - 1 frames and a backing store that can be read: it faults
\* exactly when such a memory would, evicts the page it would, and returns its bytes.
THEOREM ManagerIsLruPaging ==
    ASSUME Strategy = "lru", NumFrames >= 2 * TlbSize - 1, "read" \notin DiskFaults
    PROVE  Spec => PagingSpec
<1>1. VmmType /\ FramesOwned /\ OrderInv /\ OrderInv' /\ TlbCoherent /\ InOrder
        /\ ReadsBackingStore' /\ [Next]_vars
      => InOrder' /\ [Paging!Next]_(Paging!vars)
  BY PagingStep
<1>2. Spec => []TlbCoherent  BY TlbCoherentUnderLru
<1>3. Spec => []ReadsBackingStore  BY ReadsRightUnderLru
<1> QED
  BY <1>1, <1>2, <1>3, InitType, StepType, InitOwned, StepOwned, InitOrder,
     StepOrder, InitPaging, PTL
  DEF Spec, PagingSpec, Paging!Spec

\* So it is, under either strategy, with as many frames as pages.
THEOREM ManagerIsPagingWithEnoughFrames ==
    ASSUME IsFiniteSet(Pages), Cardinality(Pages) <= NumFrames,
           "read" \notin DiskFaults
    PROVE  Spec => PagingSpec
<1>1. VmmType /\ FramesOwned /\ OrderInv /\ OrderInv' /\ TlbCoherent /\ InOrder
        /\ ReadsBackingStore' /\ [Next]_vars
      => InOrder' /\ [Paging!Next]_(Paging!vars)
  BY PagingStep
<1>2. Spec => []TlbCoherent  BY TlbCoherentWithEnoughFrames
<1>3. Spec => []ReadsBackingStore  BY ReadsRightWithEnoughFrames
<1> QED
  BY <1>1, <1>2, <1>3, InitType, StepType, InitOwned, StepOwned, InitOrder,
     StepOrder, InitPaging, PTL
  DEF Spec, PagingSpec, Paging!Spec
=============================================================================
