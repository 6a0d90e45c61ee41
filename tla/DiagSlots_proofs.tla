--------------------------- MODULE DiagSlots_proofs ---------------------------
(***************************************************************************)
(* Proofs about a granule's records (module GranuleDiag) and about the     *)
(* slots that lead to them (module DiagSlots), for every set of threads,   *)
(* granules, allocations and heap cells, every capacity and any number of  *)
(* failing allocations, when no two ids share a slot.                      *)
(* The parts: the operations on the records; who holds which state; what   *)
(* the records say; the refinement of the atomic ledger.                   *)
(***************************************************************************)
EXTENDS DiagSlots, Client_proofs, SequenceTheorems, WellFoundedInduction

-----------------------------------------------------------------------------
(* What the operations on a granule's records preserve, for every sequence *)
(* of records and every id: the hint only changes where the search starts, *)
(* so a deregister frees a record of its own allocation, and exactly one.  *)

\* The records of a state are numbered from 1.
LEMMA RecordNumbers ==
    ASSUME NEW d \in DiagType
    PROVE  /\ d.allocs \in Seq(Record) /\ Len(d.allocs) \in Nat
           /\ DOMAIN d.allocs = 1 .. Len(d.allocs)
           /\ d.last_freed_index \in Nat /\ d.alloc_capacity \in Nat \ {0} /\ d.live_count \in Int
           /\ \A i \in DOMAIN d.allocs : d.allocs[i] \in Record
BY LenProperties, ElementOfSeq DEF DiagType

\* A report is one.
LEMMA ReportIsOne ==
    ASSUME NEW d \in DiagType
    PROVE  Report(d) \in ReportType /\ LiveIds(d) \subseteq AllocIds
<1>1. LiveIds(d) \subseteq AllocIds
      BY RecordNumbers DEF LiveIds, Unfreed, Record
<1>2. Report(d).pinning_allocs = LiveIds(d)
      BY DEF Report, LiveIds
<1>3. d.granule_id \in Nat
      BY DEF DiagType
<1> QED BY <1>1, <1>2, <1>3, RecordNumbers DEF Report, ReportType

\* A new granule has no records.
LEMMA NewDiagOK ==
    ASSUME NEW g \in Nat
    PROVE  /\ NewDiag(g) \in DiagType /\ DiagOK(NewDiag(g))
           /\ NewDiag(g).granule_id = g /\ NewDiag(g).live_count = 0
           /\ LiveIds(NewDiag(g)) = {}
<1>1. /\ NewDiag(g).allocs = <<>> /\ <<>> \in Seq(Record)
      /\ Len(<<>>) = 0 /\ DOMAIN <<>> = 1 .. 0
      BY EmptySeq, LenProperties DEF NewDiag
<1>2. /\ NewDiag(g) \in DiagType /\ NewDiag(g).granule_id = g
      /\ NewDiag(g).live_count = 0
      BY <1>1, DiagAssumption DEF NewDiag, DiagType
<1>3. Unfreed(NewDiag(g)) = {}
      BY <1>1 DEF Unfreed
<1>4. CountOK(NewDiag(g)) /\ LiveIds(NewDiag(g)) = {}
      BY <1>3, FS_EmptySet DEF CountOK, NewDiag, LiveIds
<1>5. InBounds(NewDiag(g)) /\ UniqueIds(NewDiag(g))
      BY <1>1, <1>3, DiagAssumption DEF InBounds, UniqueIds, NewDiag
<1> QED BY <1>2, <1>4, <1>5 DEF DiagOK

-----------------------------------------------------------------------------
(* The register                                                            *)

\* A register appends one record, which is not freed, and touches no other.
LEMMA AddAllocRecords ==
    ASSUME NEW d \in DiagType, NEW a \in AllocIds
    PROVE  /\ AddAlloc(d, a) \in DiagType
           /\ AddAlloc(d, a).granule_id = d.granule_id
           /\ AddAlloc(d, a).live_count = d.live_count + 1
           /\ Len(AddAlloc(d, a).allocs) = Len(d.allocs) + 1
           /\ \A i \in 1 .. Len(d.allocs) : AddAlloc(d, a).allocs[i] = d.allocs[i]
           /\ AddAlloc(d, a).allocs[Len(d.allocs) + 1] = [alloc_id |-> a, freed |-> FALSE]
           /\ Unfreed(AddAlloc(d, a)) = Unfreed(d) \cup {Len(d.allocs) + 1}
<1> DEFINE r == [alloc_id |-> a, freed |-> FALSE]
           e == AddAlloc(d, a)
<1>1. r \in Record
      BY DEF Record
<1>2. d.allocs \in Seq(Record) /\ Len(d.allocs) \in Nat
      BY RecordNumbers
<1>3. /\ e.allocs = Append(d.allocs, r)
      /\ e.granule_id = d.granule_id
      /\ e.live_count = d.live_count + 1
      /\ e.alloc_capacity = IF Full(d) THEN 2 * d.alloc_capacity ELSE d.alloc_capacity
      /\ e.last_freed_index = d.last_freed_index
      BY DEF AddAlloc, DiagType
<1>4. /\ e.allocs \in Seq(Record) /\ Len(e.allocs) = Len(d.allocs) + 1
      /\ \A i \in 1 .. Len(d.allocs) : e.allocs[i] = d.allocs[i]
      /\ e.allocs[Len(d.allocs) + 1] = r
      BY <1>1, <1>2, <1>3, AppendProperties
<1>5. e \in DiagType
  <2>1. /\ e.granule_id \in Nat /\ e.live_count \in Int /\ e.alloc_capacity \in Nat \ {0}
        /\ e.last_freed_index \in Nat
        BY <1>3, RecordNumbers DEF DiagType
  <2>2. e = [d EXCEPT !.allocs = e.allocs, !.alloc_capacity = e.alloc_capacity,
                      !.live_count = e.live_count]
        BY <1>3 DEF AddAlloc, DiagType
  <2> HIDE DEF e
  <2> QED BY <1>4, <2>1, <2>2 DEF DiagType
<1>6. Unfreed(e) = Unfreed(d) \cup {Len(d.allocs) + 1}
  <2>1. DOMAIN e.allocs = 1 .. Len(d.allocs) + 1 /\ DOMAIN d.allocs = 1 .. Len(d.allocs)
        BY <1>4, <1>5, RecordNumbers
  <2>2. ~r.freed
        OBVIOUS
  <2> QED BY <1>2, <1>4, <2>1, <2>2 DEF Unfreed
<1> QED BY <1>3, <1>4, <1>5, <1>6

\* No register writes past the end of the array.
LEMMA AddAllocBounds ==
    ASSUME NEW d \in DiagType, InBounds(d), NEW a \in AllocIds
    PROVE  InBounds(AddAlloc(d, a))
<1> DEFINE e == AddAlloc(d, a)
           n == Len(d.allocs)
<1>1. e \in DiagType /\ Len(e.allocs) = n + 1
      BY AddAllocRecords
<1>2. DOMAIN e.allocs = 1 .. n + 1 /\ DOMAIN d.allocs = 1 .. n
      BY <1>1, RecordNumbers
<1>3. /\ e.alloc_capacity = IF Full(d) THEN 2 * d.alloc_capacity ELSE d.alloc_capacity
      /\ e.last_freed_index = d.last_freed_index
      BY DEF AddAlloc, DiagType
<1>4. n \in Nat /\ d.alloc_capacity \in Nat \ {0}
      BY RecordNumbers
<1> HIDE DEF e, n
<1>5. n <= d.alloc_capacity /\ d.last_freed_index \in {1} \cup 1 .. n
      BY <1>2 DEF InBounds, n
<1> QED BY <1>1, <1>2, <1>3, <1>4, <1>5 DEF InBounds, Full, n, e

-----------------------------------------------------------------------------
(* The deregister                                                          *)

\* Around the end: a remainder of a number of the second round.
LEMMA SecondRound ==
    ASSUME NEW n \in Nat \ {0}, NEW m \in 0 .. n - 1
    PROVE  m % n = m /\ (m + n) % n = m
OBVIOUS

\* The search from the hint comes past every record,
LEMMA FromCovers ==
    ASSUME NEW d \in DiagType, InBounds(d), NEW i \in DOMAIN d.allocs
    PROVE  \E o \in 0 .. Len(d.allocs) - 1 : From(d, o) = i
<1> DEFINE n == Len(d.allocs)
           h == d.last_freed_index
<1>1. n \in Nat \ {0} /\ i \in 1 .. n /\ h \in 1 .. n
      BY RecordNumbers DEF InBounds
<1>f. \A o : From(d, o) = ((h - 1 + o) % n) + 1
      BY DEF From
<1> HIDE DEF n, h
<1>r. (i - 1) % n = i - 1 /\ ((i - 1) + n) % n = i - 1
      BY <1>1, SecondRound
<1>2. CASE h <= i
  <2>1. i - h \in 0 .. n - 1 /\ h - 1 + (i - h) = i - 1 /\ i - 1 \in 0 .. n - 1
        BY <1>1, <1>2
  <2>2. From(d, i - h) = i
        BY <1>1, <1>f, <1>r, <2>1
  <2> QED BY <2>1, <2>2 DEF n
<1>3. CASE i < h
  <2>1. i - h + n \in 0 .. n - 1 /\ h - 1 + (i - h + n) = (i - 1) + n /\ i - 1 \in 0 .. n - 1
        BY <1>1, <1>3
  <2>2. From(d, i - h + n) = i
        BY <1>1, <1>f, <1>r, <2>1
  <2> QED BY <2>1, <2>2 DEF n
<1> QED BY <1>1, <1>2, <1>3

\* so it finds one whenever there is one.
LEMMA FoundMatches ==
    ASSUME NEW d \in DiagType, InBounds(d), NEW a, Matches(d, a) # {}
    PROVE  Found(d, a) \in Matches(d, a)
<1> DEFINE O == {o \in 0 .. Len(d.allocs) - 1 : From(d, o) \in Matches(d, a)}
<1>1. Len(d.allocs) \in Nat /\ O \subseteq Nat
      BY RecordNumbers
<1>2. O # {}
  <2>1. PICK i \in Matches(d, a) : i \in DOMAIN d.allocs
        BY DEF Matches
  <2> QED BY <2>1, FromCovers
<1>3. PICK o \in O : \A p \in O : ~(<<p, o>> \in OpToRel(<, Nat))
      BY <1>1, <1>2, WFMin, NatLessThanWellFounded
<1>4. \A p \in 0 .. o - 1 : From(d, p) \notin Matches(d, a)
  <2> SUFFICES ASSUME NEW p \in 0 .. o - 1, From(d, p) \in Matches(d, a) PROVE FALSE
      OBVIOUS
  <2>1. p \in O /\ p < o /\ p \in Nat /\ o \in Nat
        BY <1>1
  <2> QED BY <1>3, <2>1 DEF OpToRel
<1> HIDE DEF O
<1>5. From(d, o) \in Matches(d, a) /\ o \in 0 .. Len(d.allocs) - 1
      BY DEF O
<1> QED BY <1>4, <1>5 DEF Found

\* A deregister whose search succeeds frees one record, of its own allocation,
\* and touches no other.
LEMMA MarkFreedRecords ==
    ASSUME NEW d \in DiagType, InBounds(d), NEW a \in AllocIds, Matches(d, a) # {}
    PROVE  LET i == Found(d, a)
               e == MarkFreed(d, a)
           IN  /\ e \in DiagType
               /\ e.granule_id = d.granule_id
               /\ e.live_count = d.live_count - 1
               /\ e.alloc_capacity = d.alloc_capacity
               /\ e.last_freed_index \in 1 .. Len(d.allocs)
               /\ Len(e.allocs) = Len(d.allocs)
               /\ \A j \in 1 .. Len(d.allocs) : j # i => e.allocs[j] = d.allocs[j]
               /\ i \in Unfreed(d) /\ d.allocs[i].alloc_id = a
               /\ Unfreed(e) = Unfreed(d) \ {i}
<1> DEFINE i == Found(d, a)
           e == MarkFreed(d, a)
           n == Len(d.allocs)
           r == [d.allocs[i] EXCEPT !.freed = TRUE]
<1>1. i \in Matches(d, a)
      BY FoundMatches
<1>2. /\ d.allocs \in Seq(Record) /\ n \in Nat /\ DOMAIN d.allocs = 1 .. n
      /\ d.last_freed_index \in Nat /\ d.alloc_capacity \in Nat \ {0} /\ d.live_count \in Int
      /\ \A j \in DOMAIN d.allocs : d.allocs[j] \in Record
      BY RecordNumbers
<1>3. i \in 1 .. n /\ i \in Unfreed(d) /\ d.allocs[i].alloc_id = a
      BY <1>1, <1>2 DEF Matches, Unfreed
<1> HIDE DEF i, n
<1>4. r \in Record /\ r.freed
      BY <1>2, <1>3 DEF Record
<1>5. /\ e.allocs = [d.allocs EXCEPT ![i] = r]
      /\ e.granule_id = d.granule_id
      /\ e.live_count = d.live_count - 1
      /\ e.alloc_capacity = d.alloc_capacity
      /\ e.last_freed_index = (i % n) + 1
      BY DEF MarkFreed, Mark, DiagType, i, n
<1>6. /\ e.allocs \in Seq(Record) /\ Len(e.allocs) = n
      /\ \A j \in 1 .. n : e.allocs[j] = IF j = i THEN r ELSE d.allocs[j]
  <2> HIDE DEF r, e
  <2>1. /\ [d.allocs EXCEPT ![i] = r] \in Seq(Record)
        /\ Len([d.allocs EXCEPT ![i] = r]) = Len(d.allocs)
        /\ \A j \in 1 .. Len(d.allocs) :
              [d.allocs EXCEPT ![i] = r][j] = IF j = i THEN r ELSE d.allocs[j]
        BY <1>2, <1>3, <1>4, ExceptSeq DEF n
  <2> QED BY <1>5, <2>1 DEF n
<1>7. e.last_freed_index \in 1 .. n
      BY <1>2, <1>3, <1>5
<1>8. e \in DiagType
  <2>1. e = [d EXCEPT !.allocs = e.allocs, !.last_freed_index = e.last_freed_index,
                      !.live_count = e.live_count]
        BY <1>5 DEF MarkFreed, Mark, DiagType
  <2>2. e.live_count \in Int /\ e.last_freed_index \in Nat
        BY <1>2, <1>5, <1>7
  <2> HIDE DEF e
  <2> QED BY <1>6, <2>1, <2>2 DEF DiagType
<1>9. Unfreed(e) = Unfreed(d) \ {i}
  <2>1. DOMAIN e.allocs = 1 .. n
        BY <1>6, <1>8, RecordNumbers
  <2> HIDE DEF e, r
  <2> QED BY <1>2, <1>3, <1>4, <1>6, <2>1 DEF Unfreed
<1> QED BY <1>3, <1>5, <1>6, <1>7, <1>8, <1>9 DEF i, n

\* No deregister moves the hint out of the array.
LEMMA MarkFreedBounds ==
    ASSUME NEW d \in DiagType, InBounds(d), NEW a \in AllocIds, Matches(d, a) # {}
    PROVE  InBounds(MarkFreed(d, a))
<1> DEFINE e == MarkFreed(d, a)
<1>1. /\ e \in DiagType /\ e.alloc_capacity = d.alloc_capacity
      /\ e.last_freed_index \in 1 .. Len(d.allocs) /\ Len(e.allocs) = Len(d.allocs)
      BY MarkFreedRecords
<1>2. DOMAIN e.allocs = 1 .. Len(e.allocs)
      BY <1>1, RecordNumbers
<1> QED BY <1>1, <1>2 DEF InBounds

-----------------------------------------------------------------------------
(* What is alive                                                           *)

\* The ids that are alive are as many as the live count says.
THEOREM LiveCount ==
    ASSUME NEW d \in DiagType, DiagOK(d)
    PROVE  IsFiniteSet(LiveIds(d)) /\ Cardinality(LiveIds(d)) = d.live_count
<1> DEFINE f == [i \in Unfreed(d) |-> d.allocs[i].alloc_id]
<1>1. f \in Bijection(Unfreed(d), LiveIds(d))
      BY DEF DiagOK, UniqueIds, LiveIds, Bijection, Injection, Surjection, IsInjective
<1>2. IsFiniteSet(Unfreed(d)) /\ d.live_count = Cardinality(Unfreed(d))
      BY DEF DiagOK, CountOK
<1> QED BY <1>1, <1>2, FS_Bijection DEF ExistsBijection

\* It is no more than the records.
LEMMA LiveBound ==
    ASSUME NEW d \in DiagType, DiagOK(d)
    PROVE  d.live_count \in Nat /\ Len(d.allocs) - d.live_count \in Nat
<1>1. Len(d.allocs) \in Nat /\ DOMAIN d.allocs = 1 .. Len(d.allocs)
      BY RecordNumbers
<1>2. IsFiniteSet(1 .. Len(d.allocs)) /\ Cardinality(1 .. Len(d.allocs)) = Len(d.allocs)
      BY <1>1, FS_Interval
<1>3. Unfreed(d) \subseteq 1 .. Len(d.allocs)
      BY <1>1 DEF Unfreed
<1>4. Cardinality(Unfreed(d)) \in Nat /\ Cardinality(Unfreed(d)) <= Len(d.allocs)
      BY <1>2, <1>3, FS_Subset, FS_CardinalityType
<1> QED BY <1>1, <1>4 DEF DiagOK, CountOK

\* A register of an id that is not alive adds it, and keeps the state in order.
THEOREM AddAllocLive ==
    ASSUME NEW d \in DiagType, DiagOK(d), NEW a \in AllocIds, a \notin LiveIds(d)
    PROVE  /\ DiagOK(AddAlloc(d, a))
           /\ LiveIds(AddAlloc(d, a)) = LiveIds(d) \cup {a}
<1> DEFINE e == AddAlloc(d, a)
           n == Len(d.allocs)
<1>1. /\ e \in DiagType
      /\ e.live_count = d.live_count + 1
      /\ Len(e.allocs) = n + 1
      /\ \A i \in 1 .. n : e.allocs[i] = d.allocs[i]
      /\ e.allocs[n + 1] = [alloc_id |-> a, freed |-> FALSE]
      /\ Unfreed(e) = Unfreed(d) \cup {n + 1}
      BY AddAllocRecords
<1>2. /\ n \in Nat /\ DOMAIN d.allocs = 1 .. n /\ Unfreed(d) \subseteq 1 .. n
      /\ d.alloc_capacity \in Nat \ {0}
      BY RecordNumbers DEF Unfreed
<1> HIDE DEF e, n
<1>a. e.allocs[n + 1].alloc_id = a
      BY <1>1
<1>5. LiveIds(e) = LiveIds(d) \cup {a}
      BY <1>1, <1>2, <1>a DEF LiveIds
<1>6. UniqueIds(e)
      BY <1>1, <1>2, <1>a DEF UniqueIds, LiveIds, DiagOK
<1>7. CountOK(e)
  <2>1. n + 1 \notin Unfreed(d)
        BY <1>2
  <2> QED BY <1>1, <2>1, FS_AddElement DEF CountOK, DiagOK
<1>8. InBounds(e)
      BY AddAllocBounds DEF DiagOK, e
<1> QED BY <1>5, <1>6, <1>7, <1>8 DEF DiagOK, e

\* A search fails for the ids that are not alive, and for no other.
LEMMA MatchesIffLive ==
    ASSUME NEW d, NEW a PROVE Matches(d, a) # {} <=> a \in LiveIds(d)
BY DEF Matches, LiveIds, Unfreed

\* A deregister of an id that is alive removes it, and keeps the state in order.
THEOREM MarkFreedLive ==
    ASSUME NEW d \in DiagType, DiagOK(d), NEW a \in AllocIds, a \in LiveIds(d)
    PROVE  /\ DiagOK(MarkFreed(d, a))
           /\ LiveIds(MarkFreed(d, a)) = LiveIds(d) \ {a}
           /\ d.live_count \in Nat \ {0}
<1> DEFINE i == Found(d, a)
           e == MarkFreed(d, a)
           n == Len(d.allocs)
<1>1. /\ e \in DiagType
      /\ e.live_count = d.live_count - 1
      /\ e.alloc_capacity = d.alloc_capacity
      /\ e.last_freed_index \in 1 .. n
      /\ Len(e.allocs) = n
      /\ \A j \in 1 .. n : j # i => e.allocs[j] = d.allocs[j]
      /\ i \in Unfreed(d) /\ d.allocs[i].alloc_id = a
      /\ Unfreed(e) = Unfreed(d) \ {i}
      BY MatchesIffLive, MarkFreedRecords DEF DiagOK
<1>2. n \in Nat /\ Unfreed(d) \subseteq 1 .. n /\ DOMAIN e.allocs = 1 .. n
      BY <1>1, RecordNumbers DEF Unfreed
<1> HIDE DEF e, i, n
<1>3. \A j \in Unfreed(d) : d.allocs[j].alloc_id = a => j = i
      BY <1>1 DEF DiagOK, UniqueIds
<1>4. LiveIds(e) = LiveIds(d) \ {a}
      BY <1>1, <1>2, <1>3 DEF LiveIds
<1>5. UniqueIds(e)
      BY <1>1, <1>2 DEF UniqueIds, DiagOK
<1>6. CountOK(e) /\ d.live_count \in Nat \ {0}
  <2>1. IsFiniteSet(Unfreed(d)) /\ d.live_count = Cardinality(Unfreed(d))
        BY DEF DiagOK, CountOK
  <2>2. /\ IsFiniteSet(Unfreed(e)) /\ Cardinality(Unfreed(e)) = Cardinality(Unfreed(d)) - 1
        /\ Cardinality(Unfreed(d)) \in Nat /\ Cardinality(Unfreed(e)) \in Nat
        BY <1>1, <2>1, FS_RemoveElement, FS_CardinalityType
  <2> QED BY <1>1, <2>1, <2>2 DEF CountOK
<1>7. InBounds(e)
      BY MatchesIffLive, MarkFreedBounds DEF DiagOK, e
<1> QED BY <1>4, <1>5, <1>6, <1>7 DEF DiagOK, e

-----------------------------------------------------------------------------
(* The slots                                                               *)

\* The slot of a call is a slot.
LEMMA SlotOfCall ==
    ASSUME DiagTypeOK, NEW t \in Threads, Active(t)
    PROVE  call[t] \in Calls /\ call[t].id \in Granules /\ Slot(t) \in Slots
<1>1. call[t] \in Calls /\ call[t].id \in Granules
      BY DEF DiagTypeOK, ClientTypeOK, Calls
<1>2. \A i \in Nat, n \in Nat \ {0} : i % n \in 0 .. n - 1
      OBVIOUS
<1> QED BY <1>1, <1>2, ClientAssumption DEF Slot, Slots

\* A cell that is in use holds a granule's state.
LEMMA CellInUse ==
    ASSUME DiagTypeOK, NEW c \in Cells, heap[c] # Null
    PROVE  heap[c] \in DiagType
BY DEF DiagTypeOK

\* Two threads at one slot are in calls for one granule, and neither is alone in it.
LEMMA OneSlot ==
    ASSUME SoundSlots, DiagTypeOK, ContractInv,
           NEW t \in Threads, NEW u \in Threads \ {t}, Active(t), Active(u), Slot(t) = Slot(u)
    PROVE  /\ call[t].id = call[u].id
           /\ call[t].fn # "close" /\ call[u].fn # "close"
           /\ call[t].fn = "open" => call[u].fn = "dealloc"
<1>1. call[t].id = call[u].id
      BY SlotOfCall DEF SoundSlots, Slot
<1>2. call[t].fn # "close" /\ call[u].fn # "close" /\ ~(call[t].fn = "open" /\ call[u].fn = "open")
      BY <1>1 DEF ContractInv, AloneInv
<1>3. ~(call[t].fn = "open" /\ call[u].fn = "alloc")
      BY <1>1 DEF ContractInv, PhaseInv, Calling
<1> QED BY <1>1, <1>2, <1>3, SlotOfCall DEF Calls

-----------------------------------------------------------------------------
(* Types and frames                                                        *)

\* An operation of the slots moves one active thread on; calls and lists stay.
LEMMA StepFrame ==
    ASSUME DiagTypeOK, LabelInv, NEW t \in Threads, SlotStep(t)
    PROVE  /\ UNCHANGED <<call, bookVars, arg, owner, late>>
           /\ Active(t) /\ Active(t)'
           /\ \A u \in Threads \ {t} :
                 pc'[u] = pc[u] /\ ret'[u] = ret[u] /\ ptr'[u] = ptr[u] /\ report'[u] = report[u]
           /\ LabelInv'
<1> USE DEF DiagTypeOK, ClientTypeOK, Active, LabelInv, Goto, Answer, ClientOnly, Detached
<1>1. CASE OpenClaim(t)      BY <1>1 DEF OpenClaim
<1>2. CASE OpenCreate(t)     BY <1>2 DEF OpenCreate
<1>3. CASE OpenRelease(t)    BY <1>3 DEF OpenRelease
<1>4. CASE FindOccupied(t)   BY <1>4 DEF FindOccupied
<1>5. CASE FindDiag(t)       BY <1>5 DEF FindDiag
<1>6. CASE FindId(t)
  <2>1. call[t].fn \in {"close", "alloc", "dealloc"}
        BY <1>6 DEF FindId
  <2>2. AfterFind(call[t].fn) = IF call[t].fn = "close" THEN "close_take"
                                ELSE IF call[t].fn = "alloc" THEN "add_alloc"
                                ELSE "mark_freed"
        BY <2>1 DEF AfterFind
  <2> QED BY <1>6, <2>1, <2>2 DEF FindId
<1>7. CASE AllocAdd(t)       BY <1>7 DEF AllocAdd
<1>8. CASE DeallocMark(t)    BY <1>8 DEF DeallocMark
<1>9. CASE CloseTake(t)      BY <1>9 DEF CloseTake
<1>10. CASE CloseRelease(t)  BY <1>10 DEF CloseRelease
<1>11. CASE CloseLoad(t)     BY <1>11 DEF CloseLoad
<1>12. CASE CloseReport(t)   BY <1>12 DEF CloseReport
<1>13. CASE ClosePush(t)     BY <1>13 DEF ClosePush
<1>14. CASE CloseDestroy(t)  BY <1>14 DEF CloseDestroy
<1> QED BY <1>1, <1>2, <1>3, <1>4, <1>5, <1>6, <1>7, <1>8, <1>9, <1>10, <1>11,
           <1>12, <1>13, <1>14 DEF SlotStep

\* An operation of the slots keeps the types.
LEMMA StepType ==
    ASSUME MemoryInv, NEW t \in Threads, SlotStep(t)
    PROVE  DiagTypeOK'
<1>0. DiagTypeOK /\ LabelInv /\ PlaceInv
      BY DEF MemoryInv
<1>1. /\ UNCHANGED <<call, bookVars, arg, owner, late>> /\ Active(t) /\ Active(t)'
      /\ \A u \in Threads \ {t} : pc'[u] = pc[u]
      BY <1>0, StepFrame
<1>2. call[t].id \in Granules /\ call[t].id \in Nat /\ Slot(t) \in Slots
      BY <1>0, <1>1, SlotOfCall, ClientAssumption
\* What is left to show of each operation.
<1>3. SUFFICES /\ pc' \in [Threads -> Labels] /\ ret' \in [Threads -> Int]
               /\ occupied' \in [Slots -> {0, 1}]
               /\ diag' \in [Slots -> Cells \cup {Null}]
               /\ heap' \in [Cells -> DiagType \cup {Null}]
               /\ ptr' \in [Threads -> Cells \cup {Null}]
               /\ report' \in [Threads -> ReportType \cup {Null}]
               /\ failures' \in Nat
  <2>1. \A u \in Threads : Active(u)' = Active(u)
        BY <1>1 DEF Active
  <2> QED BY <1>0, <1>1, <2>1 DEF DiagTypeOK, ClientTypeOK, bookVars
<1> USE DEF Goto, Answer, MayFail, slotVars, Labels
<1>t. /\ pc \in [Threads -> Labels] /\ ret \in [Threads -> Int]
      /\ occupied \in [Slots -> {0, 1}]
      /\ diag \in [Slots -> Cells \cup {Null}]
      /\ heap \in [Cells -> DiagType \cup {Null}]
      /\ ptr \in [Threads -> Cells \cup {Null}]
      /\ report \in [Threads -> ReportType \cup {Null}]
      /\ failures \in Nat
      BY <1>0 DEF DiagTypeOK, ClientTypeOK
<1>4. CASE OpenClaim(t)      BY <1>2, <1>t, <1>4 DEF OpenClaim
<1>5. CASE OpenCreate(t)     BY <1>2, <1>t, <1>5, NewDiagOK DEF OpenCreate
<1>6. CASE OpenRelease(t)    BY <1>2, <1>t, <1>6 DEF OpenRelease
<1>7. CASE FindOccupied(t)   BY <1>2, <1>t, <1>7 DEF FindOccupied
<1>8. CASE FindDiag(t)       BY <1>2, <1>t, <1>8 DEF FindDiag
<1>9. CASE FindId(t)
  <2>1. AfterFind(call[t].fn) \in {"close_take", "add_alloc", "mark_freed"}
        BY <1>0, <1>9 DEF FindId, LabelInv, AfterFind
  <2>2. Reread(t, ptr[t]) \subseteq Cells \cup {Null}
        BY <1>2, <1>t DEF Reread
  <2> QED BY <1>t, <1>9, <2>1, <2>2 DEF FindId
<1>10. CASE AllocAdd(t)
  <2>1. arg[t] \in AllocIds
        BY <1>0, <1>1, <1>10 DEF MemoryInv, ArgInv, AllocAdd, LabelInv, Calling
  <2>2. ptr[t] \in Cells /\ heap[ptr[t]] \in DiagType
        BY <1>0, <1>t, <1>10, CellInUse DEF AllocAdd, PlaceInv
  <2>3. AddAlloc(heap[ptr[t]], arg[t]) \in DiagType
        BY <2>1, <2>2, AddAllocRecords
  <2> QED BY <1>t, <1>10, <2>2, <2>3 DEF AllocAdd, Update
<1>11. CASE DeallocMark(t)
  <2>1. arg[t] \in AllocIds
        BY <1>0, <1>1, <1>11 DEF MemoryInv, ArgInv, DeallocMark, LabelInv, Calling
  <2>2. ptr[t] \in Cells /\ heap[ptr[t]] \in DiagType
        BY <1>0, <1>t, <1>11, CellInUse DEF DeallocMark, PlaceInv
  <2>3. InBounds(heap[ptr[t]])
        BY <1>0, <2>2, <1>11 DEF MemoryInv, StateInv, InUseCells, DeallocMark
  <2>4. Matches(heap[ptr[t]], arg[t]) # {} => MarkFreed(heap[ptr[t]], arg[t]) \in DiagType
        BY <2>1, <2>2, <2>3, MarkFreedRecords
  <2> QED BY <1>t, <1>11, <2>2, <2>4 DEF DeallocMark, Update
<1>12. CASE CloseTake(t)
  <2>1. Reread(t, ptr[t]) \subseteq Cells \cup {Null}
        BY <1>2, <1>t DEF Reread
  <2> QED BY <1>2, <1>t, <1>12, <2>1 DEF CloseTake
<1>13. CASE CloseRelease(t)  BY <1>2, <1>t, <1>13 DEF CloseRelease
<1> DEFINE d == heap[ptr[t]]
<1>h. pc[t] \in Detached => ptr[t] \in Cells /\ d \in DiagType /\ d.live_count \in Int
      BY <1>0, <1>t, CellInUse DEF PlaceInv, DiagType
<1> HIDE DEF d
<1>14. CASE CloseLoad(t)     BY <1>t, <1>h, <1>14 DEF CloseLoad, d, Detached
<1>15. CASE CloseReport(t)   BY <1>t, <1>h, <1>15, ReportIsOne DEF CloseReport, d, Detached
<1>16. CASE ClosePush(t)     BY <1>t, <1>16 DEF ClosePush
<1>17. CASE CloseDestroy(t)  BY <1>t, <1>h, <1>17 DEF CloseDestroy, Detached
<1> QED BY <1>4, <1>5, <1>6, <1>7, <1>8, <1>9, <1>10, <1>11, <1>12, <1>13, <1>14,
           <1>15, <1>16, <1>17 DEF SlotStep

-----------------------------------------------------------------------------
(* Where the states are                                                    *)

\* What is left of NoLeak when the slots and the hands are known to be disjoint.
KeptInv ==
    /\ \A c \in Cells : heap[c] # Null =>
          \/ \E s \in Slots : diag[s] = c
          \/ \E t \in Threads : pc[t] \in Detached /\ ptr[t] = c
    /\ \A s \in Slots : diag[s] = Null /\ occupied[s] = 1 =>
          \E t \in Threads :
              Slot(t) = s /\ pc[t] \in {"open_create", "open_release", "close_release"}

LEMMA KeptIffNoLeak ==
    ASSUME SoundSlots, DiagTypeOK, ContractInv, LabelInv, StateInv, PlaceInv
    PROVE  NoLeak <=> KeptInv
<1>1. \A t \in Threads : pc[t] \in Detached =>
          /\ Active(t) /\ call[t].fn = "close" /\ Slot(t) \in Slots
          /\ diag[Slot(t)] = Null
          /\ ptr[t] \in Cells /\ ptr[t] # Null /\ heap[ptr[t]] # Null
          /\ heap[ptr[t]].granule_id = call[t].id
  <2> SUFFICES ASSUME NEW t \in Threads, pc[t] \in Detached
               PROVE  /\ Active(t) /\ call[t].fn = "close" /\ Slot(t) \in Slots
                      /\ diag[Slot(t)] = Null
                      /\ ptr[t] \in Cells /\ ptr[t] # Null /\ heap[ptr[t]] # Null
                      /\ heap[ptr[t]].granule_id = call[t].id
      OBVIOUS
  <2>1. Active(t) /\ call[t].fn = "close"
        BY DEF Active, Detached, LabelInv
  <2> QED BY <2>1, SlotOfCall DEF PlaceInv, DiagTypeOK
<1>2. \A s, r \in Slots : diag[s] = diag[r] /\ diag[s] # Null => s = r
      BY DEF StateInv
<1>3. \A s \in Slots, t \in Threads : pc[t] \in Detached => diag[s] # ptr[t]
  <2> SUFFICES ASSUME NEW s \in Slots, NEW t \in Threads, pc[t] \in Detached, diag[s] = ptr[t]
               PROVE  FALSE
      OBVIOUS
  <2>1. heap[ptr[t]].granule_id % Capacity = s
        BY <1>1 DEF StateInv
  <2> QED BY <1>1, <2>1 DEF Slot
<1>4. \A t, u \in Threads :
          pc[t] \in Detached /\ pc[u] \in Detached /\ ptr[t] = ptr[u] => t = u
      BY <1>1 DEF ContractInv, AloneInv
<1>5. ASSUME NoLeak PROVE KeptInv
      BY <1>5 DEF NoLeak, KeptInv, InUseCells, InSlots, InHands
<1>6. ASSUME KeptInv PROVE NoLeak
  <2>1. InUseCells = InSlots \cup InHands
    <3>1. InUseCells \subseteq InSlots \cup InHands
          BY <1>6, DiagSlotsAssumption DEF KeptInv, InUseCells, InSlots, InHands
    <3>2. InSlots \subseteq InUseCells
          BY DEF StateInv, InSlots, InUseCells, DiagTypeOK
    <3>3. InHands \subseteq InUseCells
          BY <1>1 DEF InHands, InUseCells
    <3> QED BY <3>1, <3>2, <3>3
  <2>2. InSlots \cap InHands = {}
        BY <1>3 DEF InSlots, InHands
  <2> QED BY <1>2, <1>4, <1>6, <2>1, <2>2 DEF NoLeak, KeptInv
<1> QED BY <1>5, <1>6

LEMMA KeptSuffices ==
    SoundSlots /\ DiagTypeOK /\ ContractInv /\ LabelInv /\ StateInv /\ PlaceInv /\ KeptInv
        => NoLeak
BY KeptIffNoLeak

\* The same after a step.
LEMMA KeptNext ==
    ASSUME SoundSlots, DiagTypeOK', ContractInv', LabelInv', StateInv', PlaceInv', KeptInv'
    PROVE  NoLeak'
<1>1. SoundSlots'
      BY DEF SoundSlots
<1> QED BY <1>1, KeptSuffices, PTL

\* The invariant's parts about the slots and the heap.
PlacesInv == StateInv /\ PlaceInv /\ OpenInv /\ KeptInv

\* An operation that changes neither slots nor heap keeps them, if the thread
\* that does it has found in its slot what it is about to use.
LEMMA QuietPlaces ==
    ASSUME MemoryInv, KeptInv, NEW t \in Threads, SlotStep(t), UNCHANGED <<slotVars, heap>>,
           pc[t] \notin {"open_create", "open_release", "close_take", "close_release", "close_destroy"},
           pc'[t] \notin {"open_create", "open_release", "close_release"},
           pc[t] \in Detached <=> pc'[t] \in Detached,
           pc[t] \in Detached => ptr'[t] = ptr[t],
           pc'[t] \in {"find_id", "add_alloc", "mark_freed", "close_take"}
              => ptr'[t] # Null /\ ptr'[t] = diag[Slot(t)],
           call[t].fn = "open" /\ pc'[t] = "ret" => ret'[t] # 0,
           call[t].fn = "close" /\ pc'[t] \in {"find_occupied", "find_diag"} => diag[Slot(t)] # Null
    PROVE  PlacesInv'
<1>1. /\ UNCHANGED <<call, bookVars>> /\ Active(t)
      /\ \A u \in Threads \ {t} : pc'[u] = pc[u] /\ ret'[u] = ret[u] /\ ptr'[u] = ptr[u]
      BY StepFrame DEF MemoryInv
<1>2. \A u \in Threads : Slot(u)' = Slot(u)
      BY <1>1 DEF Slot
<1>3. StateInv'
      BY DEF MemoryInv, StateInv, slotVars, InUseCells
<1>4. PlaceInv'
      BY <1>1, <1>2 DEF MemoryInv, PlaceInv, slotVars
<1>5. OpenInv'
      BY <1>1, <1>2 DEF MemoryInv, OpenInv, slotVars, bookVars, Calling, Active
<1>6. KeptInv'
      BY <1>1, <1>2 DEF KeptInv, slotVars
<1> QED BY <1>3, <1>4, <1>5, <1>6 DEF PlacesInv

\* An open claims, fills or gives back its own slot.
LEMMA OpenPlaces ==
    ASSUME SoundSlots, MemoryInv, KeptInv, NEW t \in Threads,
           OpenClaim(t) \/ OpenCreate(t) \/ OpenRelease(t)
    PROVE  PlacesInv'
<1> DEFINE s == Slot(t)
<1>0. DiagTypeOK /\ ContractInv /\ LabelInv /\ StateInv /\ PlaceInv /\ OpenInv
      BY DEF MemoryInv
<1>1. /\ UNCHANGED <<call, bookVars>> /\ Active(t) /\ call[t].fn = "open"
      /\ \A u \in Threads \ {t} : pc'[u] = pc[u] /\ ret'[u] = ret[u] /\ ptr'[u] = ptr[u]
      BY <1>0, StepFrame DEF SlotStep, LabelInv, OpenClaim, OpenCreate, OpenRelease
<1>2. s \in Slots /\ call[t].id \in Granules /\ call[t].id \in Nat /\ call[t].id % Capacity = s
      BY <1>0, <1>1, SlotOfCall, ClientAssumption DEF Slot
<1>3. \A u \in Threads : Slot(u)' = Slot(u)
      BY <1>1 DEF Slot
\* Only a deregister can be at the same slot.
<1>4. \A u \in Threads \ {t} : Active(u) /\ Slot(u) = s => call[u].fn = "dealloc"
      BY <1>0, <1>1, OneSlot
<1>5. \A u \in Threads \ {t} :
          pc[u] \in {"open_create", "open_release"} \cup Detached => Slot(u) # s
      BY <1>0, <1>4 DEF LabelInv, Active, Detached
<1>p. phase[call[t].id] = "opening"
      BY <1>0, <1>1 DEF ContractInv, PhaseInv, Calling
<1>6. \A g \in Granules : phase[g] = "open" => g % Capacity # s
      BY <1>2, <1>p DEF SoundSlots
<1>t. /\ pc \in [Threads -> Labels] /\ ret \in [Threads -> Int]
      /\ occupied \in [Slots -> {0, 1}]
      /\ diag \in [Slots -> Cells \cup {Null}]
      /\ heap \in [Cells -> DiagType \cup {Null}]
      BY <1>0 DEF DiagTypeOK, ClientTypeOK
<1> HIDE DEF s
<1>7. CASE OpenClaim(t) /\ occupied[s] = 0
  <2>1. /\ UNCHANGED <<diag, heap, ptr, ret>>
        /\ occupied' = [occupied EXCEPT ![s] = 1]
        /\ pc' = [pc EXCEPT ![t] = "open_create"]
        /\ pc[t] = "open_cas" /\ diag[s] = Null
        BY <1>0, <1>2, <1>7 DEF OpenClaim, Goto, StateInv, s
  <2>2. StateInv'
        BY <1>0, <1>t, <2>1 DEF StateInv, InUseCells
  <2>3. PlaceInv'
        BY <1>0, <1>1, <1>2, <1>3, <1>5, <1>t, <2>1 DEF PlaceInv, Detached, s
  <2>4. OpenInv'
        BY <1>0, <1>1, <1>3, <1>t, <2>1 DEF OpenInv, bookVars, Calling, Active
  <2>5. KeptInv'
        BY <1>2, <1>3, <1>t, <2>1 DEF KeptInv, Detached, s
  <2> QED BY <2>2, <2>3, <2>4, <2>5 DEF PlacesInv
<1>8. CASE OpenClaim(t) /\ occupied[s] # 0
  <2>1. /\ UNCHANGED <<slotVars, heap, ptr>> /\ pc[t] = "open_cas"
        /\ pc'[t] = "ret" /\ ret'[t] = -1
        BY <1>t, <1>8 DEF OpenClaim, Answer, Goto, slotVars, s
  <2> QED BY <1>8, <2>1, QuietPlaces DEF SlotStep, Detached
<1>9. CASE OpenCreate(t) /\ pc'[t] = "ret"
  <2>1. PICK c \in Cells :
            /\ heap[c] = Null
            /\ heap' = [heap EXCEPT ![c] = NewDiag(call[t].id)]
            /\ diag' = [diag EXCEPT ![s] = c]
            /\ Answer(t, 0)
        BY <1>9, <1>t DEF OpenCreate, Goto, s
  <2>2. /\ UNCHANGED <<occupied, ptr>> /\ pc[t] = "open_create" /\ pc'[t] = "ret"
        BY <1>9, <1>t, <2>1 DEF OpenCreate, Answer, Goto
  <2>3. /\ NewDiag(call[t].id) # Null /\ NewDiag(call[t].id).granule_id = call[t].id
        /\ InBounds(NewDiag(call[t].id)) /\ c # Null
        /\ diag[s] = Null /\ occupied[s] = 1
        BY <1>0, <1>2, <2>2, NewDiagOK, DiagSlotsAssumption DEF DiagOK, PlaceInv, s
  <2>4. StateInv'
    <3>1. \A r \in Slots \ {s} : diag'[r] = diag[r] /\ (diag[r] # Null => diag[r] # c)
          BY <1>0, <1>t, <2>1 DEF StateInv
    <3>2. \A r \in Slots \ {s} : diag[r] # Null => heap'[diag[r]] = heap[diag[r]]
          BY <1>t, <2>1, <3>1
    <3>3. diag'[s] = c /\ heap'[c] = NewDiag(call[t].id)
          BY <1>2, <1>t, <2>1
    <3>4. \A e \in Cells : heap'[e] # Null => InBounds(heap'[e])
          BY <1>0, <1>t, <2>1, <2>3 DEF StateInv, InUseCells
    <3> QED BY <1>0, <1>2, <2>2, <2>3, <3>1, <3>2, <3>3, <3>4 DEF StateInv, InUseCells
  <2>5. PlaceInv'
    <3> SUFFICES ASSUME NEW u \in Threads \ {t}
                 PROVE  /\ pc[u] \in {"open_create", "open_release", "close_release"}
                              => occupied[Slot(u)] = 1 /\ diag'[Slot(u)] = Null
                        /\ pc[u] \in {"find_id", "add_alloc", "mark_freed", "close_take"}
                              => ptr[u] # Null /\ ptr[u] = diag'[Slot(u)]
                        /\ pc[u] \in Detached
                              => /\ diag'[Slot(u)] = Null
                                 /\ ptr[u] # Null /\ heap'[ptr[u]] # Null
                                 /\ heap'[ptr[u]].granule_id = call[u].id
        BY <1>1, <1>3, <2>2 DEF PlaceInv, Detached
    <3>1. Slot(u) # s => diag'[Slot(u)] = diag[Slot(u)]
          BY <1>t, <2>1
    <3>2. pc[u] \in Detached => ptr[u] # c /\ heap'[ptr[u]] = heap[ptr[u]]
          BY <1>0, <1>t, <2>1 DEF PlaceInv
    <3>3. pc[u] \in {"find_id", "add_alloc", "mark_freed", "close_take"} => Slot(u) # s
          BY <1>0, <2>3 DEF PlaceInv
    <3> QED BY <1>0, <1>5, <3>1, <3>2, <3>3 DEF PlaceInv, Detached
  <2>6. OpenInv'
    <3>1. \A r \in Slots : diag[r] # Null => diag'[r] # Null
          BY <1>t, <2>1, <2>3
    <3>2. diag'[s] # Null
          BY <1>2, <1>t, <2>1, <2>3
    <3>3. \A g \in Granules : g % Capacity \in Slots
          BY ClientAssumption DEF Slots
    <3>4. \A u \in Threads : Active(u) => Slot(u) \in Slots
          BY <1>0, SlotOfCall
    <3> QED BY <1>0, <1>1, <1>3, <2>2, <3>1, <3>2, <3>3, <3>4
            DEF OpenInv, bookVars, Calling, Active, s
  <2>7. KeptInv'
    <3>1. \A e \in Cells : heap'[e] # Null => e = c \/ heap[e] # Null
          BY <1>t, <2>1
    <3>2. \A r \in Slots : diag'[r] = IF r = s THEN c ELSE diag[r]
          BY <1>t, <2>1
    <3>3. \A u \in Threads : pc[u] \in Detached => u # t
          BY <2>2 DEF Detached
    <3>4. ASSUME NEW e \in Cells, heap'[e] # Null
          PROVE  \/ \E r \in Slots : diag'[r] = e
                 \/ \E u \in Threads : pc'[u] \in Detached /\ ptr'[u] = e
      <4>1. CASE e = c
            BY <1>2, <3>2, <4>1
      <4>2. CASE \E r \in Slots : diag[r] = e
            BY <2>3, <3>2, <4>2, DiagSlotsAssumption
      <4>3. CASE \E u \in Threads : pc[u] \in Detached /\ ptr[u] = e
            BY <1>1, <3>3, <4>3
      <4> QED BY <3>1, <3>4, <4>1, <4>2, <4>3 DEF KeptInv
    <3>5. ASSUME NEW r \in Slots, diag'[r] = Null, occupied'[r] = 1
          PROVE  \E u \in Threads :
                    Slot(u)' = r /\ pc'[u] \in {"open_create", "open_release", "close_release"}
      <4>1. r # s /\ diag[r] = Null /\ occupied[r] = 1
            BY <2>2, <2>3, <3>2, <3>5
      <4>2. PICK u \in Threads :
                Slot(u) = r /\ pc[u] \in {"open_create", "open_release", "close_release"}
            BY <4>1 DEF KeptInv
      <4> QED BY <1>1, <1>3, <4>1, <4>2 DEF s
    <3> QED BY <3>4, <3>5 DEF KeptInv
  <2> QED BY <2>4, <2>5, <2>6, <2>7 DEF PlacesInv
<1>10. CASE OpenCreate(t) /\ pc'[t] # "ret"
  <2>1. /\ UNCHANGED <<occupied, heap, ptr, ret>> /\ pc[t] = "open_create"
        /\ pc'[t] = "open_release" /\ diag' = [diag EXCEPT ![s] = Null]
        BY <1>10, <1>t DEF OpenCreate, Goto, Answer, s
  <2>2. diag[s] = Null /\ occupied[s] = 1
        BY <1>0, <2>1 DEF PlaceInv, s
  <2>3. UNCHANGED diag
        BY <1>2, <1>t, <2>1, <2>2
  <2>4. StateInv'
        BY <1>0, <2>1, <2>3 DEF StateInv, InUseCells
  <2>5. PlaceInv'
        BY <1>0, <1>1, <1>3, <2>1, <2>2, <2>3 DEF PlaceInv, Detached, s
  <2>6. OpenInv'
        BY <1>0, <1>1, <1>3, <2>1, <2>3 DEF OpenInv, bookVars, Calling, Active
  <2>7. KeptInv'
        BY <1>1, <1>3, <2>1, <2>3 DEF KeptInv, Detached
  <2> QED BY <2>4, <2>5, <2>6, <2>7 DEF PlacesInv
<1>11. CASE OpenRelease(t)
  <2>1. /\ UNCHANGED <<diag, heap, ptr>> /\ pc[t] = "open_release"
        /\ pc'[t] = "ret" /\ ret'[t] = -1 /\ occupied' = [occupied EXCEPT ![s] = 0]
        BY <1>11, <1>t DEF OpenRelease, Goto, Answer, s
  <2>2. diag[s] = Null
        BY <1>0, <2>1 DEF PlaceInv, s
  <2>3. StateInv'
        BY <1>0, <1>t, <2>1, <2>2 DEF StateInv, InUseCells
  <2>4. PlaceInv'
        BY <1>0, <1>1, <1>2, <1>3, <1>5, <1>t, <2>1 DEF PlaceInv, Detached, s
  <2>5. OpenInv'
        BY <1>0, <1>1, <1>3, <2>1 DEF OpenInv, bookVars, Calling, Active
  <2>6. KeptInv'
        BY <1>1, <1>3, <1>t, <2>1 DEF KeptInv, Detached, s
  <2> QED BY <2>3, <2>4, <2>5, <2>6 DEF PlacesInv
<1> QED BY <1>7, <1>8, <1>9, <1>10, <1>11

\* What get finds is the state of the granule of its call.
LEMMA FindPlaces ==
    ASSUME SoundSlots, MemoryInv, KeptInv, NEW t \in Threads,
           FindOccupied(t) \/ FindDiag(t) \/ FindId(t)
    PROVE  PlacesInv'
<1>0. DiagTypeOK /\ LabelInv /\ StateInv /\ PlaceInv /\ OpenInv
      BY DEF MemoryInv
<1>1. /\ Active(t) /\ call[t].fn \in {"close", "alloc", "dealloc"} /\ SlotStep(t)
      BY <1>0 DEF Active, LabelInv, FindOccupied, FindDiag, FindId, SlotStep
<1>2. Slot(t) \in Slots /\ call[t].id \in Granules /\ call[t].id % Capacity = Slot(t)
      BY <1>0, <1>1, SlotOfCall DEF Slot
<1>t. /\ pc \in [Threads -> Labels] /\ ret \in [Threads -> Int]
      /\ ptr \in [Threads -> Cells \cup {Null}] /\ diag \in [Slots -> Cells \cup {Null}]
      BY <1>0 DEF DiagTypeOK, ClientTypeOK
<1>3. call[t].fn = "close" /\ pc[t] \in {"find_occupied", "find_diag"} =>
          diag[Slot(t)] # Null /\ occupied[Slot(t)] # 0
      BY <1>0, <1>1, <1>2 DEF OpenInv, Calling, StateInv
<1>4. CASE FindOccupied(t)
  <2>1. /\ UNCHANGED <<slotVars, heap>> /\ pc[t] = "find_occupied"
        /\ pc'[t] \in {"ret", "find_diag"}
        BY <1>4, <1>t DEF FindOccupied, Answer, Goto
  <2> QED BY <1>1, <1>3, <2>1, QuietPlaces DEF Detached
<1>5. CASE FindDiag(t)
  <2>1. /\ UNCHANGED <<slotVars, heap>> /\ pc[t] = "find_diag"
        /\ \/ pc'[t] = "ret"
           \/ pc'[t] = "find_id" /\ diag[Slot(t)] # Null /\ ptr'[t] = diag[Slot(t)]
        BY <1>5, <1>t DEF FindDiag, Answer, Goto
  <2> QED BY <1>1, <1>3, <2>1, QuietPlaces DEF Detached
<1>6. CASE FindId(t)
  <2>1. /\ UNCHANGED <<slotVars, heap>> /\ pc[t] = "find_id"
        /\ ptr[t] # Null /\ ptr[t] = diag[Slot(t)]
        BY <1>0, <1>6 DEF FindId, PlaceInv
  <2>2. Reread(t, ptr[t]) = {ptr[t]}
        BY <2>1 DEF Reread
  <2>3. heap[ptr[t]].granule_id = call[t].id
        BY <1>0, <1>2, <2>1, SoundSlots DEF StateInv, SoundSlots
  <2>4. /\ ptr'[t] = ptr[t] /\ pc'[t] = AfterFind(call[t].fn)
        BY <1>6, <1>t, <2>1, <2>2, <2>3 DEF FindId, Goto
  <2>5. pc'[t] \in {"add_alloc", "mark_freed", "close_take"}
        BY <1>1, <2>4 DEF AfterFind
  <2> QED BY <1>1, <2>1, <2>4, <2>5, QuietPlaces DEF Detached
<1> QED BY <1>4, <1>5, <1>6

\* A register and a deregister change the records of the state in their slot.
LEMMA UpdatePlaces ==
    ASSUME MemoryInv, KeptInv, NEW t \in Threads, AllocAdd(t) \/ DeallocMark(t)
    PROVE  PlacesInv'
<1>0. DiagTypeOK /\ LabelInv /\ StateInv /\ PlaceInv /\ OpenInv
      BY DEF MemoryInv
<1>1. /\ UNCHANGED <<call, bookVars>> /\ Active(t) /\ SlotStep(t)
      /\ \A u \in Threads \ {t} : pc'[u] = pc[u] /\ ret'[u] = ret[u] /\ ptr'[u] = ptr[u]
      BY <1>0, StepFrame DEF SlotStep
<1>2. \A u \in Threads : Slot(u)' = Slot(u)
      BY <1>1 DEF Slot
<1>t. /\ pc \in [Threads -> Labels] /\ ret \in [Threads -> Int]
      /\ heap \in [Cells -> DiagType \cup {Null}]
      BY <1>0 DEF DiagTypeOK, ClientTypeOK
<1>3. /\ UNCHANGED <<slotVars, ptr>> /\ pc'[t] = "ret"
      /\ pc[t] \in {"add_alloc", "mark_freed"} /\ call[t].fn \in {"alloc", "dealloc"}
      BY <1>0, <1>t DEF LabelInv, AllocAdd, DeallocMark, Answer, Goto
<1> DEFINE c == ptr[t]
           d == heap[c]
<1>4. c \in Cells /\ d # Null /\ d \in DiagType /\ InBounds(d)
  <2>1. c \in Cells /\ d # Null
        BY <1>0, <1>3 DEF DiagTypeOK, PlaceInv, AllocAdd, DeallocMark
  <2> QED BY <1>0, <2>1, CellInUse DEF StateInv, InUseCells
<1>5. arg[t] \in AllocIds
      BY <1>1, <1>3 DEF MemoryInv, ArgInv, Calling
\* The state's records change, and nothing else.
<1>6. \/ heap' = heap
      \/ \E e \in DiagType : /\ heap' = [heap EXCEPT ![c] = e]
                             /\ e.granule_id = d.granule_id /\ InBounds(e)
  <2>1. CASE AllocAdd(t)
    <3>1. LET e == AddAlloc(d, arg[t])
          IN  e \in DiagType /\ e.granule_id = d.granule_id /\ InBounds(e)
          BY <1>4, <1>5, AddAllocRecords, AddAllocBounds
    <3> QED BY <2>1, <3>1 DEF AllocAdd, Update
  <2>2. CASE DeallocMark(t)
    <3>1. Matches(d, arg[t]) # {} =>
            LET e == MarkFreed(d, arg[t])
            IN  e \in DiagType /\ e.granule_id = d.granule_id /\ InBounds(e)
          BY <1>4, <1>5, MarkFreedRecords, MarkFreedBounds
    <3> QED BY <2>2, <3>1 DEF DeallocMark, Update
  <2> QED BY <2>1, <2>2
<1>7. \A e \in Cells : /\ heap'[e] # Null <=> heap[e] # Null
                       /\ heap[e] # Null => /\ heap'[e].granule_id = heap[e].granule_id
                                            /\ InBounds(heap[e]) => InBounds(heap'[e])
      BY <1>t, <1>4, <1>6, DiagSlotsAssumption
<1>8. StateInv'
  <2>1. \A s \in Slots : diag[s] # Null => diag[s] \in Cells
        BY <1>0 DEF DiagTypeOK
  <2> QED BY <1>0, <1>3, <1>7, <2>1 DEF StateInv, slotVars, InUseCells
<1>9. PlaceInv'
  <2>1. \A u \in Threads : ptr[u] # Null => ptr[u] \in Cells
        BY <1>0 DEF DiagTypeOK
  <2> QED BY <1>0, <1>1, <1>2, <1>3, <1>7, <2>1 DEF PlaceInv, slotVars, Detached
<1>10. OpenInv'
      BY <1>0, <1>1, <1>2, <1>3 DEF OpenInv, slotVars, bookVars, Calling, Active
<1>11. KeptInv'
      BY <1>1, <1>2, <1>3, <1>7 DEF KeptInv, slotVars, Detached
<1> QED BY <1>8, <1>9, <1>10, <1>11 DEF PlacesInv

\* A close empties its slot, gives it back, and frees what it took out of it.
LEMMA ClosePlaces ==
    ASSUME SoundSlots, MemoryInv, KeptInv, NEW t \in Threads,
           \/ CloseTake(t) \/ CloseRelease(t) \/ CloseLoad(t)
           \/ CloseReport(t) \/ ClosePush(t) \/ CloseDestroy(t)
    PROVE  PlacesInv'
<1> DEFINE s == Slot(t)
<1>0. DiagTypeOK /\ ContractInv /\ LabelInv /\ StateInv /\ PlaceInv /\ OpenInv
      BY DEF MemoryInv
<1>1. /\ UNCHANGED <<call, bookVars>> /\ Active(t) /\ call[t].fn = "close" /\ SlotStep(t)
      /\ \A u \in Threads \ {t} : pc'[u] = pc[u] /\ ret'[u] = ret[u] /\ ptr'[u] = ptr[u]
  <2>1. call[t].fn = "close" /\ SlotStep(t)
        BY <1>0 DEF SlotStep, LabelInv, Detached, CloseTake, CloseRelease, CloseLoad,
                    CloseReport, ClosePush, CloseDestroy
  <2> QED BY <1>0, <2>1, StepFrame
<1>2. s \in Slots /\ call[t].id \in Granules /\ call[t].id % Capacity = s
      BY <1>0, <1>1, SlotOfCall DEF Slot
<1>3. \A u \in Threads : Slot(u)' = Slot(u)
      BY <1>1 DEF Slot
\* Nobody else is at the slot.
<1>4. \A u \in Threads \ {t} : Active(u) => Slot(u) # s
      BY <1>0, <1>1, OneSlot
<1>5. \A g \in Granules : phase[g] = "open" => g % Capacity # s
      BY <1>0, <1>1, <1>2 DEF SoundSlots, ContractInv, PhaseInv, Calling
<1>t. /\ pc \in [Threads -> Labels] /\ ret \in [Threads -> Int]
      /\ occupied \in [Slots -> {0, 1}]
      /\ diag \in [Slots -> Cells \cup {Null}]
      /\ heap \in [Cells -> DiagType \cup {Null}]
      /\ ptr \in [Threads -> Cells \cup {Null}]
      BY <1>0 DEF DiagTypeOK, ClientTypeOK
<1>6. \A u \in Threads \ {t} :
          /\ pc[u] \in Labels \ {"idle"} => Slot(u) # s
          /\ Calling(u, "open") => Slot(u) # s
          /\ Calling(u, "close") => Slot(u) # s
      BY <1>4 DEF Active, Calling
<1> HIDE DEF s
<1>7. CASE CloseTake(t)
  <2>1. /\ pc[t] = "close_take" /\ UNCHANGED <<occupied, heap, ret>>
        /\ ptr[t] # Null /\ ptr[t] = diag[s] /\ pc' = [pc EXCEPT ![t] = "close_release"]
        /\ diag' = [diag EXCEPT ![s] = Null] /\ ptr'[t] = ptr[t]
        BY <1>0, <1>7, <1>t DEF CloseTake, PlaceInv, Reread, Goto, s
  <2>2. /\ occupied[s] = 1 /\ heap[ptr[t]] # Null
        /\ heap[ptr[t]].granule_id = call[t].id
        BY <1>0, <1>2, <1>t, <2>1 DEF StateInv, SoundSlots
  <2>3. StateInv'
        BY <1>0, <1>t, <2>1 DEF StateInv, InUseCells
  <2>4. PlaceInv'
    <3>1. \A u \in Threads \ {t} : Active(u) => diag'[Slot(u)] = diag[Slot(u)]
          BY <1>4, <1>t, <2>1
    <3>2. diag'[s] = Null
          BY <1>2, <1>t, <2>1
    <3> QED BY <1>0, <1>1, <1>3, <2>1, <2>2, <3>1, <3>2, <1>t DEF PlaceInv, Detached, Active, s
  <2>5. OpenInv'
    <3>1. \A r \in Slots \ {s} : diag'[r] = diag[r]
          BY <1>t, <2>1
    <3>2. \A g \in Granules : g % Capacity \in Slots
          BY ClientAssumption DEF Slots
    <3>3. \A u \in Threads : Active(u) => Slot(u) \in Slots
          BY <1>0, SlotOfCall
    <3> QED BY <1>0, <1>1, <1>3, <1>4, <1>5, <1>t, <2>1, <3>1, <3>2, <3>3
            DEF OpenInv, bookVars, Calling, Active, s
  <2>6. KeptInv'
    <3>1. ASSUME NEW c \in Cells, heap'[c] # Null
          PROVE  \/ \E r \in Slots : diag'[r] = c
                 \/ \E u \in Threads : pc'[u] \in Detached /\ ptr'[u] = c
      <4>1. CASE c = ptr[t]
            BY <1>t, <2>1, <4>1 DEF Detached
      <4>2. CASE \E r \in Slots : diag[r] = c /\ c # ptr[t]
            BY <1>t, <2>1, <4>2
      <4>3. CASE \E u \in Threads : pc[u] \in Detached /\ ptr[u] = c /\ c # ptr[t]
            BY <1>1, <4>3
      <4> QED BY <2>1, <3>1, <4>1, <4>2, <4>3 DEF KeptInv
    <3>2. ASSUME NEW r \in Slots, diag'[r] = Null, occupied'[r] = 1
          PROVE  \E u \in Threads :
                    Slot(u)' = r /\ pc'[u] \in {"open_create", "open_release", "close_release"}
      <4>1. CASE r = s
            BY <1>3, <1>t, <2>1, <4>1 DEF s
      <4>2. CASE r # s
        <5>1. diag[r] = Null /\ occupied[r] = 1
              BY <1>t, <2>1, <3>2, <4>2
        <5>2. PICK u \in Threads :
                  Slot(u) = r /\ pc[u] \in {"open_create", "open_release", "close_release"}
              BY <5>1 DEF KeptInv
        <5> QED BY <1>1, <1>3, <4>2, <5>2 DEF s
      <4> QED BY <4>1, <4>2
    <3> QED BY <3>1, <3>2 DEF KeptInv
  <2> QED BY <2>3, <2>4, <2>5, <2>6 DEF PlacesInv
<1>8. CASE CloseRelease(t)
  <2>1. /\ pc[t] = "close_release" /\ UNCHANGED <<diag, heap, ptr>>
        /\ occupied' = [occupied EXCEPT ![s] = 0]
        /\ ptr[t] # Null /\ diag[s] = Null
        /\ pc' = [pc EXCEPT ![t] = "close_load"]
        BY <1>0, <1>8 DEF CloseRelease, PlaceInv, Goto, Detached, s
  <2>2. StateInv'
        BY <1>0, <1>t, <2>1 DEF StateInv, InUseCells
  <2>3. PlaceInv'
        BY <1>0, <1>1, <1>3, <1>4, <1>t, <2>1 DEF PlaceInv, Detached, Active
  <2>4. OpenInv'
        BY <1>0, <1>1, <1>3, <1>t, <2>1 DEF OpenInv, bookVars, Calling, Active
  <2>5. KeptInv'
        BY <1>1, <1>3, <1>t, <2>1 DEF KeptInv, Detached, s
  <2> QED BY <2>2, <2>3, <2>4, <2>5 DEF PlacesInv
<1>9. CASE CloseLoad(t) \/ CloseReport(t) \/ ClosePush(t)
  <2>1. /\ UNCHANGED <<slotVars, heap, ptr>>
        /\ pc[t] \in Detached \ {"close_release", "close_destroy"}
        /\ pc'[t] \in Detached \ {"close_release"}
        BY <1>9, <1>t DEF CloseLoad, CloseReport, ClosePush, Goto, Detached
  <2> QED BY <1>1, <2>1, QuietPlaces DEF Detached
<1>10. CASE CloseDestroy(t)
  <2>1. /\ pc[t] = "close_destroy" /\ UNCHANGED <<slotVars, ptr>>
        /\ heap' = [heap EXCEPT ![ptr[t]] = Null]
        /\ pc' = [pc EXCEPT ![t] = "ret"] /\ ptr[t] \in Cells /\ ptr[t] # Null
        /\ heap[ptr[t]].granule_id = call[t].id /\ diag[s] = Null
        BY <1>0, <1>10, <1>t DEF CloseDestroy, PlaceInv, Goto, Detached, s
  <2>2. \A r \in Slots : diag[r] # Null => diag[r] # ptr[t] /\ diag[r] \in Cells
        BY <1>0, <1>2, <1>t, <2>1 DEF StateInv
  <2>3. \A u \in Threads \ {t} : pc[u] \in Detached => ptr[u] # ptr[t] /\ ptr[u] \in Cells
    <3> SUFFICES ASSUME NEW u \in Threads \ {t}, pc[u] \in Detached
                 PROVE  ptr[u] # ptr[t] /\ ptr[u] \in Cells
        OBVIOUS
    <3>1. /\ ptr[u] \in Cells /\ heap[ptr[u]].granule_id = call[u].id /\ Active(u)
          BY <1>0, <1>t DEF PlaceInv, Active, Detached
    <3>2. call[u].id # call[t].id
          BY <1>4, <3>1 DEF Slot, s
    <3> QED BY <2>1, <3>1, <3>2
  <2>4. \A c \in Cells \ {ptr[t]} : heap'[c] = heap[c]
        BY <1>t, <2>1
  <2>5. heap'[ptr[t]] = Null
        BY <1>t, <2>1
  <2>6. StateInv'
        BY <1>0, <2>1, <2>2, <2>4, <2>5 DEF StateInv, slotVars, InUseCells
  <2>7. PlaceInv'
        BY <1>0, <1>1, <1>3, <1>t, <2>1, <2>3, <2>4 DEF PlaceInv, slotVars, Detached
  <2>8. OpenInv'
        BY <1>0, <1>1, <1>3, <1>t, <2>1 DEF OpenInv, slotVars, bookVars, Calling, Active
  <2>9. KeptInv'
        BY <1>1, <1>3, <1>t, <2>1, <2>4, <2>5 DEF KeptInv, slotVars, Detached
  <2> QED BY <2>6, <2>7, <2>8, <2>9 DEF PlacesInv
<1> QED BY <1>7, <1>8, <1>9, <1>10

\* An operation of the slots keeps the invariant.
LEMMA StepMemory ==
    ASSUME SoundSlots, MemoryInv, NEW t \in Threads, SlotStep(t)
    PROVE  MemoryInv'
<1>1. DiagTypeOK' /\ LabelInv'
      BY StepType, StepFrame DEF MemoryInv
<1>2. /\ UNCHANGED <<call, bookVars, arg>> /\ Active(t) /\ Active(t)'
      /\ \A u \in Threads \ {t} : pc'[u] = pc[u]
      BY StepFrame DEF MemoryInv
<1>3. ContractInv'
  <2>1. \A u \in Threads : Active(u)' = Active(u)
        BY <1>2 DEF Active
  <2> QED BY <1>2, <2>1, StepContract DEF MemoryInv
<1>4. ArgInv'
      BY <1>2 DEF MemoryInv, ArgInv, Calling, Active
<1>5. PlacesInv'
  <2>1. KeptInv
        BY KeptIffNoLeak DEF MemoryInv
  <2> QED BY <2>1, OpenPlaces, FindPlaces, UpdatePlaces, ClosePlaces DEF SlotStep
<1>6. NoLeak'
      BY <1>1, <1>3, <1>5, KeptNext DEF PlacesInv
<1> QED BY <1>1, <1>3, <1>4, <1>5, <1>6 DEF PlacesInv, MemoryInv

-----------------------------------------------------------------------------
(* Calls and answers                                                       *)

\* What a call changes.
LEMMA CallSteps ==
    ASSUME DiagTypeOK, NEW t \in Threads, Call(t)
    PROVE  /\ PcIsFun
           /\ \E g \in Granules : ClientCall(t, g, "open_cas", "find_occupied")
           /\ pc[t] = "idle"
           /\ pc' = [pc EXCEPT ![t] = IF call'[t].fn = "open" THEN "open_cas" ELSE "find_occupied"]
           /\ call'[t] \in Calls
           /\ \A u \in Threads \ {t} : call'[u] = call[u]
           /\ UNCHANGED <<ret, slotVars, heap, ptr, report, failures>>
<1>1. PcIsFun /\ ClientTypeOK
      BY DEF DiagTypeOK, PcIsFun
<1>2. PICK g \in Granules : ClientCall(t, g, "open_cas", "find_occupied")
      BY DEF Call, RegisterCall, DeregisterCall, ClientCall
<1> QED BY <1>1, <1>2, CallFrame DEF Call

\* A call keeps the invariant.
LEMMA CallMemory ==
    ASSUME SoundSlots, MemoryInv, NEW t \in Threads, Call(t)
    PROVE  MemoryInv'
<1>0. /\ DiagTypeOK /\ ContractInv /\ LabelInv /\ ArgInv
      /\ StateInv /\ PlaceInv /\ OpenInv /\ KeptInv
      BY KeptIffNoLeak DEF MemoryInv
<1>1. /\ PcIsFun /\ ClientTypeOK
      /\ pc[t] = "idle"
      /\ pc' = [pc EXCEPT ![t] = IF call'[t].fn = "open" THEN "open_cas" ELSE "find_occupied"]
      /\ call'[t] \in Calls
      /\ \A u \in Threads \ {t} : call'[u] = call[u]
      /\ UNCHANGED <<ret, slotVars, heap, ptr, report, failures>>
      BY <1>0, CallSteps DEF DiagTypeOK
<1>2. PICK g \in Granules : ClientCall(t, g, "open_cas", "find_occupied")
      BY <1>0, CallSteps
<1>3. ClientTypeOK' /\ ContractInv'
      BY <1>0, <1>1, <1>2, CallType, CallContract
<1>t. pc \in [Threads -> Labels] /\ arg \in [Threads -> AllocIds \cup {Null}]
      BY <1>0 DEF DiagTypeOK
<1>4. /\ pc'[t] \in {"open_cas", "find_occupied"}
      /\ pc'[t] = "open_cas" <=> call'[t].fn = "open"
      /\ \A u \in Threads \ {t} : pc'[u] = pc[u]
      BY <1>1, <1>t
<1>5. /\ arg' \in [Threads -> AllocIds \cup {Null}]
      /\ owner' \in [AllocIds -> Granules \cup {Null}] /\ late' \subseteq AllocIds
      /\ \A u \in Threads \ {t} : arg'[u] = arg[u]
      /\ call'[t].fn \in {"alloc", "dealloc"} => arg'[t] \in AllocIds
  <2>1. PICK h \in Granules :
           \/ /\ CallOpen(t, h, "open_cas") \/ CallClose(t, h, "find_occupied")
              /\ UNCHANGED <<arg, owner, late>>
           \/ RegisterCall(t, h, "find_occupied")
           \/ DeregisterCall(t, h, "find_occupied")
        BY DEF Call
  <2>2. CASE (CallOpen(t, h, "open_cas") \/ CallClose(t, h, "find_occupied"))
             /\ UNCHANGED <<arg, owner, late>>
    <3>1. call'[t].fn \in {"open", "close"}
          BY <1>0, <2>2 DEF CallOpen, CallClose, Enter, DiagTypeOK, ClientTypeOK
    <3> QED BY <1>0, <2>2, <3>1 DEF DiagTypeOK
  <2>3. CASE RegisterCall(t, h, "find_occupied")
    <3>1. PICK a \in FreshIds : arg' = [arg EXCEPT ![t] = a]
          BY <2>3 DEF RegisterCall, Pass
    <3>2. a \in AllocIds /\ UNCHANGED <<owner, late>>
          BY <2>3 DEF FreshIds, RegisterCall
    <3> QED BY <1>0, <1>t, <3>1, <3>2 DEF DiagTypeOK
  <2>4. CASE DeregisterCall(t, h, "find_occupied")
    <3>1. PICK a \in AllocIds : /\ arg' = [arg EXCEPT ![t] = a]
                                /\ owner' = [owner EXCEPT ![a] = Null]
          BY <2>4 DEF DeregisterCall, HeldIn, StaleIn, Pass
    <3>2. late' \subseteq late
          BY <2>4 DEF DeregisterCall
    <3> QED BY <1>0, <1>t, <3>1, <3>2 DEF DiagTypeOK
  <2> QED BY <2>1, <2>2, <2>3, <2>4
<1>6. DiagTypeOK'
  <2>1. pc' \in [Threads -> Labels]
        BY <1>1, <1>t DEF Labels
  <2> QED BY <1>0, <1>1, <1>3, <1>5, <2>1 DEF DiagTypeOK, slotVars
<1>7. LabelInv'
      BY <1>0, <1>1, <1>4 DEF LabelInv, Detached, Calls
<1>8. ArgInv'
      BY <1>0, <1>1, <1>4, <1>5 DEF ArgInv, Calling, Active
<1>9. \A u \in Threads \ {t} : Slot(u)' = Slot(u)
      BY <1>1 DEF Slot
<1>10. StateInv'
      BY <1>0, <1>1 DEF StateInv, slotVars, InUseCells
<1>11. PlaceInv'
      BY <1>0, <1>1, <1>4, <1>9 DEF PlaceInv, slotVars, Detached
<1>12. OpenInv'
  <2>1. \A h \in Granules : phase'[h] = "open" => phase[h] = "open"
        BY <1>0, <1>2 DEF DiagTypeOK, ClientTypeOK, ClientCall, bookVars, CallOpen, CallClose,
                          CallAlloc, CallDealloc, CallLateDealloc
  <2>2. call'[t].fn = "close" => call'[t].id \in Granules /\ phase[call'[t].id] = "open"
        BY <1>0, <1>2 DEF DiagTypeOK, ClientTypeOK, ClientCall, Enter, CallOpen, CallClose,
                          CallAlloc, CallDealloc, CallLateDealloc
  <2>3. call'[t].fn = "close" => diag[Slot(t)'] # Null
        BY <1>0, <2>2 DEF OpenInv, Slot
  <2> QED BY <1>0, <1>1, <1>4, <1>9, <2>1, <2>3 DEF OpenInv, slotVars, Calling, Active
<1>13. NoLeak'
  <2>1. KeptInv'
        BY <1>0, <1>1, <1>4, <1>9 DEF KeptInv, slotVars, Detached
  <2> QED BY <1>3, <1>6, <1>7, <1>10, <1>11, <2>1, KeptNext
<1> QED BY <1>3, <1>6, <1>7, <1>8, <1>10, <1>11, <1>12, <1>13 DEF MemoryInv

\* What an answer changes.
LEMMA ReturnSteps ==
    ASSUME DiagTypeOK, NEW t \in Threads, Return(t)
    PROVE  /\ PcIsFun /\ Active(t) /\ ClientReturn(t) /\ pc[t] = "ret"
           /\ pc' = [pc EXCEPT ![t] = "idle"] /\ ~Active(t)' /\ call'[t] = NoCall
           /\ \A u \in Threads \ {t} : /\ pc'[u] = pc[u] /\ call'[u] = call[u]
                                       /\ ret'[u] = ret[u] /\ ptr'[u] = ptr[u]
                                       /\ arg'[u] = arg[u]
           /\ ptr' = [ptr EXCEPT ![t] = Null] /\ arg' = [arg EXCEPT ![t] = Null]
           /\ UNCHANGED <<slotVars, heap, report, failures>>
<1>1. PcIsFun /\ ClientTypeOK /\ Active(t) /\ ClientReturn(t) /\ pc[t] = "ret"
      BY DEF DiagTypeOK, PcIsFun, Return, Active
<1>2. /\ ptr' = [ptr EXCEPT ![t] = Null] /\ arg' = [arg EXCEPT ![t] = Null]
      /\ UNCHANGED <<slotVars, heap, report, failures>>
      BY DEF Return, ListReturn
<1>3. /\ pc' = [pc EXCEPT ![t] = "idle"] /\ call'[t] = NoCall
      /\ \A u \in Threads \ {t} : pc'[u] = pc[u] /\ call'[u] = call[u] /\ ret'[u] = ret[u]
      BY <1>1, ReturnFrame
<1> QED BY <1>1, <1>2, <1>3 DEF DiagTypeOK, Active

\* An answer keeps the invariant.
LEMMA ReturnMemory ==
    ASSUME SoundSlots, MemoryInv, NEW t \in Threads, Return(t)
    PROVE  MemoryInv'
<1>0. /\ DiagTypeOK /\ ContractInv /\ LabelInv /\ ArgInv
      /\ StateInv /\ PlaceInv /\ OpenInv /\ KeptInv
      BY KeptIffNoLeak DEF MemoryInv
<1>1. /\ PcIsFun /\ Active(t) /\ ClientReturn(t) /\ pc[t] = "ret"
      /\ pc' = [pc EXCEPT ![t] = "idle"] /\ ~Active(t)' /\ call'[t] = NoCall
      /\ \A u \in Threads \ {t} : /\ pc'[u] = pc[u] /\ call'[u] = call[u]
                                  /\ ret'[u] = ret[u] /\ ptr'[u] = ptr[u] /\ arg'[u] = arg[u]
      /\ ptr' = [ptr EXCEPT ![t] = Null] /\ arg' = [arg EXCEPT ![t] = Null]
      /\ UNCHANGED <<slotVars, heap, report, failures>>
      BY <1>0, ReturnSteps
<1>2. ClientTypeOK' /\ ContractInv'
      BY <1>0, <1>1, ReturnType, ReturnContract DEF DiagTypeOK
<1>3. call[t] \in Calls /\ call[t].id \in Granules
      BY <1>0, <1>1, SlotOfCall
<1>t. pc \in [Threads -> Labels]
      BY <1>0 DEF DiagTypeOK
<1>4. pc'[t] = "idle"
      BY <1>1, <1>t
<1>5. DiagTypeOK'
  <2>1. pc' \in [Threads -> Labels] /\ ptr' \in [Threads -> Cells \cup {Null}]
        /\ arg' \in [Threads -> AllocIds \cup {Null}]
        BY <1>0, <1>1 DEF DiagTypeOK, Labels
  <2>2. call[t].fn = "alloc" => arg[t] \in AllocIds
        BY <1>0, <1>1 DEF ArgInv, Calling
  <2>3. owner' \in [AllocIds -> Granules \cup {Null}]
        BY <1>0, <1>3, <2>2 DEF Return, ListReturn, DiagTypeOK
  <2>4. late' \subseteq AllocIds
        BY <1>0, <2>2 DEF Return, ListReturn, DiagTypeOK, HeldIn
  <2> QED BY <1>0, <1>1, <1>2, <2>1, <2>3, <2>4 DEF DiagTypeOK, slotVars
<1>6. LabelInv'
      BY <1>0, <1>1, <1>4 DEF LabelInv, Detached
<1>7. ArgInv'
      BY <1>0, <1>1, <1>4 DEF ArgInv, Calling, Active
<1>8. \A u \in Threads \ {t} : Slot(u)' = Slot(u)
      BY <1>1 DEF Slot
<1>9. StateInv'
      BY <1>0, <1>1 DEF StateInv, slotVars, InUseCells
<1>10. PlaceInv'
      BY <1>0, <1>1, <1>4, <1>8 DEF PlaceInv, slotVars, Detached
<1>11. OpenInv'
  <2>1. \A g \in Granules : phase'[g] = "open" =>
            phase[g] = "open" \/ (g = call[t].id /\ call[t].fn = "open" /\ ret[t] = 0)
        BY <1>0, <1>1, <1>3 DEF DiagTypeOK, ClientTypeOK, ClientReturn
  <2>2. call[t].fn = "open" /\ ret[t] = 0 => diag[call[t].id % Capacity] # Null
        BY <1>0, <1>1 DEF OpenInv, Calling, Slot
  <2> QED BY <1>0, <1>1, <1>4, <1>8, <2>1, <2>2 DEF OpenInv, slotVars, Calling, Active
<1>12. NoLeak'
  <2>1. KeptInv'
        BY <1>0, <1>1, <1>4, <1>8 DEF KeptInv, slotVars, Detached
  <2> QED BY <1>2, <1>5, <1>6, <1>9, <1>10, <2>1, KeptNext
<1> QED BY <1>2, <1>5, <1>6, <1>7, <1>9, <1>10, <1>11, <1>12 DEF MemoryInv

-----------------------------------------------------------------------------
(* The theorems                                                            *)

\* The inductive invariant holds at first
LEMMA MemoryInit == Init => MemoryInv
<1> SUFFICES ASSUME Init PROVE MemoryInv
    OBVIOUS
<1> USE DEF Init, DiagSlotsInit, ClientInit, Active, Calling
<1>1. DiagTypeOK
      BY ClientAssumption DEF DiagTypeOK, ClientTypeOK, Labels
<1>2. ContractInv
      BY ContractInit
<1>3. LabelInv /\ ArgInv /\ PlaceInv /\ OpenInv
      BY DEF LabelInv, ArgInv, PlaceInv, OpenInv, Detached
<1>4. StateInv
      BY DEF StateInv, InUseCells
<1>5. NoLeak
      BY DEF NoLeak, InUseCells, InSlots, InHands, Detached
<1> QED BY <1>1, <1>2, <1>3, <1>4, <1>5 DEF MemoryInv

\* and after every step.
LEMMA MemoryNext == ASSUME SoundSlots PROVE MemoryInv /\ [Next]_vars => MemoryInv'
<1> SUFFICES ASSUME MemoryInv, [Next]_vars PROVE MemoryInv'
    OBVIOUS
<1>1. CASE UNCHANGED vars
      BY <1>1 DEF MemoryInv, vars, diagVars, slotVars, localVars, clientVars, bookVars,
           DiagTypeOK, ClientTypeOK, ContractInv, PhaseInv, AloneInv, UnopenedInv, LabelInv,
           ArgInv, StateInv, PlaceInv, OpenInv, NoLeak, InUseCells, InSlots, InHands,
           Active, Calling, Slot
<1> QED BY <1>1, CallMemory, ReturnMemory, StepMemory DEF Next, Step

\* It implies that the pointers in use are good
LEMMA MemorySafe == ASSUME SoundSlots, MemoryInv PROVE SafeAccess
<1> SUFFICES ASSUME NEW t \in Threads, NEW p \in Follows(t)
             PROVE  p # Null /\ heap[p] # Null /\ (pc[t] \in Using => heap[p].granule_id = call[t].id)
    BY DEF SafeAccess
<1> USE DEF MemoryInv
<1>1. CASE pc[t] \in Detached
      BY <1>1 DEF PlaceInv, Follows, Using, Detached
<1>2. CASE pc[t] \in {"find_id", "add_alloc", "mark_freed", "close_take"}
  <2>1. Active(t) /\ ptr[t] # Null /\ ptr[t] = diag[Slot(t)] /\ p = ptr[t]
        BY <1>2 DEF PlaceInv, Follows, Reread, Using, Detached, Active
  <2>2. Slot(t) \in Slots /\ call[t].id \in Granules
        BY <2>1, SlotOfCall
  <2> QED BY <2>1, <2>2 DEF StateInv, SoundSlots, Slot
<1> QED BY <1>1, <1>2 DEF Follows, Using

\* and that a closer's state is in nobody else's hands.
LEMMA MemoryExtraction == ASSUME MemoryInv PROVE ExtractionSafe
<1> SUFFICES ASSUME NEW t \in Threads, NEW u \in Threads \ {t}, pc[t] \in Detached,
                    pc[u] \in Using \cup {"find_id"}
             PROVE  ptr[u] # ptr[t]
    BY DEF ExtractionSafe
<1> USE DEF MemoryInv
<1>1. CASE pc[u] \in Detached
      BY <1>1 DEF NoLeak
<1>2. CASE pc[u] \in {"find_id", "add_alloc", "mark_freed", "close_take"}
  <2>1. Active(u) /\ ptr[u] # Null /\ ptr[u] = diag[Slot(u)]
        BY <1>2 DEF PlaceInv, Active
  <2>2. Slot(u) \in Slots
        BY <2>1, SlotOfCall
  <2> QED BY <2>1, <2>2 DEF NoLeak, InSlots, InHands
<1> QED BY <1>1, <1>2 DEF Using

\* The inductive invariant holds in every state of every instance.
THEOREM MemoryInvariant == ASSUME SoundSlots PROVE Spec => []MemoryInv
BY MemoryInit, MemoryNext, PTL DEF Spec

\* Every variable has its type.
THEOREM DiagTypeCorrect == ASSUME SoundSlots PROVE Spec => []DiagTypeOK
<1>1. MemoryInv => DiagTypeOK
      BY DEF MemoryInv
<1> QED BY <1>1, MemoryInvariant, PTL

\* No thread follows a pointer to freed memory, and the state it works on is that
\* of its granule, although nothing holds the state between the lookup and its use.
THEOREM AccessIsSafe == ASSUME SoundSlots PROVE Spec => []SafeAccess
<1>1. MemoryInv => SafeAccess
      BY MemorySafe
<1> QED BY <1>1, MemoryInvariant, PTL

\* The claim of the comment in drainprof_slot_array_diag_close holds.
THEOREM ExtractionIsSafe == ASSUME SoundSlots PROVE Spec => []ExtractionSafe
<1>1. MemoryInv => ExtractionSafe
      BY MemoryExtraction
<1> QED BY <1>1, MemoryInvariant, PTL

\* No granule state is leaked or freed twice, and no slot stays blocked, whichever
\* of the allocations fail.
THEOREM NothingLeaks == ASSUME SoundSlots PROVE Spec => []NoLeak
<1>1. MemoryInv => NoLeak
      BY DEF MemoryInv
<1> QED BY <1>1, MemoryInvariant, PTL

-----------------------------------------------------------------------------
(* The records of an open granule are the client's own list of its         *)
(* allocations, and so the verdict and the report of its close are right,  *)
(* for every instance in which no two ids share a slot; and DiagSlots      *)
(* implements GranuleLedger.                                               *)

\* A thread is in a call for granule g.
On(t, g) == Active(t) /\ call[t].id = g

\* A state on the heap is in the slot of its granule, or in the hands of the close
\* of its granule.
LEMMA WhereStatesAre ==
    ASSUME SoundSlots, MemoryInv, NEW c \in Cells, heap[c] # Null
    PROVE  /\ heap[c] \in DiagType /\ heap[c].granule_id \in Granules
           /\ \/ diag[heap[c].granule_id % Capacity] = c
              \/ \E t \in Threads : /\ pc[t] \in Detached /\ ptr[t] = c
                                    /\ On(t, heap[c].granule_id) /\ call[t].fn = "close"
                                    /\ diag[heap[c].granule_id % Capacity] = Null
<1> USE DEF MemoryInv
<1>1. KeptInv
      BY KeptIffNoLeak
<1>2. CASE \E s \in Slots : diag[s] = c
      BY <1>2, CellInUse, DiagSlotsAssumption DEF StateInv
<1>3. CASE \E t \in Threads : pc[t] \in Detached /\ ptr[t] = c
  <2>1. PICK t \in Threads : pc[t] \in Detached /\ ptr[t] = c
        BY <1>3
  <2>2. Active(t) /\ call[t].fn = "close"
        BY <2>1 DEF Detached, Active, LabelInv
  <2> QED BY <2>1, <2>2, CellInUse, SlotOfCall DEF PlaceInv, Slot, On
<1> QED BY <1>1, <1>2, <1>3 DEF KeptInv

\* A granule has one state at most,
LEMMA OneState ==
    ASSUME SoundSlots, MemoryInv, NEW c \in Cells, NEW e \in Cells,
           heap[c] # Null, heap[e] # Null, heap[c].granule_id = heap[e].granule_id
    PROVE  c = e
BY WhereStatesAre, DiagSlotsAssumption DEF MemoryInv, ContractInv, AloneInv, On

\* and none when its slot is empty and no close has it.
LEMMA NoState ==
    ASSUME SoundSlots, MemoryInv, NEW g \in Granules, diag[g % Capacity] = Null,
           \A t \in Threads : pc[t] \in Detached => ~On(t, g),
           NEW c \in Cells, heap[c] # Null
    PROVE  heap[c].granule_id # g
BY WhereStatesAre, DiagSlotsAssumption

\* The state in the hands of a close is that of its granule.
LEMMA StateOfUse ==
    ASSUME SoundSlots, MemoryInv, NEW t \in Threads, pc[t] \in Using
    PROVE  /\ ptr[t] \in Cells /\ ptr[t] # Null /\ heap[ptr[t]] # Null
           /\ heap[ptr[t]] \in DiagType /\ heap[ptr[t]].granule_id = call[t].id
           /\ On(t, call[t].id) /\ call[t] \in Calls /\ call[t].id \in Granules
<1>1. SafeAccess /\ DiagTypeOK
      BY MemorySafe DEF MemoryInv
<1>2. Active(t)
      BY DEF Using, Detached, Active
<1>3. ptr[t] # Null /\ heap[ptr[t]] # Null /\ heap[ptr[t]].granule_id = call[t].id
  <2>1. ptr[t] \in Follows(t)
        BY DEF Follows, Using, Detached
  <2> QED BY <1>1, <2>1 DEF SafeAccess
<1> QED BY <1>1, <1>2, <1>3, SlotOfCall, CellInUse DEF DiagTypeOK, On

\* Nobody else is in a call for a granule that is being closed.
LEMMA CloserAlone ==
    ASSUME MemoryInv, NEW t \in Threads, Calling(t, "close"), NEW u \in Threads \ {t}
    PROVE  ~On(u, call[t].id)
BY DEF MemoryInv, ContractInv, AloneInv, Calling, On

\* A lookup that sees a state in its slot sees that of its granule.
LEMMA FindIdFinds ==
    ASSUME SoundSlots, MemoryInv, NEW t \in Threads, FindId(t)
    PROVE  pc'[t] \in {"close_take", "add_alloc", "mark_freed"}
<1> USE DEF MemoryInv
<1>1. pc[t] = "find_id" /\ ptr[t] # Null /\ ptr[t] = diag[Slot(t)]
      BY DEF FindId, PlaceInv
<1>2. Active(t) /\ call[t].fn \in {"close", "alloc", "dealloc"}
      BY <1>1 DEF Active, LabelInv
<1>3. Slot(t) \in Slots /\ call[t].id \in Granules
      BY <1>2, SlotOfCall
<1>4. heap[ptr[t]].granule_id = call[t].id
      BY <1>1, <1>3 DEF StateInv, SoundSlots, Slot
<1>5. pc'[t] = AfterFind(call[t].fn)
  <2>1. Reread(t, ptr[t]) = {ptr[t]}
        BY <1>1 DEF Reread
  <2>2. pc \in [Threads -> Labels]
        BY DEF DiagTypeOK
  <2> QED BY <1>1, <1>4, <2>1, <2>2 DEF FindId, Goto
<1> QED BY <1>2, <1>5 DEF AfterFind

\* A close finds its granule: it answers when it has destroyed the state.
LEMMA CloserReturns ==
    ASSUME SoundSlots, MemoryInv, NEW t \in Threads, SlotStep(t), call[t].fn = "close",
           pc'[t] = "ret"
    PROVE  CloseDestroy(t)
<1> USE DEF MemoryInv
<1>1. Active(t) /\ Calling(t, "close")
      BY StepFrame DEF Calling
<1>2. Slot(t) \in Slots
      BY <1>1, SlotOfCall
<1>t. pc \in [Threads -> Labels]
      BY DEF DiagTypeOK
<1>3. ~FindOccupied(t) /\ ~FindDiag(t)
  <2>1. pc[t] \in {"find_occupied", "find_diag"} => diag[Slot(t)] # Null /\ occupied[Slot(t)] # 0
        BY <1>1, <1>2 DEF OpenInv, StateInv
  <2> QED BY <1>t, <2>1 DEF FindOccupied, FindDiag, Goto
<1>4. ~FindId(t)
      BY FindIdFinds
<1>5. ~CloseRelease(t)
  <2>1. pc[t] = "close_release" => ptr[t] # Null
        BY DEF PlaceInv, Detached
  <2> QED BY <1>t, <2>1 DEF CloseRelease, Goto
<1>6. ~CloseTake(t) /\ ~CloseLoad(t) /\ ~CloseReport(t) /\ ~ClosePush(t)
      BY <1>t DEF CloseTake, CloseLoad, CloseReport, ClosePush, Goto
<1>7. /\ ~OpenClaim(t) /\ ~OpenCreate(t) /\ ~OpenRelease(t)
      /\ ~AllocAdd(t) /\ ~DeallocMark(t)
      BY DEF LabelInv, OpenClaim, OpenCreate, OpenRelease, AllocAdd, DeallocMark
<1> QED BY <1>3, <1>4, <1>5, <1>6, <1>7 DEF SlotStep

-----------------------------------------------------------------------------
(* Operations of the slots                                                 *)

\* The client's list stays.
LEMMA StepList ==
    ASSUME MemoryInv, ListInv, NEW t \in Threads, SlotStep(t)
    PROVE  /\ ListInv'
           /\ \A g : HeldIn(g)' = HeldIn(g) /\ \A fn : CallsFor(g, fn)' = CallsFor(g, fn)
<1>1. /\ UNCHANGED <<call, bookVars, arg, owner, late>> /\ Active(t) /\ Active(t)'
      /\ \A u \in Threads \ {t} : pc'[u] = pc[u]
      BY StepFrame DEF MemoryInv
<1>2. \A u \in Threads : Active(u)' = Active(u) /\ \A fn : Calling(u, fn)' = Calling(u, fn)
      BY <1>1 DEF Active, Calling
<1>3. \A g : HeldIn(g)' = HeldIn(g)
      BY <1>1 DEF HeldIn
<1>4. \A g, fn : CallsFor(g, fn)' = CallsFor(g, fn)
      BY <1>1, <1>2 DEF CallsFor
<1>5. ListInv'
      BY <1>1, <1>2, <1>3 DEF ListInv, bookVars
<1> QED BY <1>3, <1>4, <1>5

\* A slot is filled by the open of its granule only.
LEMMA StepEmpty ==
    ASSUME SoundSlots, MemoryInv, EmptyInv, NEW t \in Threads, SlotStep(t)
    PROVE  EmptyInv'
<1> DEFINE s == Slot(t)
<1>0. DiagTypeOK /\ ContractInv /\ LabelInv /\ PlaceInv
      BY DEF MemoryInv
<1>1. /\ UNCHANGED <<call, bookVars>> /\ Active(t) /\ Active(t)'
      /\ \A u \in Threads \ {t} : pc'[u] = pc[u] /\ ret'[u] = ret[u]
      BY <1>0, StepFrame
<1>2. /\ \A u \in Threads : /\ Active(u)' = Active(u) /\ Slot(u)' = Slot(u)
                            /\ \A fn : Calling(u, fn)' = Calling(u, fn)
      /\ s \in Slots /\ call[t].id \in Granules /\ call[t].id % Capacity = s
      BY <1>0, <1>1, SlotOfCall DEF Active, Calling, Slot
<1>t. /\ diag \in [Slots -> Cells \cup {Null}] /\ pc \in [Threads -> Labels]
      /\ ret \in [Threads -> Int]
      BY <1>0 DEF DiagTypeOK, ClientTypeOK
<1>3. CASE OpenCreate(t)
  <2>1. \A r \in Slots \ {s} : diag'[r] = diag[r]
        BY <1>3, <1>t DEF OpenCreate
  <2>2. Calling(t, "open") /\ phase[call[t].id] = "opening"
        BY <1>0, <1>1, <1>3 DEF OpenCreate, LabelInv, Calling, ContractInv, PhaseInv
  <2>3. \A g \in Granules : phase[g] = "closed" => g % Capacity # s /\ g % Capacity \in Slots
    <3>1. \A g \in Granules : g % Capacity = s => g = call[t].id
          BY <1>2 DEF SoundSlots
    <3>2. \A g \in Granules : g % Capacity \in Slots
          BY ClientAssumption DEF Slots
    <3> HIDE DEF s
    <3> QED BY <2>2, <3>1, <3>2
  <2>4. \A u \in Threads \ {t} : Calling(u, "open") \/ Calling(u, "close") =>
            Slot(u) # s /\ Slot(u) \in Slots
        BY <1>0, <1>1, <2>2, OneSlot, SlotOfCall DEF Calling
  <2>5. ~(pc'[t] = "ret" /\ ret'[t] = 0) => diag'[s] = Null
        BY <1>2, <1>3, <1>t DEF OpenCreate, Answer, Goto
  <2> QED BY <1>1, <1>2, <2>1, <2>2, <2>3, <2>4, <2>5 DEF EmptyInv, bookVars, Calling
<1>4. CASE ~OpenCreate(t)
  <2>1. diag' = diag \/ diag' = [diag EXCEPT ![s] = Null]
        BY <1>4 DEF SlotStep, slotVars, OpenClaim, OpenRelease, FindOccupied, FindDiag, FindId,
             AllocAdd, DeallocMark, CloseTake, CloseRelease, CloseLoad, CloseReport, ClosePush,
             CloseDestroy
  <2>2. \A r \in Slots : diag[r] = Null => diag'[r] = Null
        BY <1>2, <1>t, <2>1
  <2>3. \A g \in Granules : g % Capacity \in Slots
        BY ClientAssumption DEF Slots
  <2>4. \A u \in Threads : Active(u) => Slot(u) \in Slots
        BY <1>0, SlotOfCall
  <2>5. call[t].fn = "open" => ~(pc[t] = "ret" /\ ret[t] = 0)
        BY DEF SlotStep, OpenClaim, OpenCreate, OpenRelease, FindOccupied, FindDiag, FindId,
             AllocAdd, DeallocMark, CloseTake, CloseRelease, CloseLoad, CloseReport, ClosePush,
             CloseDestroy
  <2>6. call[t].fn = "close" /\ pc'[t] = "ret" => diag[s] = Null
        BY <1>0, CloserReturns DEF CloseDestroy, PlaceInv, Detached
  <2> QED BY <1>1, <1>2, <2>2, <2>3, <2>4, <2>5, <2>6 DEF EmptyInv, bookVars, Calling
<1> QED BY <1>3, <1>4

\* A close counts and names what the client holds: nothing is in flight meanwhile.
LEMMA CloserCounts ==
    ASSUME SoundSlots, MemoryInv, ListInv, RecordsMatch, NEW t \in Threads, pc[t] \in Detached
    PROVE  LET d == heap[ptr[t]]
               g == call[t].id
           IN  /\ d \in DiagType /\ DiagOK(d) /\ d.granule_id = g
               /\ LiveIds(d) = HeldIn(g)
               /\ d.live_count = Cardinality(HeldIn(g)) /\ held[g] = Cardinality(HeldIn(g))
<1> DEFINE c == ptr[t]
           g == call[t].id
<1>1. /\ c \in Cells /\ heap[c] # Null /\ heap[c] \in DiagType /\ heap[c].granule_id = g
      /\ g \in Granules /\ Active(t)
      BY StateOfUse DEF Using, On
<1>2. Calling(t, "close")
      BY <1>1 DEF MemoryInv, LabelInv, Calling
<1>3. CallsFor(g, "alloc") = {} /\ CallsFor(g, "dealloc") = {}
  <2>1. \A u \in Threads \ {t} : ~On(u, g)
        BY <1>2, CloserAlone
  <2> QED BY <1>2, <2>1 DEF CallsFor, On, Calling
<1>4. DiagOK(heap[c]) /\ LiveIds(heap[c]) = HeldIn(g)
      BY <1>1, <1>3 DEF RecordsMatch, InUseCells, Registered
<1> QED BY <1>1, <1>4, LiveCount DEF ListInv

\* The state of a granule that no call acts on counts what the client holds, and
\* the slot of a state is that of a granule in use.
LEMMA QuietCounts ==
    ASSUME SoundSlots, MemoryInv, ListInv, RecordsMatch,
           NEW g \in Granules, phase[g] = "open", \A t \in Threads : ~On(t, g)
    PROVE  LET s == g % Capacity
           IN  /\ occupied[s] = 1 /\ diag[s] # Null
               /\ heap[diag[s]].live_count = held[g]
<1> DEFINE s == g % Capacity
           c == diag[s]
<1>1. s \in Slots /\ DiagTypeOK /\ StateInv /\ diag[s] # Null
      BY ClientAssumption DEF MemoryInv, OpenInv, Slots
<1>2. occupied[s] = 1 /\ c \in Cells /\ heap[c] # Null
      BY <1>1 DEF StateInv, DiagTypeOK
<1>3. heap[c] \in DiagType /\ heap[c].granule_id = g
      BY <1>1, <1>2 DEF StateInv, DiagTypeOK, SoundSlots
<1>4. CallsFor(g, "alloc") = {} /\ CallsFor(g, "dealloc") = {}
      BY DEF CallsFor, On
<1>5. DiagOK(heap[c]) /\ LiveIds(heap[c]) = HeldIn(g)
      BY <1>2, <1>3, <1>4 DEF RecordsMatch, InUseCells, Registered
<1> QED BY <1>1, <1>2, <1>3, <1>5, LiveCount DEF ListInv

LEMMA StatesInUse ==
    ASSUME MemoryInv, EmptyInv, NEW s \in Slots, diag[s] # Null
    PROVE  \E g \in Granules : g % Capacity = s /\ phase[g] # "closed"
BY DEF MemoryInv, StateInv, EmptyInv

\* An operation of thread t changes what is compared when t has registered.
LEMMA StepRegistered ==
    ASSUME MemoryInv, ListInv, NEW t \in Threads, SlotStep(t), NEW g
    PROVE  Registered(g)' =
              IF call[t] = [fn |-> "alloc", id |-> g] /\ pc'[t] = "ret" /\ ret'[t] = 0
              THEN Registered(g) \cup {arg[t]} ELSE Registered(g)
<1>1. /\ UNCHANGED <<call, bookVars, arg, owner, late>> /\ Active(t) /\ Active(t)'
      /\ \A u \in Threads \ {t} : pc'[u] = pc[u] /\ ret'[u] = ret[u]
      BY StepFrame DEF MemoryInv
<1>2. HeldIn(g)' = HeldIn(g) /\ CallsFor(g, "alloc")' = CallsFor(g, "alloc")
      BY StepList
<1>3. pc[t] # "ret"
      BY DEF SlotStep, OpenClaim, OpenCreate, OpenRelease, FindOccupied, FindDiag, FindId,
             AllocAdd, DeallocMark, CloseTake, CloseRelease, CloseLoad, CloseReport, ClosePush,
             CloseDestroy
<1> DEFINE R == {u \in CallsFor(g, "alloc") : pc[u] = "ret" /\ ret[u] = 0}
<1>4. Registered(g) = HeldIn(g) \cup {arg[u] : u \in R}
      BY DEF Registered
<1>5. Registered(g)' = HeldIn(g) \cup {arg[u] : u \in R'}
      BY <1>1, <1>2 DEF Registered
<1>6. R' = IF call[t] = [fn |-> "alloc", id |-> g] /\ pc'[t] = "ret" /\ ret'[t] = 0
           THEN R \cup {t} ELSE R
      BY <1>1, <1>2, <1>3 DEF CallsFor
<1> HIDE DEF R
<1> QED BY <1>4, <1>5, <1>6

\* An operation that leaves the heap alone keeps the records right: a register that
\* fails adds nothing, and a deregister that fails has found nothing.
LEMMA QuietRecords ==
    ASSUME SoundSlots, MemoryInv, RecordInv, NEW t \in Threads, SlotStep(t), heap' = heap
    PROVE  RecordsMatch' /\ FreedInv'
<1>0. DiagTypeOK /\ ContractInv /\ LabelInv /\ PlaceInv /\ StateInv
      /\ ListInv /\ FreedInv /\ RecordsMatch
      BY DEF MemoryInv, RecordInv
<1>1. /\ UNCHANGED <<call, bookVars, arg, owner, late>> /\ Active(t) /\ Active(t)'
      /\ \A u \in Threads \ {t} : pc'[u] = pc[u] /\ ret'[u] = ret[u]
      BY <1>0, StepFrame
<1>t. pc \in [Threads -> Labels] /\ ret \in [Threads -> Int] /\ heap \in [Cells -> DiagType \cup {Null}]
      BY <1>0 DEF DiagTypeOK, ClientTypeOK
<1>2. call[t].fn = "alloc" => ~(pc'[t] = "ret" /\ ret'[t] = 0)
  <2> SUFFICES ASSUME call[t].fn = "alloc", pc'[t] = "ret", ret'[t] = 0 PROVE FALSE
      OBVIOUS
  <2>1. ~AllocAdd(t)
    <3> SUFFICES ASSUME AllocAdd(t) PROVE FALSE
        OBVIOUS
    <3>1. /\ ptr[t] \in Cells /\ heap[ptr[t]] \in DiagType
          BY StateOfUse DEF AllocAdd, Using
    <3>2. arg[t] \in AllocIds
          BY <1>1 DEF MemoryInv, ArgInv, Calling
    <3>3. Len(AddAlloc(heap[ptr[t]], arg[t]).allocs) = Len(heap[ptr[t]].allocs) + 1
          /\ Len(heap[ptr[t]].allocs) \in Nat
          BY <3>1, <3>2, AddAllocRecords, RecordNumbers
    <3>4. heap'[ptr[t]] = AddAlloc(heap[ptr[t]], arg[t])
          BY <1>t, <3>1 DEF AllocAdd, Update, Answer
    <3> QED BY <3>3, <3>4
  <2>2. ~FindOccupied(t) /\ ~FindDiag(t)
        BY <1>t DEF FindOccupied, FindDiag, Answer, Goto
  <2>3. ~FindId(t)
        BY FindIdFinds
  <2> QED BY <1>0, <2>1, <2>2, <2>3 DEF SlotStep, LabelInv, Detached, OpenClaim, OpenCreate,
             OpenRelease, DeallocMark, CloseTake, CloseRelease, CloseLoad, CloseReport,
             ClosePush, CloseDestroy
<1>3. \A g : Registered(g)' = Registered(g) /\ CallsFor(g, "dealloc")' = CallsFor(g, "dealloc")
  <2> SUFFICES ASSUME NEW g PROVE Registered(g)' = Registered(g)
      BY <1>0, StepList
  <2>1. call[t] = [fn |-> "alloc", id |-> g] => call[t].fn = "alloc"
        OBVIOUS
  <2> QED BY <1>0, <1>2, <2>1, StepRegistered
<1>4. RecordsMatch'
      BY <1>0, <1>1, <1>3 DEF RecordsMatch, InUseCells
<1>5. FreedInv'
  <2>1. ASSUME Calling(t, "dealloc"), pc'[t] = "ret", NEW c \in Cells, heap[c] # Null,
               heap[c].granule_id = call[t].id
        PROVE  arg[t] \notin LiveIds(heap[c])
    <3>1. call[t].id \in Granules
          BY <1>0, <1>1, SlotOfCall
    <3>2. \A u \in Threads : pc[u] \in Detached => ~On(u, call[t].id)
      <4> SUFFICES ASSUME NEW u \in Threads, pc[u] \in Detached, On(u, call[t].id) PROVE FALSE
          OBVIOUS
      <4>1. call[u].fn = "close" /\ u # t
            BY <1>0, <2>1 DEF LabelInv, Calling
      <4> QED BY <1>1, <4>1, CloserAlone DEF On, Calling
    <3>3. diag[Slot(t)] # Null
          BY <2>1, <3>1, <3>2, NoState DEF Slot
    <3>4. occupied[Slot(t)] # 0
          BY <1>0, <1>1, <3>3, SlotOfCall DEF StateInv
    <3>5. DeallocMark(t)
      <4>1. ~FindOccupied(t) /\ ~FindDiag(t)
            BY <1>t, <2>1, <3>3, <3>4 DEF FindOccupied, FindDiag, Goto
      <4>2. ~FindId(t)
            BY <2>1, FindIdFinds
      <4> QED BY <1>0, <2>1, <4>1, <4>2 DEF SlotStep, LabelInv, Detached, OpenClaim, OpenCreate,
                 OpenRelease, AllocAdd, CloseTake, CloseRelease, CloseLoad, CloseReport,
                 ClosePush, CloseDestroy, Calling
    <3>6. /\ ptr[t] \in Cells /\ heap[ptr[t]] \in DiagType /\ heap[ptr[t]] # Null
          /\ heap[ptr[t]].granule_id = call[t].id
          BY <3>5, StateOfUse DEF DeallocMark, Using
    <3>7. c = ptr[t]
          BY <2>1, <3>6, OneState
    <3>8. arg[t] \in AllocIds
          BY <1>1, <2>1 DEF MemoryInv, ArgInv, Calling
    <3>9. DiagOK(heap[c])
          BY <1>0, <2>1 DEF RecordsMatch, InUseCells
    <3>10. Matches(heap[c], arg[t]) = {}
      <4> SUFFICES ASSUME Matches(heap[c], arg[t]) # {} PROVE FALSE
          OBVIOUS
      <4>1. /\ MarkFreed(heap[c], arg[t]).live_count = heap[c].live_count - 1
            /\ heap[c].live_count \in Int
            BY <3>6, <3>7, <3>8, <3>9, MarkFreedRecords, RecordNumbers DEF DiagOK
      <4>2. heap'[c] = MarkFreed(heap[c], arg[t])
            BY <1>t, <3>5, <3>7, <2>1 DEF DeallocMark, Update
      <4> QED BY <4>1, <4>2
    <3> QED BY <3>10, MatchesIffLive
  <2>2. \A u \in Threads : Calling(u, "dealloc")' = Calling(u, "dealloc")
        BY <1>1 DEF Calling, Active
  <2> QED BY <1>0, <1>1, <2>1, <2>2 DEF FreedInv, InUseCells
<1> QED BY <1>4, <1>5

\* A new state has no records, and its granule no allocations.
LEMMA CreateRecords ==
    ASSUME SoundSlots, MemoryInv, RecordInv, NEW t \in Threads, OpenCreate(t), heap' # heap
    PROVE  RecordsMatch' /\ FreedInv'
<1> DEFINE g == call[t].id
<1>0. /\ DiagTypeOK /\ ContractInv /\ LabelInv /\ ListInv /\ FreedInv /\ RecordsMatch
      /\ SlotStep(t)
      BY DEF MemoryInv, RecordInv, SlotStep
<1>1. /\ UNCHANGED <<call, bookVars, arg, owner, late>> /\ Active(t) /\ Active(t)'
      /\ \A u \in Threads \ {t} : pc'[u] = pc[u]
      BY <1>0, StepFrame
<1>2. call[t].fn = "open" /\ g \in Granules /\ g \in Nat /\ phase[g] = "opening"
      BY <1>0, <1>1, SlotOfCall, ClientAssumption
      DEF OpenCreate, LabelInv, ContractInv, PhaseInv, Calling
<1>t. heap \in [Cells -> DiagType \cup {Null}] /\ pc \in [Threads -> Labels]
      BY <1>0 DEF DiagTypeOK
<1>3. PICK c \in Cells : heap' = [heap EXCEPT ![c] = NewDiag(g)] /\ pc'[t] = "ret"
      BY <1>t DEF OpenCreate, Answer, Goto
<1>4. /\ NewDiag(g) \in DiagType /\ DiagOK(NewDiag(g))
      /\ NewDiag(g).granule_id = g /\ LiveIds(NewDiag(g)) = {}
      BY <1>2, NewDiagOK
<1>5. \A h : Registered(h)' = Registered(h) /\ CallsFor(h, "dealloc")' = CallsFor(h, "dealloc")
  <2> SUFFICES ASSUME NEW h PROVE Registered(h)' = Registered(h)
      BY <1>0, StepList DEF MemoryInv
  <2>1. call[t] # [fn |-> "alloc", id |-> h]
        BY <1>2
  <2> QED BY <1>0, <2>1, StepRegistered
<1>6. Registered(g) = {}
  <2>1. CallsFor(g, "alloc") = {}
        BY <1>0, <1>2 DEF CallsFor, ContractInv, PhaseInv, Calling
  <2>2. HeldIn(g) = {}
        BY <1>0, <1>2 DEF ListInv
  <2> QED BY <2>1, <2>2 DEF Registered
<1>7. RecordsMatch'
  <2>1. ASSUME NEW e \in Cells, heap'[e] # Null, NEW h, h = heap'[e].granule_id
        PROVE  /\ DiagOK(heap'[e]) /\ Registered(h)' \subseteq LiveIds(heap'[e])
               /\ LiveIds(heap'[e]) \subseteq
                      Registered(h)' \cup {arg[u] : u \in CallsFor(h, "dealloc")}
    <3>1. CASE e = c
      <4>1. heap'[e] = NewDiag(g) /\ h = g
            BY <1>3, <1>4, <1>t, <2>1, <3>1
      <4>2. Registered(h)' = {}
            BY <1>5, <1>6, <4>1
      <4> QED BY <1>4, <4>1, <4>2
    <3>2. CASE e # c
      <4>1. heap'[e] = heap[e]
            BY <1>3, <1>t, <3>2
      <4> QED BY <1>0, <1>5, <2>1, <4>1 DEF RecordsMatch, InUseCells
    <3> QED BY <3>1, <3>2
  <2> QED BY <1>1, <1>5, <2>1 DEF RecordsMatch, InUseCells
<1>8. FreedInv'
  <2>1. \A e \in Cells : heap'[e] = IF e = c THEN NewDiag(g) ELSE heap[e]
        BY <1>3, <1>t
  <2>2. \A u \in Threads : Calling(u, "dealloc")' /\ pc'[u] = "ret" =>
            Calling(u, "dealloc") /\ pc[u] = "ret"
        BY <1>1, <1>2 DEF Calling, Active
  <2> QED BY <1>0, <1>1, <1>4, <2>1, <2>2 DEF FreedInv, InUseCells
<1> QED BY <1>7, <1>8

\* A register records the allocation of the call, a deregister marks it: nobody else
\* has it, and no other granule is about it.
LEMMA UpdateRecords ==
    ASSUME SoundSlots, MemoryInv, RecordInv, NEW t \in Threads,
           AllocAdd(t) \/ DeallocMark(t), heap' # heap
    PROVE  RecordsMatch' /\ FreedInv'
<1> DEFINE g == call[t].id
           c == ptr[t]
           a == arg[t]
<1>0. /\ DiagTypeOK /\ LabelInv /\ ListInv /\ FreedInv /\ RecordsMatch
      /\ SlotStep(t) /\ pc[t] \in Using /\ pc[t] \in {"add_alloc", "mark_freed"}
      BY DEF MemoryInv, RecordInv, SlotStep, Using, AllocAdd, DeallocMark
<1>1. /\ UNCHANGED <<call, bookVars, arg, owner, late>> /\ Active(t) /\ Active(t)'
      /\ \A u \in Threads \ {t} : pc'[u] = pc[u]
      BY <1>0, StepFrame
<1>t. heap \in [Cells -> DiagType \cup {Null}] /\ pc \in [Threads -> Labels]
      /\ ret \in [Threads -> Int]
      BY <1>0 DEF DiagTypeOK, ClientTypeOK
<1>2. /\ c \in Cells /\ heap[c] # Null /\ heap[c] \in DiagType /\ heap[c].granule_id = g
      /\ call[t] \in Calls /\ g \in Granules
      BY <1>0, StateOfUse
<1>3. /\ a \in AllocIds /\ a # Null /\ owner[a] = Null
      /\ \A u \in Threads \ {t} : arg[u] # a
  <2>1. a \in AllocIds
        BY <1>0, <1>1 DEF MemoryInv, ArgInv, LabelInv, Calling
  <2> QED BY <1>0, <2>1, DiagSlotsAssumption DEF ListInv
<1>4. /\ DiagOK(heap[c]) /\ Registered(g) \subseteq LiveIds(heap[c])
      /\ LiveIds(heap[c]) \subseteq Registered(g) \cup {arg[u] : u \in CallsFor(g, "dealloc")}
      BY <1>0, <1>2 DEF RecordsMatch, InUseCells
<1>5. a \notin HeldIn(g)
      BY <1>2, <1>3, DiagSlotsAssumption DEF HeldIn
<1>6. \A e \in Cells \ {c} : heap[e] # Null => heap[e].granule_id # g
      BY <1>2, OneState
\* What the operation does.
<1>7. \E d \in DiagType :
          /\ heap' = [heap EXCEPT ![c] = d] /\ d.granule_id = g /\ DiagOK(d)
          /\ Registered(g)' \subseteq LiveIds(d)
          /\ LiveIds(d) \subseteq Registered(g)' \cup {arg[u] : u \in CallsFor(g, "dealloc")}
          /\ call[t].fn = "dealloc" => a \notin LiveIds(d)
          /\ LiveIds(d) \subseteq LiveIds(heap[c]) \cup {a}
  <2>1. CASE AllocAdd(t)
    <3>1. /\ heap' = [heap EXCEPT ![c] = AddAlloc(heap[c], a)]
          /\ pc'[t] = "ret" /\ ret'[t] = 0 /\ call[t].fn = "alloc"
          BY <1>0, <1>t, <2>1 DEF AllocAdd, Update, Answer, Goto, LabelInv
    <3>2. Registered(g)' = Registered(g) \cup {a}
      <4>1. call[t] = [fn |-> "alloc", id |-> g]
            BY <1>2, <3>1 DEF Calls
      <4> QED BY <1>0, <1>1, <3>1, <4>1, StepRegistered
    <3>3. a \notin LiveIds(heap[c])
      <4>1. t \notin CallsFor(g, "dealloc") /\ pc[t] = "add_alloc"
            BY <2>1, <3>1 DEF CallsFor, AllocAdd
      <4> QED BY <1>3, <1>4, <1>5, <4>1 DEF Registered, CallsFor
    <3>4. /\ DiagOK(AddAlloc(heap[c], a)) /\ AddAlloc(heap[c], a) \in DiagType
          /\ LiveIds(AddAlloc(heap[c], a)) = LiveIds(heap[c]) \cup {a}
          /\ AddAlloc(heap[c], a).granule_id = g
          BY <1>2, <1>3, <1>4, <3>3, AddAllocLive, AddAllocRecords
    <3> QED BY <1>4, <3>1, <3>2, <3>4
  <2>2. CASE DeallocMark(t)
    <3>1. /\ heap' = [heap EXCEPT ![c] = MarkFreed(heap[c], a)]
          /\ Matches(heap[c], a) # {} /\ call[t].fn = "dealloc" /\ pc[t] = "mark_freed"
          BY <1>0, <2>2 DEF DeallocMark, Update, LabelInv
    <3>2. Registered(g)' = Registered(g)
      <4>1. call[t] # [fn |-> "alloc", id |-> g]
            BY <3>1
      <4> QED BY <1>0, <1>1, <4>1, StepRegistered
    <3>3. a \in LiveIds(heap[c])
          BY <3>1, MatchesIffLive
    <3>4. /\ DiagOK(MarkFreed(heap[c], a)) /\ MarkFreed(heap[c], a) \in DiagType
          /\ LiveIds(MarkFreed(heap[c], a)) = LiveIds(heap[c]) \ {a}
          /\ MarkFreed(heap[c], a).granule_id = g
          BY <1>2, <1>3, <1>4, <3>1, <3>3, MarkFreedLive, MarkFreedRecords DEF DiagOK
    <3>5. a \notin Registered(g)
          BY <1>3, <1>5, <3>1 DEF Registered, CallsFor
    <3> QED BY <1>4, <3>1, <3>2, <3>4, <3>5
  <2> QED BY <2>1, <2>2
<1>8. PICK d \in DiagType :
          /\ heap' = [heap EXCEPT ![c] = d] /\ d.granule_id = g /\ DiagOK(d)
          /\ Registered(g)' \subseteq LiveIds(d)
          /\ LiveIds(d) \subseteq Registered(g)' \cup {arg[u] : u \in CallsFor(g, "dealloc")}
          /\ call[t].fn = "dealloc" => a \notin LiveIds(d)
          /\ LiveIds(d) \subseteq LiveIds(heap[c]) \cup {a}
      BY <1>7
<1>9. \A e \in Cells : heap'[e] = IF e = c THEN d ELSE heap[e]
      BY <1>8, <1>t
<1>10. \A h : h # g => Registered(h)' = Registered(h)
  <2> SUFFICES ASSUME NEW h, h # g PROVE Registered(h)' = Registered(h)
      OBVIOUS
  <2>1. call[t] # [fn |-> "alloc", id |-> h]
        OBVIOUS
  <2> QED BY <1>0, <2>1, StepRegistered
<1>11. \A h : CallsFor(h, "dealloc")' = CallsFor(h, "dealloc")
      BY <1>0, StepList
<1> HIDE DEF g, c, a
<1>12. RecordsMatch'
  <2>1. ASSUME NEW e \in Cells, heap'[e] # Null, NEW h, h = heap'[e].granule_id
        PROVE  /\ DiagOK(heap'[e]) /\ Registered(h)' \subseteq LiveIds(heap'[e])
               /\ LiveIds(heap'[e]) \subseteq
                      Registered(h)' \cup {arg[u] : u \in CallsFor(h, "dealloc")}
    <3>1. CASE e = c
      <4>1. heap'[e] = d /\ h = g
            BY <1>8, <1>9, <2>1, <3>1
      <4>2. Registered(g)' = Registered(h)'
            BY <1>1, <4>1 DEF g
      <4> QED BY <1>8, <4>1, <4>2
    <3>2. CASE e # c
      <4>1. heap'[e] = heap[e] /\ heap[e].granule_id # g
            BY <1>6, <1>9, <2>1, <3>2
      <4> QED BY <1>0, <1>10, <2>1, <4>1 DEF RecordsMatch, InUseCells
    <3> QED BY <3>1, <3>2
  <2> QED BY <1>1, <1>11, <2>1 DEF RecordsMatch, InUseCells
<1>13. FreedInv'
  <2>1. ASSUME NEW u \in Threads, Calling(u, "dealloc"), pc'[u] = "ret", NEW e \in Cells,
               heap'[e] # Null, heap'[e].granule_id = call[u].id
        PROVE  arg[u] \notin LiveIds(heap'[e])
    <3>1. CASE e # c
      <4>1. heap'[e] = heap[e] /\ u # t
            BY <1>6, <1>9, <2>1, <3>1 DEF g
      <4> QED BY <1>0, <1>1, <2>1, <4>1 DEF FreedInv, InUseCells
    <3>2. CASE e = c /\ u = t
          BY <1>8, <1>9, <2>1, <3>2 DEF Calling, a
    <3>3. CASE e = c /\ u # t
      <4>1. arg[u] \notin LiveIds(heap[c])
            BY <1>0, <1>1, <1>2, <1>8, <1>9, <2>1, <3>3 DEF FreedInv, InUseCells
      <4> QED BY <1>3, <1>8, <1>9, <3>3, <4>1
    <3> QED BY <3>1, <3>2, <3>3
  <2>2. \A u \in Threads : Calling(u, "dealloc")' = Calling(u, "dealloc")
        BY <1>1 DEF Calling, Active
  <2> QED BY <1>1, <2>1, <2>2 DEF FreedInv, InUseCells
<1> QED BY <1>12, <1>13

\* A close that frees a state takes nothing away from the others.
LEMMA DestroyRecords ==
    ASSUME SoundSlots, MemoryInv, RecordInv, NEW t \in Threads, CloseDestroy(t)
    PROVE  RecordsMatch' /\ FreedInv'
<1>0. /\ DiagTypeOK /\ LabelInv /\ ListInv /\ FreedInv /\ RecordsMatch
      /\ SlotStep(t) /\ call[t].fn = "close"
      BY DEF MemoryInv, RecordInv, SlotStep, LabelInv, CloseDestroy, Detached
<1>1. /\ UNCHANGED <<call, bookVars, arg, owner, late>> /\ Active(t) /\ Active(t)'
      /\ \A u \in Threads \ {t} : pc'[u] = pc[u]
      BY <1>0, StepFrame
<1>2. \A h : Registered(h)' = Registered(h) /\ CallsFor(h, "dealloc")' = CallsFor(h, "dealloc")
  <2> SUFFICES ASSUME NEW h PROVE Registered(h)' = Registered(h)
      BY <1>0, StepList
  <2>1. call[t] # [fn |-> "alloc", id |-> h]
        BY <1>0
  <2> QED BY <1>0, <2>1, StepRegistered
<1>3. \A e \in Cells : heap'[e] # Null => heap'[e] = heap[e]
      BY <1>0 DEF CloseDestroy, DiagTypeOK
<1>4. RecordsMatch'
      BY <1>0, <1>1, <1>2, <1>3 DEF RecordsMatch, InUseCells
<1>5. \A u \in Threads : Calling(u, "dealloc")' /\ pc'[u] = "ret" =>
          Calling(u, "dealloc") /\ pc[u] = "ret"
      BY <1>0, <1>1 DEF Calling, Active
<1>6. FreedInv'
      BY <1>0, <1>1, <1>3, <1>5 DEF FreedInv, InUseCells
<1> QED BY <1>4, <1>6

\* The live count a close loads, and the report it makes, are the client's list.
LEMMA StepVerdict ==
    ASSUME SoundSlots, MemoryInv, RecordInv, NEW t \in Threads, SlotStep(t)
    PROVE  VerdictExact' /\ ReportExact'
<1>0. /\ DiagTypeOK /\ LabelInv /\ ListInv /\ RecordsMatch /\ VerdictExact /\ ReportExact
      BY DEF MemoryInv, RecordInv
<1>1. /\ UNCHANGED <<call, bookVars, arg, owner, late>> /\ Active(t) /\ Active(t)'
      /\ \A u \in Threads \ {t} : pc'[u] = pc[u] /\ ret'[u] = ret[u] /\ report'[u] = report[u]
      BY <1>0, StepFrame
<1>t. /\ pc \in [Threads -> Labels] /\ ret \in [Threads -> Int]
      /\ report \in [Threads -> ReportType \cup {Null}]
      BY <1>0 DEF DiagTypeOK, ClientTypeOK
<1>2. \A h : HeldIn(h)' = HeldIn(h)
      BY <1>0, StepList
<1>3. pc'[t] \in {"close_report", "close_push", "close_destroy"} =>
          CloseLoad(t) \/ CloseReport(t) \/ ClosePush(t)
  <2>1. FindId(t) => pc'[t] \in {"close_take", "add_alloc", "mark_freed"}
        BY FindIdFinds
  <2> QED BY <1>t, <2>1 DEF SlotStep, Answer, Goto, OpenClaim, OpenCreate, OpenRelease, FindOccupied,
             FindDiag, AllocAdd, DeallocMark, CloseTake, CloseRelease, CloseDestroy
<1>4. VerdictExact'
  <2>1. ASSUME pc'[t] \in {"ret", "close_report", "close_push", "close_destroy"},
               call[t].fn = "close"
        PROVE  ret'[t] = held[call[t].id]
    <3>1. CASE CloseLoad(t)
      <4>1. ret'[t] = heap[ptr[t]].live_count /\ pc[t] \in Detached
            BY <1>t, <3>1 DEF CloseLoad, Detached
      <4> QED BY <1>0, <4>1, CloserCounts
    <3>2. CASE CloseReport(t) \/ ClosePush(t) \/ CloseDestroy(t)
      <4>1. ret'[t] = ret[t] /\ pc[t] \in {"close_report", "close_push", "close_destroy"}
            BY <3>2 DEF CloseReport, ClosePush, CloseDestroy
      <4> QED BY <1>0, <2>1, <4>1 DEF VerdictExact
    <3> QED BY <1>3, <2>1, <3>1, <3>2, CloserReturns
  <2> QED BY <1>0, <1>1, <2>1 DEF VerdictExact, bookVars
<1>5. ReportExact'
  <2>1. ASSUME pc'[t] = "close_push"
        PROVE  /\ report'[t].granule_id = call[t].id
               /\ report'[t].pinning_allocs = HeldIn(call[t].id)
               /\ report'[t].pinning_count = Cardinality(HeldIn(call[t].id))
               /\ report'[t].drained_allocs \in Nat
    <3> DEFINE d == heap[ptr[t]]
               g == call[t].id
    <3>1. CloseReport(t) /\ report'[t] = Report(d) /\ pc[t] \in Detached
          BY <1>3, <1>t, <2>1 DEF CloseLoad, CloseReport, ClosePush, Goto, Detached
    <3>2. /\ d \in DiagType /\ DiagOK(d) /\ d.granule_id = g /\ LiveIds(d) = HeldIn(g)
          /\ d.live_count = Cardinality(HeldIn(g))
          BY <1>0, <3>1, CloserCounts
    <3> HIDE DEF d, g
    <3>3. Len(d.allocs) - d.live_count \in Nat
          BY <3>2, LiveBound
    <3>4. /\ Report(d).granule_id = d.granule_id /\ Report(d).pinning_allocs = LiveIds(d)
          /\ Report(d).pinning_count = d.live_count
          /\ Report(d).drained_allocs = Len(d.allocs) - d.live_count
          BY DEF Report, LiveIds
    <3> QED BY <3>1, <3>2, <3>3, <3>4 DEF g
  <2>2. ASSUME NEW u \in Threads, pc'[u] = "close_push", NEW g, g = call[u].id
        PROVE  /\ report'[u].granule_id = g
               /\ report'[u].pinning_allocs = HeldIn(g)'
               /\ report'[u].pinning_count = Cardinality(HeldIn(g)')
               /\ report'[u].drained_allocs \in Nat
    <3>1. HeldIn(g)' = HeldIn(g)
          BY <1>2
    <3>2. CASE u = t
          BY <2>1, <2>2, <3>1, <3>2
    <3>3. CASE u # t
          BY <1>0, <1>1, <2>2, <3>1, <3>3 DEF ReportExact
    <3> QED BY <3>2, <3>3
  <2> QED BY <1>1, <2>2 DEF ReportExact
<1> QED BY <1>4, <1>5

\* An operation of the slots keeps the invariant.
LEMMA StepRecords ==
    ASSUME SoundSlots, MemoryInv, RecordInv, NEW t \in Threads, SlotStep(t)
    PROVE  RecordInv'
<1>1. ListInv' /\ EmptyInv' /\ VerdictExact' /\ ReportExact'
      BY StepList, StepEmpty, StepVerdict DEF RecordInv
<1>2. RecordsMatch' /\ FreedInv'
  <2>1. CASE heap' = heap
        BY <2>1, QuietRecords
  <2>2. CASE heap' # heap
    <3>1. OpenCreate(t) \/ AllocAdd(t) \/ DeallocMark(t) \/ CloseDestroy(t)
          BY <2>2 DEF SlotStep, slotVars, OpenClaim, OpenRelease, FindOccupied, FindDiag, FindId,
                      CloseTake, CloseRelease, CloseLoad, CloseReport, ClosePush
    <3> QED BY <2>2, <3>1, CreateRecords, UpdateRecords, DestroyRecords
  <2> QED BY <2>1, <2>2
<1> QED BY <1>1, <1>2 DEF RecordInv

-----------------------------------------------------------------------------
(* Calls and answers                                                       *)

\* A call or an answer of thread t leaves the slots and the heap alone.  It keeps
\* the records and the verdicts right when the list moves with the call: what t
\* gives to a deregister leaves the list, and what its register has recorded
\* enters it.
LEMMA ClientRecords ==
    ASSUME SoundSlots, MemoryInv, RecordInv, NEW t \in Threads,
           UNCHANGED <<slotVars, heap, report>>,
           \A u \in Threads \ {t} : /\ pc'[u] = pc[u] /\ call'[u] = call[u] /\ ret'[u] = ret[u]
                                    /\ arg'[u] = arg[u],
           pc[t] = "idle" \/ pc[t] = "ret",
           pc'[t] \in {"idle", "open_cas", "find_occupied"},
           NEW g \in Granules,
           \A h \in Granules \ {g} : HeldIn(h)' = HeldIn(h) /\ held'[h] = held[h],
           \A u \in Threads \ {t} : Calling(u, "close") => call[u].id # g,
           \/ \A c \in Cells : heap[c] # Null => heap[c].granule_id # g
           \/ /\ Registered(g)' \subseteq Registered(g)
              /\ Registered(g) \subseteq
                     Registered(g)' \cup {arg'[u] : u \in CallsFor(g, "dealloc")'}
              /\ \A u \in CallsFor(g, "dealloc") :
                    \/ u # t
                    \/ arg'[u] = arg[u] /\ u \in CallsFor(g, "dealloc")'
                    \/ pc[u] = "ret",
           Active(t) => call[t].id = g,
           Active(t)' => call'[t].id = g
    PROVE  RecordsMatch' /\ FreedInv' /\ VerdictExact' /\ ReportExact'
<1>0. /\ DiagTypeOK /\ LabelInv /\ ListInv /\ RecordsMatch /\ FreedInv /\ VerdictExact /\ ReportExact
      BY DEF MemoryInv, RecordInv
<1>1. \A u \in Threads \ {t} : /\ Active(u)' = Active(u)
                               /\ \A fn : Calling(u, fn)' = Calling(u, fn)
      BY DEF Active, Calling
<1>2. \A fn : \A h \in Granules \ {g} : t \notin CallsFor(h, fn) /\ t \notin CallsFor(h, fn)'
      BY DEF CallsFor
<1>3. \A fn : \A h \in Granules \ {g} : CallsFor(h, fn)' = CallsFor(h, fn)
  <2> SUFFICES ASSUME NEW fn, NEW h \in Granules \ {g}, NEW u \in Threads
               PROVE  u \in CallsFor(h, fn)' <=> u \in CallsFor(h, fn)
      BY DEF CallsFor
  <2>1. CASE u = t
        BY <1>2, <2>1
  <2>2. CASE u # t
        BY <1>1, <2>2 DEF CallsFor
  <2> QED BY <2>1, <2>2
<1>4. ASSUME NEW h \in Granules \ {g}
      PROVE  /\ Registered(h)' = Registered(h)
             /\ {arg[u] : u \in CallsFor(h, "dealloc")}' = {arg[u] : u \in CallsFor(h, "dealloc")}
  <2> DEFINE R == {u \in CallsFor(h, "alloc") : pc[u] = "ret" /\ ret[u] = 0}
  <2>1. R' = R /\ t \notin R
        BY <1>2, <1>3 DEF CallsFor
  <2>2. {arg[u] : u \in R}' = {arg[u] : u \in R}
        BY <2>1 DEF CallsFor
  <2>3. {arg[u] : u \in CallsFor(h, "dealloc")}' = {arg[u] : u \in CallsFor(h, "dealloc")}
        BY <1>2, <1>3 DEF CallsFor
  <2> QED BY <2>2, <2>3 DEF Registered
<1>5. RecordsMatch'
  <2>1. ASSUME NEW c \in Cells, heap[c] # Null, NEW h, h = heap[c].granule_id
        PROVE  /\ DiagOK(heap[c]) /\ Registered(h)' \subseteq LiveIds(heap[c])
               /\ LiveIds(heap[c]) \subseteq
                      Registered(h)' \cup {arg[u] : u \in CallsFor(h, "dealloc")}'
    <3>1. h \in Granules
          BY <2>1, WhereStatesAre
    <3>2. /\ DiagOK(heap[c]) /\ Registered(h) \subseteq LiveIds(heap[c])
          /\ LiveIds(heap[c]) \subseteq Registered(h) \cup {arg[u] : u \in CallsFor(h, "dealloc")}
          BY <1>0, <2>1 DEF RecordsMatch, InUseCells
    <3>3. CASE h # g
          BY <1>4, <3>1, <3>2, <3>3
    <3>4. CASE h = g
      <4>1. Registered(g)' \subseteq Registered(g)
            BY <2>1, <3>4
      <4>2. ASSUME NEW a \in LiveIds(heap[c])
            PROVE  a \in Registered(g)' \cup {arg'[u] : u \in CallsFor(g, "dealloc")'}
        <5>1. CASE a \in Registered(g)
              BY <2>1, <3>4, <5>1
        <5>2. CASE \E u \in CallsFor(g, "dealloc") : a = arg[u]
          <6>1. PICK u \in CallsFor(g, "dealloc") : a = arg[u]
                BY <5>2
          <6>2. u \in Threads /\ Calling(u, "dealloc") /\ call[u].id = g
                BY DEF CallsFor, Calling
          <6>3. ~(u = t /\ pc[u] = "ret")
                BY <1>0, <2>1, <3>4, <4>2, <6>1, <6>2 DEF FreedInv, InUseCells
          <6>4. arg'[u] = arg[u] /\ u \in CallsFor(g, "dealloc")'
                BY <1>1, <2>1, <3>4, <6>2, <6>3 DEF CallsFor
          <6> QED BY <6>1, <6>4
        <5> QED BY <3>2, <3>4, <4>2, <5>1, <5>2
      <4> QED BY <3>2, <3>4, <4>1, <4>2
    <3> QED BY <3>3, <3>4
  <2> QED BY <2>1 DEF RecordsMatch, InUseCells
<1>6. FreedInv'
  <2>1. \A u \in Threads : Calling(u, "dealloc")' /\ pc'[u] = "ret" =>
            u # t /\ Calling(u, "dealloc") /\ pc[u] = "ret"
        BY <1>1
  <2> QED BY <1>0, <2>1 DEF FreedInv, InUseCells
<1>7. ASSUME NEW u \in Threads, pc'[u] \in {"ret", "close_report", "close_push", "close_destroy"},
             call'[u].fn = "close"
      PROVE  u # t /\ Active(u) /\ call[u].id \in Granules \ {g}
  <2>1. u # t /\ Calling(u, "close")
        BY <1>7 DEF Calling, Active
  <2> QED BY <1>0, <2>1, SlotOfCall DEF Calling
<1>8. VerdictExact'
      BY <1>0, <1>7 DEF VerdictExact
<1>9. ReportExact'
  <2>1. ASSUME NEW u \in Threads, pc'[u] = "close_push", NEW h, h = call[u].id
        PROVE  /\ u # t /\ call'[u].id = h /\ report'[u] = report[u] /\ pc[u] = "close_push"
               /\ HeldIn(h)' = HeldIn(h)
    <3>1. u # t /\ pc[u] = "close_push" /\ call'[u] = call[u]
          BY <2>1
    <3>2. call[u].fn = "close"
          BY <1>0, <3>1 DEF LabelInv, Detached
    <3> QED BY <1>7, <2>1, <3>1, <3>2
  <2>2. ASSUME NEW u \in Threads, pc'[u] = "close_push", NEW h, h = call[u].id
        PROVE  /\ report'[u].granule_id = h
               /\ report'[u].pinning_allocs = HeldIn(h)'
               /\ report'[u].pinning_count = Cardinality(HeldIn(h)')
               /\ report'[u].drained_allocs \in Nat
        BY <1>0, <2>1, <2>2 DEF ReportExact
  <2>3. \A u \in Threads : pc'[u] = "close_push" => call'[u] = call[u]
        OBVIOUS
  <2> QED BY <2>2, <2>3 DEF ReportExact
<1> QED BY <1>5, <1>6, <1>8, <1>9

\* A call moves the list with what it is given.
LEMMA CallLists ==
    ASSUME DiagTypeOK, ListInv, NEW t \in Threads, NEW g \in Granules,
           pc[t] = "idle", pc'[t] # "idle", call'[t].id = g,
           \A u \in Threads \ {t} : pc'[u] = pc[u] /\ call'[u] = call[u],
           \/ /\ CallOpen(t, g, "open_cas") \/ CallClose(t, g, "find_occupied")
              /\ UNCHANGED <<arg, owner, late>>
           \/ RegisterCall(t, g, "find_occupied")
           \/ DeregisterCall(t, g, "find_occupied")
    PROVE  /\ ListInv'
           /\ \A h \in Granules \ {g} : HeldIn(h)' = HeldIn(h) /\ held'[h] = held[h]
           /\ \A u \in Threads \ {t} : arg'[u] = arg[u]
           /\ HeldIn(g)' \subseteq HeldIn(g)
           /\ HeldIn(g) # HeldIn(g)' => /\ call'[t] = [fn |-> "dealloc", id |-> g]
                                        /\ HeldIn(g) = HeldIn(g)' \cup {arg'[t]}
<1>t. /\ arg \in [Threads -> AllocIds \cup {Null}]
      /\ owner \in [AllocIds -> Granules \cup {Null}] /\ late \subseteq AllocIds
      /\ held \in [Granules -> Nat] /\ call \in [Threads -> Calls \cup {NoCall}]
      /\ phase \in [Granules -> {"closed", "opening", "open", "closing"}]
      BY DEF DiagTypeOK, ClientTypeOK
<1>1. arg[t] = Null
      BY DEF ListInv, Calling, Active
<1>2. \A fn : \A u \in Threads \ {t} : Calling(u, fn)' = Calling(u, fn)
      BY DEF Calling, Active
<1>3. CASE (CallOpen(t, g, "open_cas") \/ CallClose(t, g, "find_occupied"))
           /\ UNCHANGED <<arg, owner, late>>
  <2>1. /\ UNCHANGED held /\ phase' \in {[phase EXCEPT ![g] = "opening"], [phase EXCEPT ![g] = "closing"]}
        /\ phase'[g] = "opening" => phase[g] = "closed"
        BY <1>3, <1>t DEF CallOpen, CallClose
  <2>2. \A h : HeldIn(h)' = HeldIn(h)
        BY <1>3 DEF HeldIn
  <2>3. ListInv'
        BY <1>1, <1>2, <1>3, <1>t, <2>1, <2>2 DEF ListInv
  <2> QED BY <1>3, <2>1, <2>2, <2>3
<1>4. CASE RegisterCall(t, g, "find_occupied")
  <2>1. PICK a \in AllocIds : /\ owner[a] = Null /\ \A u \in Threads : arg[u] # a
                              /\ arg' = [arg EXCEPT ![t] = a]
        BY <1>4 DEF RegisterCall, FreshIds, Pass
  <2>2. UNCHANGED <<owner, late, bookVars>> /\ call'[t].fn = "alloc"
        BY <1>4, <1>t DEF RegisterCall, CallAlloc, Enter
  <2>3. \A h : HeldIn(h)' = HeldIn(h)
        BY <2>2 DEF HeldIn
  <2>4. Calling(t, "alloc")'
        BY <2>2 DEF Calling, Active
  <2>5. ListInv'
        BY <1>1, <1>2, <1>t, <2>1, <2>2, <2>3, <2>4 DEF ListInv, bookVars
  <2> QED BY <1>t, <2>1, <2>2, <2>3, <2>5 DEF bookVars
<1>5. CASE DeregisterCall(t, g, "find_occupied")
  <2>1. PICK a \in AllocIds : /\ owner[a] = g /\ arg' = [arg EXCEPT ![t] = a]
                              /\ owner' = [owner EXCEPT ![a] = Null]
                              /\ \/ /\ a \notin late /\ late' = late /\ phase[g] = "open"
                                    /\ held' = [held EXCEPT ![g] = @ - 1]
                                 \/ /\ a \in late /\ late' = late \ {a}
                                    /\ UNCHANGED held
    <3>1. CASE CallDealloc(t, g, "find_occupied")
               /\ (\E a \in HeldIn(g) : Pass(t, a) /\ owner' = [owner EXCEPT ![a] = Null])
               /\ UNCHANGED late
          BY <3>1 DEF HeldIn, Pass, CallDealloc
    <3>2. CASE CallLateDealloc(t, g, "find_occupied")
               /\ (\E a \in StaleIn(g) : /\ Pass(t, a)
                                         /\ owner' = [owner EXCEPT ![a] = Null]
                                         /\ late'  = late \ {a})
          BY <3>2 DEF StaleIn, Pass, CallLateDealloc
    <3> QED BY <1>5, <3>1, <3>2 DEF DeregisterCall
  <2>2. /\ UNCHANGED phase /\ call'[t] = [fn |-> "dealloc", id |-> g]
        BY <1>5, <1>t DEF DeregisterCall, CallDealloc, CallLateDealloc, Enter
  <2>3. Calling(t, "dealloc")' /\ a # Null /\ owner[a] # Null
        BY <2>1, <2>2, DiagSlotsAssumption DEF Calling, Active
  <2>4. \A u \in Threads \ {t} : arg'[u] = arg[u] /\ arg[u] # a
        BY <1>t, <2>1, <2>3 DEF ListInv
  <2>5. \A b \in AllocIds : owner'[b] = IF b = a THEN Null ELSE owner[b]
        BY <1>t, <2>1
  <2>6. \A h \in Granules : HeldIn(h)' = HeldIn(h) \ {a}
        BY <2>1, <2>5, DiagSlotsAssumption DEF HeldIn
  <2>7. \A h \in Granules \ {g} : a \notin HeldIn(h) /\ held'[h] = held[h]
        BY <1>t, <2>1 DEF HeldIn
  <2>8. \A u \in Threads : arg'[u] # Null =>
              /\ Calling(u, "alloc")' \/ Calling(u, "dealloc")'
              /\ owner'[arg'[u]] = Null
              /\ \A v \in Threads \ {u} : arg'[v] # arg'[u]
    <3>1. ASSUME NEW u \in Threads \ {t}, arg'[u] # Null
          PROVE  /\ Calling(u, "alloc")' \/ Calling(u, "dealloc")'
                 /\ owner'[arg'[u]] = Null
                 /\ \A v \in Threads \ {u} : arg'[v] # arg'[u]
          BY <1>2, <1>t, <2>1, <2>4, <2>5, <3>1 DEF ListInv
    <3>2. arg'[t] = a
          BY <1>t, <2>1
    <3> QED BY <2>3, <2>4, <2>5, <3>1, <3>2
  <2>9. \A b \in late' : owner'[b] # Null
        BY <1>t, <2>1, <2>5 DEF ListInv
  <2>10. \A h \in Granules : phase'[h] \in {"closed", "opening"} => HeldIn(h)' = {}
        BY <2>2, <2>6 DEF ListInv
  <2>11. \A h \in Granules : IsFiniteSet(HeldIn(h)') /\ held'[h] = Cardinality(HeldIn(h)')
    <3>0. ASSUME NEW h \in Granules \ {g} PROVE HeldIn(h)' = HeldIn(h) /\ held'[h] = held[h]
      <4>1. a \notin HeldIn(h) /\ held'[h] = held[h]
            BY <2>7
      <4>2. HeldIn(h) \ {a} = HeldIn(h)
            BY <4>1
      <4> QED BY <2>6, <4>1, <4>2
    <3>1. \A h \in Granules \ {g} : IsFiniteSet(HeldIn(h)') /\ held'[h] = Cardinality(HeldIn(h)')
          BY <3>0 DEF ListInv
    <3>2. CASE a \in late
      <4>1. a \notin HeldIn(g) /\ held'[g] = held[g]
            BY <2>1, <3>2 DEF HeldIn
      <4>2. HeldIn(g)' = HeldIn(g)
            BY <2>6, <4>1
      <4> QED BY <3>1, <4>1, <4>2 DEF ListInv
    <3>3. CASE a \notin late
      <4>1. a \in HeldIn(g) /\ held'[g] = held[g] - 1
            BY <1>t, <2>1, <3>3 DEF HeldIn
      <4>2. IsFiniteSet(HeldIn(g)) /\ held[g] = Cardinality(HeldIn(g))
            BY DEF ListInv
      <4>3. IsFiniteSet(HeldIn(g) \ {a}) /\ Cardinality(HeldIn(g) \ {a}) = held[g] - 1
            BY <4>1, <4>2, FS_RemoveElement
      <4>4. HeldIn(g)' = HeldIn(g) \ {a}
            BY <2>6
      <4> QED BY <3>1, <4>1, <4>3, <4>4
    <3> QED BY <3>2, <3>3
  <2>12. ListInv'
        BY <2>8, <2>9, <2>10, <2>11 DEF ListInv
  <2>13. arg'[t] = a /\ HeldIn(g)' = HeldIn(g) \ {a}
        BY <1>t, <2>1, <2>6
  <2> QED BY <2>2, <2>4, <2>6, <2>7, <2>12, <2>13
<1> QED BY <1>3, <1>4, <1>5

\* A call keeps the invariant.
LEMMA CallRecords ==
    ASSUME SoundSlots, MemoryInv, RecordInv, NEW t \in Threads, Call(t)
    PROVE  RecordInv'
<1>0. DiagTypeOK /\ ContractInv /\ ListInv /\ EmptyInv
      BY DEF MemoryInv, RecordInv
<1>1. /\ pc[t] = "idle" /\ pc'[t] \in {"open_cas", "find_occupied"}
      /\ \A u \in Threads \ {t} : pc'[u] = pc[u] /\ call'[u] = call[u]
      /\ UNCHANGED <<ret, slotVars, heap, ptr, report, failures>>
  <2>1. pc \in [Threads -> Labels]
        BY <1>0 DEF DiagTypeOK
  <2> QED BY <1>0, <2>1, CallSteps
<1>2. PICK g \in Granules :
           \/ /\ CallOpen(t, g, "open_cas") \/ CallClose(t, g, "find_occupied")
              /\ UNCHANGED <<arg, owner, late>>
           \/ RegisterCall(t, g, "find_occupied")
           \/ DeregisterCall(t, g, "find_occupied")
      BY DEF Call
<1>3. /\ call'[t].id = g
      /\ phase[g] # "closing"
      /\ call'[t].fn = "open" => phase[g] = "closed"
      /\ \A h \in Granules : phase'[h] = "closed" => phase[h] = "closed"
      BY <1>0, <1>2 DEF DiagTypeOK, ClientTypeOK, Enter, CallOpen, CallClose, RegisterCall, CallAlloc,
           DeregisterCall, CallDealloc, CallLateDealloc, bookVars
<1>4. /\ ListInv'
      /\ \A h \in Granules \ {g} : HeldIn(h)' = HeldIn(h) /\ held'[h] = held[h]
      /\ \A u \in Threads \ {t} : arg'[u] = arg[u]
      /\ HeldIn(g)' \subseteq HeldIn(g)
      /\ HeldIn(g) # HeldIn(g)' => /\ call'[t] = [fn |-> "dealloc", id |-> g]
                                   /\ HeldIn(g) = HeldIn(g)' \cup {arg'[t]}
      BY <1>0, <1>1, <1>2, <1>3, CallLists
<1>5. EmptyInv'
  <2>1. \A u \in Threads \ {t} : Slot(u)' = Slot(u) /\ \A fn : Calling(u, fn)' = Calling(u, fn)
        BY <1>1 DEF Slot, Calling, Active
  <2>2. Calling(t, "open")' => diag[Slot(t)'] = Null
        BY <1>0, <1>3 DEF EmptyInv, Slot, Calling
  <2> QED BY <1>0, <1>1, <1>3, <2>1, <2>2 DEF EmptyInv, slotVars
<1>6. /\ Registered(g)' \subseteq Registered(g)
      /\ Registered(g) \subseteq
             Registered(g)' \cup {arg'[u] : u \in CallsFor(g, "dealloc")'}
  <2> DEFINE R == {u \in CallsFor(g, "alloc") : pc[u] = "ret" /\ ret[u] = 0}
  <2>1. R' = R /\ t \notin R
        BY <1>1 DEF CallsFor, Active
  <2>2. {arg[u] : u \in R}' = {arg[u] : u \in R}
        BY <1>4, <2>1 DEF CallsFor
  <2>3. Registered(g) = HeldIn(g) \cup {arg[u] : u \in R}
        /\ Registered(g)' = HeldIn(g)' \cup {arg[u] : u \in R}'
        BY DEF Registered
  <2>4. call'[t] = [fn |-> "dealloc", id |-> g] => t \in CallsFor(g, "dealloc")'
        BY <1>1 DEF CallsFor, Active
  <2> HIDE DEF R
  <2> QED BY <1>4, <2>2, <2>3, <2>4
<1>7. \A u \in CallsFor(g, "dealloc") : u # t
      BY <1>1 DEF CallsFor, Active
<1>8. \A u \in Threads \ {t} : Calling(u, "close") => call[u].id # g
      BY <1>0, <1>3 DEF ContractInv, PhaseInv
<1>9. RecordsMatch' /\ FreedInv' /\ VerdictExact' /\ ReportExact'
      BY <1>1, <1>3, <1>4, <1>6, <1>7, <1>8, ClientRecords DEF Active
<1> QED BY <1>4, <1>5, <1>9 DEF RecordInv

\* An answer moves the list with its call: what a register recorded enters it, and
\* what a close leaves goes.
LEMMA ReturnLists ==
    ASSUME DiagTypeOK, ContractInv, ArgInv, ListInv, NEW t \in Threads, Return(t),
           NEW g, g = call[t].id
    PROVE  /\ ListInv'
           /\ \A h \in Granules \ {g} : HeldIn(h)' = HeldIn(h) /\ held'[h] = held[h]
           /\ call[t].fn # "close" =>
                  HeldIn(g)' = HeldIn(g) \cup IF call[t].fn = "alloc" /\ ret[t] = 0
                                              THEN {arg[t]} ELSE {}
<1>1. /\ Active(t) /\ ClientReturn(t) /\ pc[t] = "ret" /\ ~Active(t)'
      /\ \A u \in Threads \ {t} : pc'[u] = pc[u] /\ call'[u] = call[u] /\ arg'[u] = arg[u]
      /\ arg' = [arg EXCEPT ![t] = Null]
      BY ReturnSteps
<1>2. call[t] \in Calls /\ g \in Granules
      BY <1>1, SlotOfCall
<1>t. /\ arg \in [Threads -> AllocIds \cup {Null}]
      /\ owner \in [AllocIds -> Granules \cup {Null}] /\ late \subseteq AllocIds
      /\ held \in [Granules -> Nat]
      /\ phase \in [Granules -> {"closed", "opening", "open", "closing"}]
      BY DEF DiagTypeOK, ClientTypeOK
<1>3. \A fn : \A u \in Threads \ {t} : Calling(u, fn)' = Calling(u, fn)
      BY <1>1 DEF Calling, Active
<1>4. /\ \A u \in Threads \ {t} : arg'[u] = arg[u] /\ (arg[u] # Null => arg[u] # arg[t])
      /\ arg'[t] = Null
      BY <1>1, <1>t DEF ListInv
\* What the lists need.
<1>5. SUFFICES /\ \A u \in Threads \ {t} : arg[u] # Null => owner'[arg[u]] = Null
               /\ \A b \in late' : owner'[b] # Null
               /\ \A h \in Granules \ {g} : HeldIn(h)' = HeldIn(h)
                         /\ held'[h] = held[h] /\ phase'[h] = phase[h]
               /\ phase'[g] \in {"closed", "opening"} => HeldIn(g)' = {}
               /\ IsFiniteSet(HeldIn(g)') /\ held'[g] = Cardinality(HeldIn(g)')
               /\ call[t].fn # "close" =>
                      HeldIn(g)' = HeldIn(g) \cup IF call[t].fn = "alloc" /\ ret[t] = 0
                                                  THEN {arg[t]} ELSE {}
      BY <1>3, <1>4 DEF ListInv
<1>6. \A h \in Granules \ {g} : phase'[h] = phase[h] /\ (call[t].fn # "close" => held'[h] = held[h])
      BY <1>1, <1>t DEF ClientReturn
<1>7. CASE call[t].fn = "open"
  <2>1. arg[t] = Null /\ phase[g] = "opening"
        BY <1>1, <1>7 DEF ListInv, Calling, ContractInv, PhaseInv
  <2>2. /\ UNCHANGED <<owner, held>> /\ late' = late
        BY <1>1, <1>7 DEF Return, ListReturn, ClientReturn
  <2>3. \A h : HeldIn(h)' = HeldIn(h)
        BY <2>2 DEF HeldIn
  <2> QED BY <1>2, <1>6, <1>7, <2>1, <2>2, <2>3 DEF ListInv
<1>8. CASE call[t].fn = "close"
  <2>1. /\ UNCHANGED owner /\ late' = late \cup HeldIn(g) /\ held' = [held EXCEPT ![g] = 0]
        BY <1>1, <1>8 DEF Return, ListReturn, ClientReturn
  <2>2. HeldIn(g)' = {} /\ \A h \in Granules \ {g} : HeldIn(h)' = HeldIn(h)
        BY <2>1 DEF HeldIn
  <2>3. \A b \in HeldIn(g) : owner[b] # Null
        BY <1>2, DiagSlotsAssumption DEF HeldIn
  <2>4. IsFiniteSet(HeldIn(g)') /\ Cardinality(HeldIn(g)') = 0
        BY <2>2, FS_EmptySet
  <2> QED BY <1>2, <1>6, <1>8, <1>t, <2>1, <2>2, <2>3, <2>4 DEF ListInv
<1>9. CASE call[t].fn = "dealloc"
  <2>1. /\ UNCHANGED <<owner, held, phase>> /\ late' = late
        BY <1>1, <1>9 DEF Return, ListReturn, ClientReturn
  <2>2. \A h : HeldIn(h)' = HeldIn(h)
        BY <2>1 DEF HeldIn
  <2> QED BY <1>2, <1>9, <2>1, <2>2 DEF ListInv
<1>10. CASE call[t].fn = "alloc"
  <2> DEFINE a == arg[t]
  <2>1. a \in AllocIds /\ a # Null /\ owner[a] = Null /\ a \notin late /\ phase[g] = "open"
        BY <1>1, <1>10, DiagSlotsAssumption DEF ArgInv, ListInv, Calling, ContractInv, PhaseInv
  <2>2. UNCHANGED phase
        BY <1>1, <1>10 DEF ClientReturn
  <2>3. a \notin HeldIn(g) /\ IsFiniteSet(HeldIn(g)) /\ held[g] = Cardinality(HeldIn(g))
        BY <1>2, <2>1, DiagSlotsAssumption DEF HeldIn, ListInv
  <2>4. CASE ret[t] = 0
    <3>1. /\ owner' = [owner EXCEPT ![a] = g] /\ late' = late
          /\ held' = [held EXCEPT ![g] = @ + 1]
          BY <1>1, <1>10, <2>4 DEF Return, ListReturn, ClientReturn
    <3>2. \A b \in AllocIds : owner'[b] = IF b = a THEN g ELSE owner[b]
          BY <1>t, <3>1
    <3>3. HeldIn(g)' = HeldIn(g) \cup {a} /\ \A h \in Granules \ {g} : HeldIn(h)' = HeldIn(h)
      <4> HIDE DEF a
      <4>1. \A h \in Granules : h # Null
            BY DiagSlotsAssumption
      <4>2. \A h \in Granules, b \in AllocIds :
                (owner'[b] = h /\ b \notin late') <=>
                (owner[b] = h /\ b \notin late) \/ (h = g /\ b = a)
            BY <2>1, <3>1, <3>2, <4>1
      <4> QED BY <1>2, <2>1, <4>2 DEF HeldIn
    <3>4. IsFiniteSet(HeldIn(g)') /\ Cardinality(HeldIn(g)') = held[g] + 1
      <4> HIDE DEF a
      <4>1. IsFiniteSet(HeldIn(g) \cup {a}) /\ Cardinality(HeldIn(g) \cup {a}) = held[g] + 1
            BY <2>3, FS_AddElement
      <4> QED BY <3>3, <4>1
    <3>5. held'[g] = held[g] + 1
          BY <1>2, <1>t, <3>1
    <3>6. \A u \in Threads \ {t} : arg[u] # Null => owner'[arg[u]] = Null
          BY <1>4, <1>t, <3>2 DEF ListInv
    <3>7. \A b \in late' : owner'[b] # Null
          BY <1>2, <1>t, <3>1, <3>2, DiagSlotsAssumption DEF ListInv
    <3> QED BY <1>6, <1>10, <2>1, <2>2, <2>4, <3>3, <3>4, <3>5, <3>6, <3>7
  <2>5. CASE ret[t] # 0 /\ Careless
    <3>1. /\ owner' = [owner EXCEPT ![a] = g] /\ late' = late \cup {a}
          /\ held' = [held EXCEPT ![g] = @ + 0]
          BY <1>1, <1>10, <2>5 DEF Return, ListReturn, ClientReturn
    <3>2. \A b \in AllocIds : owner'[b] = IF b = a THEN g ELSE owner[b]
          BY <1>t, <3>1
    <3>3. \A h \in Granules : HeldIn(h)' = HeldIn(h)
      <4> HIDE DEF a
      <4>1. \A h \in Granules : h # Null
            BY DiagSlotsAssumption
      <4>2. \A h \in Granules, b \in AllocIds :
                (owner'[b] = h /\ b \notin late') <=> (owner[b] = h /\ b \notin late)
            BY <2>1, <3>1, <3>2, <4>1
      <4> QED BY <4>2 DEF HeldIn
    <3>4. held'[g] = held[g]
          BY <1>2, <1>t, <3>1
    <3>5. \A u \in Threads \ {t} : arg[u] # Null => owner'[arg[u]] = Null
          BY <1>4, <1>t, <3>2 DEF ListInv
    <3>6. \A b \in late' : owner'[b] # Null
      <4>1. g # Null /\ \A b \in late : owner[b] # Null
            BY <1>2, DiagSlotsAssumption DEF ListInv
      <4> QED BY <1>t, <2>1, <3>1, <3>2, <4>1
    <3> QED BY <1>2, <1>6, <1>10, <2>1, <2>2, <2>3, <2>5, <3>3, <3>4, <3>5, <3>6
  <2>6. CASE ret[t] # 0 /\ ~Careless
    <3>1. /\ UNCHANGED owner /\ late' = late /\ held' = [held EXCEPT ![g] = @ + 0]
          BY <1>1, <1>10, <2>6 DEF Return, ListReturn, ClientReturn
    <3>2. \A h : HeldIn(h)' = HeldIn(h)
          BY <3>1 DEF HeldIn
    <3>3. held'[g] = held[g]
          BY <1>2, <1>t, <3>1
    <3> QED BY <1>2, <1>6, <1>10, <2>1, <2>2, <2>3, <2>6, <3>1, <3>2, <3>3 DEF ListInv
  <2> QED BY <2>4, <2>5, <2>6
<1> QED BY <1>2, <1>7, <1>8, <1>9, <1>10 DEF Calls

\* An answer keeps the invariant.
LEMMA ReturnRecords ==
    ASSUME SoundSlots, MemoryInv, RecordInv, NEW t \in Threads, Return(t)
    PROVE  RecordInv'
<1>0. DiagTypeOK /\ ContractInv /\ ArgInv /\ ListInv /\ EmptyInv
      BY DEF MemoryInv, RecordInv
<1>1. /\ Active(t) /\ ClientReturn(t) /\ pc[t] = "ret" /\ pc' = [pc EXCEPT ![t] = "idle"]
      /\ ~Active(t)'
      /\ \A u \in Threads \ {t} : /\ pc'[u] = pc[u] /\ call'[u] = call[u]
                                  /\ ret'[u] = ret[u] /\ arg'[u] = arg[u]
      /\ UNCHANGED <<slotVars, heap, report>>
      BY <1>0, ReturnSteps
<1>2. PICK g \in Granules : g = call[t].id /\ call[t] \in Calls
      BY <1>0, <1>1, SlotOfCall
<1>3. pc'[t] = "idle"
      BY <1>0, <1>1 DEF DiagTypeOK
<1>4. /\ ListInv'
      /\ \A h \in Granules \ {g} : HeldIn(h)' = HeldIn(h) /\ held'[h] = held[h]
      /\ call[t].fn # "close" =>
             HeldIn(g)' = HeldIn(g) \cup IF call[t].fn = "alloc" /\ ret[t] = 0
                                         THEN {arg[t]} ELSE {}
      BY <1>0, <1>2, ReturnLists
<1>5. EmptyInv'
  <2>1. \A u \in Threads \ {t} : Slot(u)' = Slot(u) /\ \A fn : Calling(u, fn)' = Calling(u, fn)
        BY <1>1 DEF Slot, Calling, Active
  <2>2. \A h \in Granules : phase'[h] = "closed" =>
            \/ phase[h] = "closed"
            \/ h = g /\ call[t].fn = "open" /\ ret[t] # 0
            \/ h = g /\ call[t].fn = "close"
        BY <1>0, <1>1, <1>2 DEF ClientReturn, DiagTypeOK, ClientTypeOK
  <2>3. \/ call[t].fn = "open" /\ ret[t] # 0
        \/ call[t].fn = "close"
        => diag[g % Capacity] = Null
        BY <1>0, <1>1, <1>2 DEF EmptyInv, Calling, Slot
  <2>4. ~Calling(t, "open")' /\ ~Calling(t, "close")'
        BY <1>1 DEF Calling
  <2> QED BY <1>0, <1>1, <2>1, <2>2, <2>3, <2>4 DEF EmptyInv, slotVars
<1>6. \/ \A c \in Cells : heap[c] # Null => heap[c].granule_id # g
      \/ Registered(g)' = Registered(g)
  <2>1. CASE call[t].fn = "close"
    <3>1. diag[g % Capacity] = Null
          BY <1>0, <1>1, <1>2, <2>1 DEF EmptyInv, Calling, Slot
    <3>2. \A u \in Threads : pc[u] \in Detached => ~On(u, g)
          BY <1>1, <1>2, <2>1, CloserAlone DEF Calling, Detached
    <3> QED BY <3>1, <3>2, NoState
  <2>2. CASE call[t].fn # "close"
    <3> DEFINE R == {u \in CallsFor(g, "alloc") : pc[u] = "ret" /\ ret[u] = 0}
    <3>1. R' = R \ {t}
          BY <1>1 DEF CallsFor, Active
    <3>2. t \in R <=> call[t].fn = "alloc" /\ ret[t] = 0
          BY <1>1, <1>2 DEF CallsFor, Calls
    <3>3. {arg[u] : u \in R}' = {arg[u] : u \in R \ {t}}
          BY <1>1, <3>1 DEF CallsFor
    <3>4. Registered(g) = HeldIn(g) \cup {arg[u] : u \in R}
          /\ Registered(g)' = HeldIn(g)' \cup {arg[u] : u \in R}'
          BY DEF Registered
    <3> HIDE DEF R
    <3> QED BY <1>4, <2>2, <3>2, <3>3, <3>4
  <2> QED BY <2>1, <2>2
<1>7. \A u \in Threads \ {t} : Calling(u, "close") => call[u].id # g
      BY <1>1, <1>2, CloserAlone DEF On
<1>8. \A u \in CallsFor(g, "dealloc") : u # t \/ pc[u] = "ret"
      BY <1>1
<1>9. RecordsMatch' /\ FreedInv' /\ VerdictExact' /\ ReportExact'
      BY <1>1, <1>2, <1>3, <1>4, <1>6, <1>7, <1>8, ClientRecords
<1> QED BY <1>4, <1>5, <1>9 DEF RecordInv

-----------------------------------------------------------------------------
(* The theorems                                                            *)

\* The invariant holds at first
LEMMA RecordsInit == Init => RecordInv
<1> SUFFICES ASSUME Init PROVE RecordInv
    OBVIOUS
<1> USE DEF Init, DiagSlotsInit, ClientInit, Active, Calling
<1>1. \A g \in Granules : HeldIn(g) = {}
      BY DiagSlotsAssumption DEF HeldIn
<1>2. ListInv
      BY <1>1, FS_EmptySet DEF ListInv
<1>3. EmptyInv
      BY ClientAssumption DEF EmptyInv, Slots
<1>4. FreedInv /\ RecordsMatch /\ VerdictExact /\ ReportExact
      BY DEF FreedInv, RecordsMatch, VerdictExact, ReportExact, InUseCells
<1> QED BY <1>2, <1>3, <1>4 DEF RecordInv

\* and after every step.
LEMMA RecordsNext ==
    ASSUME SoundSlots PROVE MemoryInv /\ RecordInv /\ [Next]_vars => RecordInv'
<1> SUFFICES ASSUME MemoryInv, RecordInv, [Next]_vars PROVE RecordInv'
    OBVIOUS
<1>1. CASE UNCHANGED vars
  <2> USE <1>1 DEF RecordInv, vars, diagVars, slotVars, localVars, clientVars, bookVars
  <2>1. /\ \A t \in Threads : /\ Slot(t)' = Slot(t)
                              /\ \A fn : Calling(t, fn)' = Calling(t, fn)
        /\ \A h : /\ HeldIn(h)' = HeldIn(h) /\ Registered(h)' = Registered(h)
                  /\ \A fn : CallsFor(h, fn)' = CallsFor(h, fn)
        BY DEF Slot, Calling, Active, HeldIn, Registered, CallsFor
  <2>2. ListInv' /\ EmptyInv' /\ FreedInv'
        BY <2>1 DEF ListInv, EmptyInv, FreedInv, InUseCells
  <2>3. RecordsMatch' /\ VerdictExact' /\ ReportExact'
        BY <2>1 DEF RecordsMatch, VerdictExact, ReportExact, InUseCells
  <2> QED BY <2>2, <2>3
<1> QED BY <1>1, CallRecords, ReturnRecords, StepRecords DEF Next, Step

\* The invariant of the records holds in every state of every instance.
THEOREM RecordsInvariant == ASSUME SoundSlots PROVE Spec => []RecordInv
BY MemoryInvariant, RecordsInit, RecordsNext, PTL DEF Spec

\* The unfreed records of an open granule are the allocations its client holds, in
\* whatever order and however often ids are registered and freed.
THEOREM RecordsAreExact == ASSUME SoundSlots PROVE Spec => []RecordsMatch
<1>1. RecordInv => RecordsMatch
      BY DEF RecordInv
<1> QED BY <1>1, RecordsInvariant, PTL

\* The verdict of a close is the number of allocations the client holds.
THEOREM VerdictsAreExact == ASSUME SoundSlots PROVE Spec => []VerdictExact
<1>1. RecordInv => VerdictExact
      BY DEF RecordInv
<1> QED BY <1>1, RecordsInvariant, PTL

\* The report of a pinned granule names the allocations that pin it.
THEOREM ReportsAreExact == ASSUME SoundSlots PROVE Spec => []ReportExact
<1>1. RecordInv => ReportExact
      BY DEF RecordInv
<1> QED BY <1>1, RecordsInvariant, PTL

-----------------------------------------------------------------------------
(* The slots implement the ledger: every operation of every thread is an  *)
(* atomic act on the ledger, or does not show in it.                       *)

\* The states that show in the ledger as granule g.
At(g) == {c \in Cells : heap[c] # Null /\ heap[c].granule_id = g /\ OpenAt(c)}

Entry(o, n) == [open |-> o, live |-> n]
Open(n)     == Entry(TRUE, n)

\* Counting in an entry of the ledger.
LEMMA EntryCount ==
    ASSUME NEW o, NEW n, NEW m PROVE [Entry(o, n) EXCEPT !.live = m] = Entry(o, m)
<1>1. [[open |-> o, live |-> n] EXCEPT !.live = m] = [open |-> o, live |-> m]
      BY SMT
<1> QED BY Zenon, <1>1 DEF Entry

LEMMA OpenEntry ==
    ASSUME NEW n, NEW e, e = Open(n)
    PROVE  /\ e.open /\ e.live = n
           /\ [e EXCEPT !.live = @ + 1] = Open(n + 1)
           /\ [e EXCEPT !.live = @ - 1] = Open(n - 1)
<1>1. e.open
      BY Zenon DEF Open, Entry
<1>2. e.live = n
      BY Zenon DEF Open, Entry
<1>3. \A m : [e EXCEPT !.live = m] = Open(m)
      BY Zenon, EntryCount DEF Open
<1>4. [e EXCEPT !.live = e.live + 1] = Open(n + 1) /\ [e EXCEPT !.live = e.live - 1] = Open(n - 1)
      BY Zenon, <1>2, <1>3
<1> QED BY Zenon, <1>1, <1>2, <1>4

\* What the ledger says of a granule with no such state, and with one.
LEMMA EntryClosed == \A g : At(g) = {} => LedgerEntry(g) = Ledger!Closed
BY DEF LedgerEntry, At, Records, Ledger!Closed

LEMMA EntryOpen == \A g, c : At(g) = {c} => LedgerEntry(g) = Open(heap[c].live_count)
<1> SUFFICES ASSUME NEW g, NEW c, At(g) = {c}
             PROVE  LedgerEntry(g) = Open(heap[c].live_count)
    OBVIOUS
<1>1. {e \in Records(g) : OpenAt(e)} = {c}
      BY DEF At, Records
<1>2. (CHOOSE e \in {c} : TRUE) = c
      OBVIOUS
<1> QED BY <1>1, <1>2 DEF LedgerEntry, Open, Entry

\* The same after a step.
LEMMA EntryNext ==
    /\ \A g : At(g)' = {} => LedgerEntry(g)' = Ledger!Closed
    /\ \A g, c : At(g)' = {c} => LedgerEntry(g)' = Open(heap'[c].live_count)
<1>1. (\A g : At(g) = {} => LedgerEntry(g) = Ledger!Closed)'
      BY EntryClosed, PTL
<1>2. (\A g, c : At(g) = {c} => LedgerEntry(g) = Open(heap[c].live_count))'
      BY EntryOpen, PTL
<1> QED BY <1>1, <1>2 DEF Open, Entry, Ledger!Closed

\* A granule shows one state at most; so if the states that show and their counts
\* stay, so does the entry.
LEMMA EntryStays ==
    ASSUME SoundSlots, MemoryInv, NEW g, At(g)' = At(g),
           \A c \in At(g) : heap'[c].live_count = heap[c].live_count
    PROVE  LedgerEntry(g)' = LedgerEntry(g)
<1>1. CASE At(g) = {}
      BY <1>1, EntryClosed, EntryNext
<1>2. CASE At(g) # {}
  <2>1. PICK c : c \in At(g)
        BY <1>2
  <2>2. At(g) = {c}
        BY <2>1, OneState DEF At
  <2> QED BY <2>1, <2>2, EntryOpen, EntryNext
<1> QED BY <1>1, <1>2

-----------------------------------------------------------------------------
(* Which states show                                                       *)

\* An operation that changes no slot, and takes its thread neither to nor from the
\* operations of a close that holds a state which still shows, hides and shows none.
LEMMA ShownStay ==
    ASSUME MemoryInv, NEW t \in Threads, SlotStep(t), diag' = diag,
           pc[t] \in {"close_release", "close_load"} <=> pc'[t] \in {"close_release", "close_load"},
           pc[t] \in {"close_release", "close_load"} => ptr'[t] = ptr[t],
           NEW c
    PROVE  OpenAt(c)' = OpenAt(c)
<1>1. \A u \in Threads \ {t} : pc'[u] = pc[u] /\ ptr'[u] = ptr[u]
      BY StepFrame DEF MemoryInv
<1> QED BY <1>1 DEF OpenAt, InSlots

\* The state a close has taken shows until its live count is loaded.
LEMMA HandsShow ==
    ASSUME MemoryInv, NEW t \in Threads, pc[t] \in Detached
    PROVE  OpenAt(ptr[t]) <=> pc[t] \in {"close_release", "close_load"}
<1>1. ptr[t] \notin InSlots
      BY DEF MemoryInv, NoLeak, InHands
<1>2. \A u \in Threads : ptr[u] = ptr[t] /\ pc[u] \in {"close_release", "close_load"} => u = t
      BY DEF MemoryInv, NoLeak, Detached
<1> QED BY <1>1, <1>2 DEF OpenAt

\* What shows in the slot of a granule.
LEMMA SlotsShow ==
    ASSUME MemoryInv, NEW s \in Slots, diag[s] # Null
    PROVE  OpenAt(diag[s])
BY DEF OpenAt, InSlots

-----------------------------------------------------------------------------
(* Steps of the ledger                                                     *)

MappedPc     == [u \in Threads |-> LedgerPc(u)]
MappedLedger == [h \in Granules |-> LedgerEntry(h)]

\* A step that does not show.
LEMMA Stutters ==
    ASSUME \A u \in Threads : LedgerPc(u)' = LedgerPc(u),
           UNCHANGED <<call, ret, bookVars>>,
           \A h \in Granules : LedgerEntry(h)' = LedgerEntry(h)
    PROVE  UNCHANGED Ledger!vars
BY DEF Ledger!vars, Ledger!clientVars, Ledger!bookVars, bookVars

\* A step that answers a call.
LEMMA Acts ==
    ASSUME DiagTypeOK, NEW t \in Threads, NEW g \in Granules, g = call[t].id,
           LedgerPc(t) = "pending", LedgerPc(t)' = "ret",
           \A u \in Threads \ {t} : LedgerPc(u)' = LedgerPc(u),
           NEW v, ret' = [ret EXCEPT ![t] = v],
           UNCHANGED <<call, bookVars>>,
           NEW f, LedgerEntry(g)' = f,
           \A h \in Granules \ {g} : LedgerEntry(h)' = LedgerEntry(h)
    PROVE  Ledger!Do(t, call[t].fn, LedgerEntry(g), f, v) /\ Ledger!Entry(t) = LedgerEntry(g)
<1>1. [h \in Granules |-> LedgerEntry(h)]' = [[h \in Granules |-> LedgerEntry(h)] EXCEPT ![g] = f]
      OBVIOUS
<1>2. [u \in Threads |-> LedgerPc(u)]' = [[u \in Threads |-> LedgerPc(u)] EXCEPT ![t] = "ret"]
      OBVIOUS
<1> QED BY <1>1, <1>2 DEF Ledger!Do, Ledger!Answer, Ledger!Goto, Ledger!bookVars, bookVars, Ledger!Entry

\* Where a thread is in the ledger: a close has acted when it has loaded its count.
Answered == {"ret", "close_report", "close_push", "close_destroy"}

LEMMA WhereInLedger ==
    \A u \in Threads : LedgerPc(u) = IF pc[u] = "idle" THEN "idle"
                                     ELSE IF pc[u] \in Answered THEN "ret" ELSE "pending"
BY DEF LedgerPc, Answered

LEMMA WhereInLedgerNext ==
    \A u \in Threads : LedgerPc(u)' = IF pc'[u] = "idle" THEN "idle"
                                      ELSE IF pc'[u] \in Answered THEN "ret" ELSE "pending"
BY DEF LedgerPc, Answered

\* An operation that leaves the heap alone, and shows and hides nothing, leaves the
\* ledger alone.
LEMMA QuietEntries ==
    ASSUME SoundSlots, MemoryInv, heap' = heap, \A c \in Cells : OpenAt(c)' = OpenAt(c), NEW g
    PROVE  LedgerEntry(g)' = LedgerEntry(g)
<1>1. At(g)' = At(g)
      BY DEF At
<1> QED BY <1>1, EntryStays

\* It does not show, or it refuses the call.
LEMMA QuietLedger ==
    ASSUME SoundSlots, MemoryInv, NEW t \in Threads, SlotStep(t), UNCHANGED <<diag, heap>>,
           pc[t] \in {"close_release", "close_load"} <=> pc'[t] \in {"close_release", "close_load"},
           pc[t] \in {"close_release", "close_load"} => ptr'[t] = ptr[t],
           \/ /\ ret' = ret
              /\ pc[t] \in Answered <=> pc'[t] \in Answered
           \/ /\ ret' = [ret EXCEPT ![t] = -1] /\ call[t].fn # "close"
              /\ pc[t] \notin Answered /\ pc'[t] = "ret"
    PROVE  UNCHANGED Ledger!vars \/ Ledger!DoRefuse(t)
<1>1. /\ UNCHANGED <<call, bookVars>> /\ Active(t) /\ Active(t)'
      /\ \A u \in Threads \ {t} : pc'[u] = pc[u]
      BY StepFrame DEF MemoryInv
<1>2. \A h : LedgerEntry(h)' = LedgerEntry(h)
  <2>1. \A c \in Cells : OpenAt(c)' = OpenAt(c)
        BY ShownStay
  <2> QED BY <2>1, QuietEntries
<1>3. \A u \in Threads \ {t} : LedgerPc(u)' = LedgerPc(u)
      BY <1>1, WhereInLedger, WhereInLedgerNext
<1>4. CASE ret' = ret /\ (pc[t] \in Answered <=> pc'[t] \in Answered)
  <2>1. LedgerPc(t)' = LedgerPc(t)
        BY <1>1, <1>4, WhereInLedger, WhereInLedgerNext DEF Active
  <2> QED BY <1>1, <1>2, <1>3, <1>4, <2>1, Stutters
<1>5. CASE /\ ret' = [ret EXCEPT ![t] = -1] /\ call[t].fn # "close"
           /\ pc[t] \notin Answered /\ pc'[t] = "ret"
  <2>1. LedgerPc(t) = "pending" /\ LedgerPc(t)' = "ret"
        BY <1>1, <1>5, WhereInLedger, WhereInLedgerNext DEF Active, Answered
  <2>2. PICK g \in Granules : g = call[t].id
        BY <1>1, SlotOfCall DEF MemoryInv
  <2>3. /\ Ledger!Do(t, call[t].fn, LedgerEntry(g), LedgerEntry(g), -1)
        /\ Ledger!Entry(t) = LedgerEntry(g)
        BY <1>1, <1>2, <1>3, <1>5, <2>1, <2>2, Acts DEF MemoryInv
  <2> QED BY <1>5, <2>3 DEF Ledger!DoRefuse
<1> QED BY <1>4, <1>5

\* An open acts when it publishes the granule's state.
LEMMA CreateLedger ==
    ASSUME SoundSlots, MemoryInv, RecordInv, NEW t \in Threads, OpenCreate(t), heap' # heap
    PROVE  Ledger!DoOpen(t)
<1> DEFINE s == Slot(t)
<1>0. DiagTypeOK /\ LabelInv /\ PlaceInv /\ ContractInv /\ SlotStep(t)
      BY DEF MemoryInv, SlotStep
<1>1. /\ UNCHANGED <<call, bookVars>> /\ Active(t) /\ pc[t] = "open_create" /\ call[t].fn = "open"
      /\ \A u \in Threads \ {t} : pc'[u] = pc[u] /\ ptr'[u] = ptr[u]
      BY <1>0, StepFrame DEF OpenCreate, LabelInv
<1>2. PICK g \in Granules : g = call[t].id
      BY <1>0, <1>1, SlotOfCall
<1>3. s \in Slots /\ diag[s] = Null /\ s = g % Capacity
      BY <1>0, <1>1, <1>2, SlotOfCall DEF PlaceInv, Slot
<1>t. /\ heap \in [Cells -> DiagType \cup {Null}] /\ pc \in [Threads -> Labels]
      /\ diag \in [Slots -> Cells \cup {Null}]
      BY <1>0 DEF DiagTypeOK
<1>4. PICK c \in Cells :
          /\ heap[c] = Null /\ heap' = [heap EXCEPT ![c] = NewDiag(g)]
          /\ diag' = [diag EXCEPT ![s] = c]
          /\ pc'[t] = "ret" /\ ret' = [ret EXCEPT ![t] = 0]
      BY <1>2, <1>t DEF OpenCreate, Answer, Goto
<1>5. /\ \A e \in Cells : heap'[e] = IF e = c THEN NewDiag(g) ELSE heap[e]
      /\ \A r \in Slots : diag'[r] = IF r = s THEN c ELSE diag[r]
      /\ c # Null /\ NewDiag(g) # Null
      /\ NewDiag(g).granule_id = g /\ NewDiag(g).live_count = 0
      BY <1>2, <1>4, <1>t, NewDiagOK, ClientAssumption, DiagSlotsAssumption
<1> HIDE DEF s
<1>6. \A e \in Cells \ {c} : OpenAt(e)' = OpenAt(e)
  <2>1. \A e \in Cells \ {c} : e \in InSlots' <=> e \in InSlots
        BY <1>3, <1>5, DiagSlotsAssumption DEF InSlots
  <2> QED BY <1>1, <1>4, <2>1 DEF OpenAt
<1>7. OpenAt(c)'
      BY <1>3, <1>5 DEF OpenAt, InSlots
<1>8. LedgerEntry(g) = Ledger!Closed
  <2>1. \A u \in Threads : pc[u] \in Detached => ~On(u, g)
        BY <1>0, <1>1, <1>2 DEF LabelInv, ContractInv, AloneInv, On
  <2>2. \A e \in Cells : heap[e] # Null => heap[e].granule_id # g
        BY <1>3, <2>1, NoState
  <2> QED BY <2>2, EntryClosed DEF At
<1>9. LedgerEntry(g)' = Open(0)
  <2>1. \A e \in Cells : heap[e] # Null => heap[e].granule_id # g
    <3>1. \A u \in Threads : pc[u] \in Detached => ~On(u, g)
          BY <1>0, <1>1, <1>2 DEF LabelInv, ContractInv, AloneInv, On
    <3> QED BY <1>3, <3>1, NoState
  <2>2. At(g)' = {c}
        BY <1>5, <1>7, <2>1 DEF At
  <2> QED BY <1>5, <2>2, EntryNext
<1>10. ASSUME NEW h \in Granules \ {g} PROVE LedgerEntry(h)' = LedgerEntry(h)
  <2>1. At(h)' = At(h) /\ \A e \in At(h) : heap'[e].live_count = heap[e].live_count
        BY <1>4, <1>5, <1>6 DEF At
  <2> QED BY <2>1, EntryStays
<1>11. /\ LedgerPc(t) = "pending" /\ LedgerPc(t)' = "ret"
       /\ \A u \in Threads \ {t} : LedgerPc(u)' = LedgerPc(u)
      BY <1>1, <1>4, WhereInLedger, WhereInLedgerNext DEF Answered
<1>12. Ledger!Do(t, call[t].fn, LedgerEntry(g), Open(0), 0)
      BY <1>0, <1>1, <1>2, <1>4, <1>9, <1>10, <1>11, Acts
<1> QED BY <1>1, <1>8, <1>12 DEF Ledger!DoOpen, Open, Entry

\* A register and a deregister act when they change the records.
LEMMA UpdateLedger ==
    ASSUME SoundSlots, MemoryInv, RecordInv, NEW t \in Threads,
           AllocAdd(t) \/ DeallocMark(t), pc'[t] = "ret", ret' = [ret EXCEPT ![t] = 0]
    PROVE  Ledger!DoAlloc(t) \/ Ledger!DoDealloc(t)
<1> DEFINE c == ptr[t]
<1>0. /\ DiagTypeOK /\ LabelInv /\ PlaceInv /\ SlotStep(t) /\ pc[t] \in Using
      /\ pc[t] \in {"add_alloc", "mark_freed"} /\ RecordsMatch
      BY DEF MemoryInv, RecordInv, SlotStep, AllocAdd, DeallocMark, Using
<1>1. /\ UNCHANGED <<call, bookVars>> /\ Active(t)
      /\ \A u \in Threads \ {t} : pc'[u] = pc[u]
      BY <1>0, StepFrame
<1>2. PICK g \in Granules : g = call[t].id
      BY <1>0, StateOfUse
<1>3. /\ c \in Cells /\ heap[c] # Null /\ heap[c] \in DiagType /\ heap[c].granule_id = g
      /\ DiagOK(heap[c])
      BY <1>0, <1>2, StateOfUse DEF RecordsMatch, InUseCells
<1>4. OpenAt(c)
  <2>1. c = diag[Slot(t)] /\ c # Null
        BY <1>0 DEF PlaceInv
  <2>2. Slot(t) \in Slots
        BY <1>0, <1>1, SlotOfCall
  <2> QED BY <2>1, <2>2, SlotsShow
<1>t. heap \in [Cells -> DiagType \cup {Null}]
      BY <1>0 DEF DiagTypeOK
<1>5. arg[t] \in AllocIds
      BY <1>0, <1>1 DEF MemoryInv, ArgInv, LabelInv, Calling
<1>6. UNCHANGED <<diag, ptr>>
      BY DEF AllocAdd, DeallocMark, slotVars
<1>7. \A e : OpenAt(e)' = OpenAt(e)
      BY <1>0, <1>6, ShownStay
<1>8. At(g) = {c}
      BY <1>3, <1>4, OneState DEF At
<1>9. LedgerEntry(g) = Open(heap[c].live_count) /\ heap[c].live_count \in Int
      BY <1>3, <1>8, EntryOpen, RecordNumbers
<1>10. /\ LedgerPc(t) = "pending" /\ LedgerPc(t)' = "ret"
       /\ \A u \in Threads \ {t} : LedgerPc(u)' = LedgerPc(u)
      BY <1>0, <1>1, WhereInLedger, WhereInLedgerNext DEF Answered
\* One state changes, and keeps its granule.
<1>11. ASSUME NEW d \in DiagType, d.granule_id = g, heap' = [heap EXCEPT ![c] = d]
       PROVE  Ledger!Do(t, call[t].fn, Open(heap[c].live_count), Open(d.live_count), 0)
  <2>1. \A e \in Cells : heap'[e] = IF e = c THEN d ELSE heap[e]
        BY <1>t, <1>11
  <2>2. d # Null
        BY DiagSlotsAssumption
  <2>3. \A h : At(h)' = At(h)
        BY <1>3, <1>7, <1>11, <2>1, <2>2 DEF At
  <2>4. LedgerEntry(g)' = Open(d.live_count)
        BY <1>3, <1>8, <2>1, <2>3, EntryNext
  <2>5. ASSUME NEW h \in Granules \ {g} PROVE LedgerEntry(h)' = LedgerEntry(h)
    <3>1. \A e \in At(h) : heap'[e].live_count = heap[e].live_count
          BY <1>3, <2>1 DEF At
    <3> QED BY <2>3, <3>1, EntryStays
  <2> QED BY <1>0, <1>1, <1>2, <1>9, <1>10, <2>4, <2>5, Acts
<1>12. Ledger!Entry(t) = LedgerEntry(g)
      BY <1>2 DEF Ledger!Entry
<1>13. CASE AllocAdd(t)
  <2>1. heap' = [heap EXCEPT ![c] = AddAlloc(heap[c], arg[t])] /\ call[t].fn = "alloc"
    <3>1. ret[t] \in Int /\ ret'[t] = 0
          BY <1>0 DEF DiagTypeOK, ClientTypeOK
    <3> QED BY <1>0, <1>13, <3>1 DEF AllocAdd, Update, Answer, LabelInv, DiagTypeOK, ClientTypeOK
  <2>2. /\ AddAlloc(heap[c], arg[t]) \in DiagType /\ AddAlloc(heap[c], arg[t]).granule_id = g
        /\ AddAlloc(heap[c], arg[t]).live_count = heap[c].live_count + 1
        BY <1>3, <1>5, AddAllocRecords
  <2>3. Ledger!Do(t, "alloc", Open(heap[c].live_count), Open(heap[c].live_count + 1), 0)
        BY <1>11, <2>1, <2>2
  <2> DEFINE n == heap[c].live_count
  <2>4. Ledger!Entry(t) = Open(n)
        BY <1>9, <1>12
  <2> HIDE DEF n
  <2>5. Ledger!Entry(t).open /\ [Ledger!Entry(t) EXCEPT !.live = @ + 1] = Open(n + 1)
        BY <2>4, OpenEntry
  <2> QED BY <2>3, <2>4, <2>5 DEF Ledger!DoAlloc, n
<1>14. CASE DeallocMark(t)
  <2>1. /\ heap' = [heap EXCEPT ![c] = MarkFreed(heap[c], arg[t])] /\ call[t].fn = "dealloc"
        /\ Matches(heap[c], arg[t]) # {}
    <3>1. ret[t] \in Int /\ ret'[t] = 0
          BY <1>0 DEF DiagTypeOK, ClientTypeOK
    <3> QED BY <1>0, <1>14, <3>1 DEF DeallocMark, Update, Answer, LabelInv, DiagTypeOK, ClientTypeOK
  <2>2. arg[t] \in LiveIds(heap[c])
        BY <2>1, MatchesIffLive
  <2>3. /\ MarkFreed(heap[c], arg[t]) \in DiagType /\ MarkFreed(heap[c], arg[t]).granule_id = g
        /\ MarkFreed(heap[c], arg[t]).live_count = heap[c].live_count - 1
        BY <1>3, <1>5, <2>1, MarkFreedRecords DEF DiagOK
  <2>4. heap[c].live_count \in Nat \ {0}
        BY <1>3, <1>5, <2>2, MarkFreedLive
  <2>5. Ledger!Do(t, "dealloc", Open(heap[c].live_count), Open(heap[c].live_count - 1), 0)
        BY <1>11, <2>1, <2>3
  <2> DEFINE n == heap[c].live_count
  <2>6. Ledger!Entry(t) = Open(n) /\ n > 0
        BY <1>9, <1>12, <2>4
  <2> HIDE DEF n
  <2>7. /\ Ledger!Entry(t).open /\ Ledger!Entry(t).live > 0
        /\ [Ledger!Entry(t) EXCEPT !.live = @ - 1] = Open(n - 1)
        BY <2>6, OpenEntry
  <2> QED BY <2>5, <2>6, <2>7 DEF Ledger!DoDealloc, n
<1> QED BY <1>13, <1>14

\* A close that takes the state does not show.
LEMMA TakeLedger ==
    ASSUME SoundSlots, MemoryInv, NEW t \in Threads, CloseTake(t)
    PROVE  UNCHANGED Ledger!vars
<1> DEFINE c == ptr[t]
           s == Slot(t)
<1>0. DiagTypeOK /\ PlaceInv /\ SlotStep(t) /\ pc[t] = "close_take"
      BY DEF MemoryInv, SlotStep, CloseTake
<1>1. /\ UNCHANGED <<call, bookVars>> /\ Active(t)
      /\ \A u \in Threads \ {t} : pc'[u] = pc[u] /\ ptr'[u] = ptr[u]
      BY <1>0, StepFrame DEF MemoryInv
<1>2. s \in Slots /\ c # Null /\ c = diag[s]
      BY <1>0, <1>1, SlotOfCall DEF PlaceInv
<1>3. /\ ptr'[t] = c /\ diag' = [diag EXCEPT ![s] = Null] /\ pc'[t] = "close_release"
      /\ UNCHANGED <<heap, ret>>
      BY <1>0, <1>2 DEF CloseTake, Goto, Reread, DiagTypeOK
<1>4. \A r \in Slots : diag'[r] = IF r = s THEN Null ELSE diag[r]
      BY <1>0, <1>3 DEF DiagTypeOK
<1> HIDE DEF c, s
<1>5. ASSUME NEW e \in Cells PROVE OpenAt(e)' = OpenAt(e)
  <2>1. CASE e = c
    <3>1. OpenAt(e)
          BY <1>2, <2>1, SlotsShow
    <3>2. OpenAt(e)'
          BY <1>3, <2>1 DEF OpenAt
    <3> QED BY <3>1, <3>2
  <2>2. CASE e # c
    <3>1. e \in InSlots' <=> e \in InSlots
          BY <1>2, <1>4, <2>2, DiagSlotsAssumption DEF InSlots
    <3> QED BY <1>0, <1>1, <1>3, <2>2, <3>1 DEF OpenAt, c
  <2> QED BY <2>1, <2>2
<1>6. \A h : LedgerEntry(h)' = LedgerEntry(h)
      BY <1>3, <1>5, QuietEntries
<1>7. \A u \in Threads : LedgerPc(u)' = LedgerPc(u)
      BY <1>0, <1>1, <1>3, WhereInLedger, WhereInLedgerNext DEF Answered
<1> QED BY <1>1, <1>3, <1>6, <1>7, Stutters

\* A close acts when it loads the live count.
LEMMA LoadLedger ==
    ASSUME SoundSlots, MemoryInv, NEW t \in Threads, CloseLoad(t)
    PROVE  Ledger!DoClose(t)
<1> DEFINE c == ptr[t]
           n == heap[c].live_count
<1>0. /\ DiagTypeOK /\ LabelInv /\ SlotStep(t) /\ pc[t] = "close_load"
      /\ pc[t] \in Detached /\ pc[t] \in Using
      BY DEF MemoryInv, SlotStep, CloseLoad, Using, Detached
<1>1. /\ UNCHANGED <<call, bookVars>> /\ Active(t) /\ call[t].fn = "close"
      /\ \A u \in Threads \ {t} : pc'[u] = pc[u]
      BY <1>0, StepFrame DEF LabelInv
<1>2. PICK g \in Granules : g = call[t].id
      BY <1>0, StateOfUse
<1>3. c \in Cells /\ heap[c] # Null /\ heap[c].granule_id = g
      BY <1>0, <1>2, StateOfUse
<1>4. /\ UNCHANGED <<heap, diag, ptr>> /\ ret' = [ret EXCEPT ![t] = n]
      /\ pc'[t] \in {"close_destroy", "close_report"}
      BY <1>0 DEF CloseLoad, Goto, slotVars, DiagTypeOK
<1> HIDE DEF n
<1>5. OpenAt(c) /\ c \notin InSlots /\ \A u \in Threads \ {t} : pc[u] \in Detached => ptr[u] # c
      BY <1>0, HandsShow DEF MemoryInv, NoLeak, InHands
<1>6. ~OpenAt(c)'
  <2>1. InSlots' = InSlots
        BY <1>4 DEF InSlots
  <2> QED BY <1>1, <1>4, <1>5, <2>1 DEF OpenAt, Detached
<1>7. ASSUME NEW e \in Cells \ {c} PROVE OpenAt(e)' = OpenAt(e)
  <2>1. InSlots' = InSlots
        BY <1>4 DEF InSlots
  <2> QED BY <1>1, <1>4, <1>7, <2>1 DEF OpenAt
<1>8. At(g) = {c}
      BY <1>3, <1>5, OneState DEF At
<1>9. LedgerEntry(g) = Open(n)
      BY <1>8, EntryOpen DEF n
<1>10. LedgerEntry(g)' = Ledger!Closed
  <2>1. At(g)' = {}
        BY <1>4, <1>6, <1>7, <1>8 DEF At
  <2> QED BY <2>1, EntryNext
<1>11. ASSUME NEW h \in Granules \ {g} PROVE LedgerEntry(h)' = LedgerEntry(h)
  <2>1. At(h)' = At(h)
        BY <1>3, <1>4, <1>7 DEF At
  <2> QED BY <1>4, <2>1, EntryStays
<1>12. /\ LedgerPc(t) = "pending" /\ LedgerPc(t)' = "ret"
       /\ \A u \in Threads \ {t} : LedgerPc(u)' = LedgerPc(u)
      BY <1>0, <1>1, <1>4, WhereInLedger, WhereInLedgerNext DEF Answered
<1>13. /\ Ledger!Do(t, call[t].fn, LedgerEntry(g), Ledger!Closed, n)
       /\ Ledger!Entry(t) = LedgerEntry(g)
      BY <1>0, <1>1, <1>2, <1>4, <1>10, <1>11, <1>12, Acts
<1>14. Ledger!Entry(t).open /\ Ledger!Entry(t).live = n
      BY <1>9, <1>13, OpenEntry
<1> QED BY <1>1, <1>13, <1>14 DEF Ledger!DoClose

\* What a close destroys does not show any more.
LEMMA DestroyLedger ==
    ASSUME SoundSlots, MemoryInv, NEW t \in Threads, CloseDestroy(t)
    PROVE  UNCHANGED Ledger!vars
<1> DEFINE c == ptr[t]
<1>0. /\ DiagTypeOK /\ SlotStep(t) /\ pc[t] = "close_destroy" /\ pc[t] \in Detached
      BY DEF MemoryInv, SlotStep, CloseDestroy, Detached
<1>1. /\ UNCHANGED <<call, bookVars>>
      /\ \A u \in Threads \ {t} : pc'[u] = pc[u]
      BY <1>0, StepFrame DEF MemoryInv
<1>2. /\ UNCHANGED <<diag, ptr, ret>> /\ heap' = [heap EXCEPT ![c] = Null] /\ pc'[t] = "ret"
      BY <1>0 DEF CloseDestroy, Goto, slotVars, DiagTypeOK
<1>3. \A e \in Cells : heap'[e] = IF e = c THEN Null ELSE heap[e]
      BY <1>0, <1>2 DEF DiagTypeOK
<1>4. ~OpenAt(c)
      BY <1>0, HandsShow
<1>5. \A e \in Cells : OpenAt(e)' = OpenAt(e)
      BY <1>0, <1>2, ShownStay
<1> HIDE DEF c
<1>6. ASSUME NEW h PROVE LedgerEntry(h)' = LedgerEntry(h)
  <2>1. At(h)' = At(h) /\ \A e \in At(h) : heap'[e] = heap[e]
        BY <1>3, <1>4, <1>5 DEF At
  <2> QED BY <2>1, EntryStays
<1>7. \A u \in Threads : LedgerPc(u)' = LedgerPc(u)
      BY <1>0, <1>1, <1>2, WhereInLedger, WhereInLedgerNext DEF Answered
<1> QED BY <1>1, <1>2, <1>6, <1>7, Stutters

\* Every operation of a call acts on the ledger once, or does not show.
LEMMA StepLedger ==
    ASSUME SoundSlots, MemoryInv, RecordInv, NEW t \in Threads, SlotStep(t)
    PROVE  UNCHANGED Ledger!vars \/ Ledger!Step(t)
<1> USE DEF Ledger!Step
<1>t. pc \in [Threads -> Labels] /\ ret \in [Threads -> Int]
      BY DEF MemoryInv, DiagTypeOK, ClientTypeOK
<1>l. LabelInv
      BY DEF MemoryInv
<1>p. \A f, e, fn, v : Ledger!Do(t, fn, f, e, v) => LedgerPc(t) = "pending"
      BY DEF Ledger!Do
\* A call that fails.
<1>f. ASSUME UNCHANGED <<diag, heap>>, ret' = [ret EXCEPT ![t] = -1], call[t].fn # "close",
             pc[t] \notin Answered \cup {"close_release", "close_load"}, pc'[t] = "ret"
      PROVE  UNCHANGED Ledger!vars \/ Ledger!Step(t)
  <2>1. UNCHANGED Ledger!vars \/ Ledger!DoRefuse(t)
        BY <1>f, QuietLedger
  <2> QED BY <1>p, <2>1 DEF Ledger!DoRefuse
\* An operation before the call acts, or after.
<1>q. ASSUME UNCHANGED <<diag, heap, ret>>,
             pc[t] \in Answered <=> pc'[t] \in Answered,
             pc[t] \in {"close_release", "close_load"} <=> pc'[t] \in {"close_release", "close_load"},
             pc[t] \in {"close_release", "close_load"} => ptr'[t] = ptr[t]
      PROVE  UNCHANGED Ledger!vars
  <2>1. \A u \in Threads \ {t} : pc'[u] = pc[u]
        BY StepFrame DEF MemoryInv
  <2>2. \A u \in Threads : LedgerPc(u)' = LedgerPc(u)
        BY <1>q, <2>1, StepFrame, WhereInLedger, WhereInLedgerNext DEF MemoryInv, Active
  <2>3. \A c \in Cells : OpenAt(c)' = OpenAt(c)
        BY <1>q, ShownStay
  <2> QED BY <1>q, <2>2, <2>3, QuietEntries, StepFrame, Stutters DEF MemoryInv
<1> USE DEF Goto, Answer, Answered, slotVars
<1>1. CASE OpenClaim(t)
      BY <1>1, <1>f, <1>q, <1>t, <1>l DEF OpenClaim, LabelInv
<1>2. CASE OpenCreate(t)
  <2>1. CASE heap' # heap
        BY <1>2, <1>p, <2>1, CreateLedger DEF Ledger!DoOpen
  <2>2. CASE heap' = heap
    <3>1. Active(t) /\ diag[Slot(t)] = Null
          BY <1>2 DEF OpenCreate, Active, MemoryInv, PlaceInv
    <3>2. Slot(t) \in Slots
          BY <3>1, SlotOfCall DEF MemoryInv
    <3>3. ASSUME NEW c \in Cells, heap[c] = Null,
                 heap' = [heap EXCEPT ![c] = NewDiag(call[t].id)]
          PROVE  FALSE
      <4>1. NewDiag(call[t].id) # Null
            BY <3>1, NewDiagOK, ClientAssumption, DiagSlotsAssumption, SlotOfCall DEF MemoryInv
      <4>2. heap'[c] = NewDiag(call[t].id)
            BY <3>3 DEF MemoryInv, DiagTypeOK
      <4> QED BY <2>2, <3>3, <4>1, <4>2
    <3>4. diag' = [diag EXCEPT ![Slot(t)] = Null] /\ pc'[t] = "open_release" /\ ret' = ret
          BY <1>2, <1>t, <3>3 DEF OpenCreate
    <3>5. diag' = diag
          BY <3>1, <3>2, <3>4 DEF MemoryInv, DiagTypeOK
    <3> QED BY <1>2, <1>q, <2>2, <3>4, <3>5 DEF OpenCreate
  <2> QED BY <2>1, <2>2
<1>3. CASE OpenRelease(t)
      BY <1>3, <1>f, <1>t, <1>l DEF OpenRelease, LabelInv
<1>4. CASE FindOccupied(t)
  <2>1. call[t].fn # "close" \/ pc'[t] # "ret"
        BY <1>4, CloserReturns DEF CloseDestroy, FindOccupied
  <2> QED BY <1>4, <1>f, <1>q, <1>t, <2>1 DEF FindOccupied
<1>5. CASE FindDiag(t)
  <2>1. call[t].fn # "close" \/ pc'[t] # "ret"
        BY <1>5, CloserReturns DEF CloseDestroy, FindDiag
  <2> QED BY <1>5, <1>f, <1>q, <1>t, <2>1 DEF FindDiag
<1>6. CASE FindId(t)
  <2>1. pc[t] = "find_id" /\ pc'[t] \in {"close_take", "add_alloc", "mark_freed"}
        BY <1>6, FindIdFinds DEF FindId
  <2>2. UNCHANGED <<diag, heap, ret>>
        BY <1>6, <1>t, <2>1 DEF FindId
  <2> QED BY <1>q, <2>1, <2>2
<1>7. CASE AllocAdd(t)
  <2>1. CASE ret' = [ret EXCEPT ![t] = 0] /\ pc'[t] = "ret"
        BY <1>7, <1>p, <2>1, UpdateLedger DEF Ledger!DoAlloc, Ledger!DoDealloc
  <2>2. CASE ret' # [ret EXCEPT ![t] = 0]
        BY <1>7, <1>f, <1>t, <1>l, <2>2 DEF AllocAdd, LabelInv
  <2> QED BY <1>7, <1>t, <2>1, <2>2 DEF AllocAdd
<1>8. CASE DeallocMark(t)
  <2>1. CASE ret' = [ret EXCEPT ![t] = 0] /\ pc'[t] = "ret"
        BY <1>8, <1>p, <2>1, UpdateLedger DEF Ledger!DoAlloc, Ledger!DoDealloc
  <2>2. CASE ret' # [ret EXCEPT ![t] = 0]
        BY <1>8, <1>f, <1>t, <1>l, <2>2 DEF DeallocMark, LabelInv
  <2> QED BY <1>8, <1>t, <2>1, <2>2 DEF DeallocMark
<1>9. CASE CloseTake(t)
      BY <1>9, TakeLedger
<1>10. CASE CloseRelease(t)
  <2>1. ptr[t] # Null
        BY <1>10 DEF CloseRelease, MemoryInv, PlaceInv, Detached
  <2> QED BY <1>10, <1>q, <1>t, <2>1 DEF CloseRelease
<1>11. CASE CloseLoad(t)
      BY <1>11, <1>p, LoadLedger DEF Ledger!DoClose
<1>12. CASE CloseReport(t)
      BY <1>12, <1>q, <1>t DEF CloseReport
<1>13. CASE ClosePush(t)
      BY <1>13, <1>q, <1>t DEF ClosePush
<1>14. CASE CloseDestroy(t)
      BY <1>14, DestroyLedger
<1> QED BY <1>1, <1>2, <1>3, <1>4, <1>5, <1>6, <1>7, <1>8, <1>9, <1>10, <1>11, <1>12,
           <1>13, <1>14 DEF SlotStep

-----------------------------------------------------------------------------
(* Calls and returns                                                       *)

\* A call, or the answer of one, leaves the granules' states alone.
LEMMA CallsQuiet ==
    ASSUME SoundSlots, MemoryInv, NEW t \in Threads, UNCHANGED <<diag, heap>>,
           \A u \in Threads \ {t} : pc'[u] = pc[u] /\ ptr'[u] = ptr[u],
           pc[t] \notin {"close_release", "close_load"}, pc'[t] \notin {"close_release", "close_load"}
    PROVE  /\ \A h : LedgerEntry(h)' = LedgerEntry(h)
           /\ \A u \in Threads \ {t} : LedgerPc(u)' = LedgerPc(u)
<1>1. \A c \in Cells : OpenAt(c)' = OpenAt(c)
      BY DEF OpenAt, InSlots
<1> QED BY <1>1, QuietEntries, WhereInLedger, WhereInLedgerNext

\* The ledger counts as the slots do.
LEMMA SameCardinality == \A S : Ledger!Cardinality(S) = Cardinality(S)
BY Zenon DEF Cardinality, Ledger!Cardinality

LEMMA CallLedger ==
    ASSUME SoundSlots, MemoryInv, NEW t \in Threads, Call(t)
    PROVE  Ledger!Call(t)
<1>t. pc \in [Threads -> Labels]
      BY DEF MemoryInv, DiagTypeOK
<1>1. PICK g \in Granules :
          \/ CallOpen(t, g, "open_cas") \/ CallClose(t, g, "find_occupied")
          \/ CallAlloc(t, g, "find_occupied")
          \/ CallDealloc(t, g, "find_occupied")
          \/ CallLateDealloc(t, g, "find_occupied")
      BY DEF Call, RegisterCall, DeregisterCall
<1>2. /\ pc[t] = "idle" /\ pc'[t] \in {"open_cas", "find_occupied"}
      /\ \A u \in Threads \ {t} : pc'[u] = pc[u]
      /\ UNCHANGED <<diag, heap, ptr>>
      BY <1>1, <1>t DEF Call, Enter, CallOpen, CallClose, CallAlloc, CallDealloc, CallLateDealloc, slotVars
<1>3. /\ \A h : LedgerEntry(h)' = LedgerEntry(h)
      /\ \A u \in Threads \ {t} : LedgerPc(u)' = LedgerPc(u)
      BY <1>2, CallsQuiet
<1>4. LedgerPc(t) = "idle" /\ LedgerPc(t)' = "pending"
      BY <1>2, WhereInLedger, WhereInLedgerNext DEF Answered
<1>5. MappedPc' = [MappedPc EXCEPT ![t] = "pending"]
      BY <1>3, <1>4 DEF MappedPc
<1>6. ASSUME NEW fn, NEW l, Enter(t, fn, g, l) PROVE Ledger!Enter(t, fn, g, "pending")
      BY <1>4, <1>5, <1>6 DEF Enter, Ledger!Enter, MappedPc
<1>7. \A u \in Threads : Ledger!Active(u) <=> Active(u)
      BY WhereInLedger DEF Ledger!Active, Active
<1>8. Ledger!NoCallOn(g) <=> NoCallOn(g)
      BY <1>7 DEF NoCallOn, Ledger!NoCallOn
<1>9. Ledger!Registering(g) = Registering(g)
      BY <1>7 DEF Registering, Ledger!Registering
<1>10. Ledger!InUse = InUse
      BY DEF InUse, Ledger!InUse
<1>11. UNCHANGED MappedLedger
      BY <1>3 DEF MappedLedger
<1>12. \/ Ledger!CallOpen(t, g, "pending")
       \/ Ledger!CallClose(t, g, "pending")
       \/ Ledger!CallAlloc(t, g, "pending")
       \/ Ledger!CallDealloc(t, g, "pending")
       \/ Ledger!CallLateDealloc(t, g, "pending")
  <2>1. CASE CallOpen(t, g, "open_cas")
        BY <1>6, <1>10, <2>1, SameCardinality DEF CallOpen, Ledger!CallOpen
  <2>2. CASE CallClose(t, g, "find_occupied")
        BY <1>6, <1>8, <2>2 DEF CallClose, Ledger!CallClose
  <2>3. CASE CallAlloc(t, g, "find_occupied")
        BY <1>6, <1>9, <2>3, SameCardinality DEF CallAlloc, Ledger!CallAlloc, bookVars, Ledger!bookVars
  <2>4. CASE CallDealloc(t, g, "find_occupied")
        BY <1>6, <2>4 DEF CallDealloc, Ledger!CallDealloc
  <2>5. CASE CallLateDealloc(t, g, "find_occupied")
        BY <1>6, <2>5 DEF CallLateDealloc, Ledger!CallLateDealloc
  <2> QED BY <1>1, <2>1, <2>2, <2>3, <2>4, <2>5
<1> QED BY <1>11, <1>12 DEF Ledger!Call, MappedLedger

LEMMA ReturnLedger ==
    ASSUME SoundSlots, MemoryInv, NEW t \in Threads, Return(t)
    PROVE  Ledger!Return(t)
<1>t. pc \in [Threads -> Labels] /\ ptr \in [Threads -> Cells \cup {Null}]
      BY DEF MemoryInv, DiagTypeOK
<1>2. /\ pc[t] = "ret" /\ pc'[t] = "idle"
      /\ \A u \in Threads \ {t} : pc'[u] = pc[u] /\ ptr'[u] = ptr[u]
      /\ UNCHANGED <<diag, heap>>
      BY <1>t DEF Return, ClientReturn, ListReturn, slotVars
<1>3. /\ \A h : LedgerEntry(h)' = LedgerEntry(h)
      /\ \A u \in Threads \ {t} : LedgerPc(u)' = LedgerPc(u)
      BY <1>2, CallsQuiet
<1>4. LedgerPc(t) = "ret" /\ LedgerPc(t)' = "idle"
      BY <1>2, WhereInLedger, WhereInLedgerNext DEF Answered
<1>5. [u \in Threads |-> LedgerPc(u)]' = [[u \in Threads |-> LedgerPc(u)] EXCEPT ![t] = "idle"]
      BY <1>3, <1>4
<1>6. Ledger!ClientReturn(t)
      BY <1>5 DEF Return, ClientReturn, Ledger!ClientReturn, NoCall, Ledger!NoCall, NoId, Ledger!NoId
<1> QED BY <1>3, <1>4, <1>6 DEF Ledger!Return

-----------------------------------------------------------------------------
(* The refinement                                                          *)

LEMMA InitLedger == Init => Ledger!Init
<1> SUFFICES ASSUME Init PROVE Ledger!Init
    OBVIOUS
<1> USE DEF Init, DiagSlotsInit, ClientInit
<1>1. \A g : LedgerEntry(g) = Ledger!Closed
  <2>1. \A g : At(g) = {}
        BY DEF At
  <2> QED BY <2>1, EntryClosed
<1>2. \A u \in Threads : LedgerPc(u) = "idle"
      BY WhereInLedger
<1> QED BY <1>1, <1>2 DEF Ledger!Init, Ledger!ClientInit, NoCall, Ledger!NoCall, NoId, Ledger!NoId

LEMMA NextLedger ==
    SoundSlots /\ MemoryInv /\ RecordInv /\ [Next]_vars => [Ledger!Next]_(Ledger!vars)
<1> SUFFICES ASSUME SoundSlots, MemoryInv, RecordInv, [Next]_vars
             PROVE  Ledger!Next \/ UNCHANGED Ledger!vars
    OBVIOUS
<1>1. CASE UNCHANGED vars
  <2>1. \A h : LedgerEntry(h)' = LedgerEntry(h)
        BY <1>1 DEF LedgerEntry, Records, OpenAt, InSlots, vars, diagVars, slotVars, localVars, clientVars
  <2>2. \A u \in Threads : LedgerPc(u)' = LedgerPc(u)
        BY <1>1, WhereInLedger, WhereInLedgerNext DEF vars, clientVars
  <2> QED BY <1>1, <2>1, <2>2, Stutters DEF vars, clientVars
<1>2. CASE Next
  <2>1. PICK t \in Threads : Call(t) \/ SlotStep(t) \/ Return(t)
        BY <1>2 DEF Next, Step
  <2>2. CASE Call(t)
        BY <2>2, CallLedger DEF Ledger!Next
  <2>3. CASE SlotStep(t)
        BY <2>3, StepLedger DEF Ledger!Next
  <2>4. CASE Return(t)
        BY <2>4, ReturnLedger DEF Ledger!Next, Ledger!Step
  <2> QED BY <2>1, <2>2, <2>3, <2>4
<1> QED BY <1>1, <1>2

\* Every behaviour of the diagnostic slots is one of the ledger: to the client each
\* call acts at one moment between its call and its return, or is refused.
THEOREM SlotsImplementLedger == ASSUME SoundSlots PROVE Spec => ImplementsLedger
<1>1. SoundSlots /\ MemoryInv /\ RecordInv /\ [Next]_vars => [Ledger!Next]_(Ledger!vars)
      BY NextLedger
<1> QED BY <1>1, InitLedger, MemoryInvariant, RecordsInvariant, PTL
        DEF Spec, ImplementsLedger, Ledger!Spec
===============================================================================
