------------------------------ MODULE DiagSlots ------------------------------
(***************************************************************************)
(* The diagnostic-mode storage of the profiler (src/diagnostic.c and the   *)
(* diagnostic branches of src/drainprof.c): a granule has the slot         *)
(* id % capacity or none, and the slot points to its diagnostic state on   *)
(* the heap.                                                               *)
(*                                                                         *)
(* slot->occupied is atomic; slot->diag is a plain pointer.  A function    *)
(* that mentions it twice may use the value it read first or read it       *)
(* again: both are modelled.  A thread keeps the pointer it got in ptr     *)
(* while other threads go on, so what it points to may have been freed     *)
(* when it is followed; such a step is not defined by the language, no     *)
(* action models it, and SafeAccess says that no thread gets there.  Freed *)
(* memory may be handed out again.                                         *)
(*                                                                         *)
(* owner and late are the client's own list of its allocations, beside the *)
(* figures of module Client.                                               *)
(***************************************************************************)
EXTENDS Client, GranuleDiag

CONSTANTS
    Cells,          \* the places on the heap for a granule's state
    Null,           \* a null pointer, a cell that is not in use, and no id
    MaxRecords,     \* bound: records in one granule
    MaxFailures     \* bound: how often memory runs out

ASSUME DiagSlotsAssumption ==
    /\ Null \notin Cells \cup AllocIds \cup Granules
    /\ Null \notin DiagType
    /\ MaxRecords \in Nat /\ MaxFailures \in Nat

Slots    == 0 .. Capacity - 1

VARIABLES
    occupied,   \* drainprof_diag_slot.occupied
    diag,       \* drainprof_diag_slot.diag
    heap,       \* per cell: the drainprof_granule_diag allocated there, or Null
    ptr,        \* the local variable diag of each thread
    arg,        \* the parameter alloc_id of each thread
    report,     \* the local variable report of a close
    failures,   \* how often memory has run out
    owner,      \* per allocation id: the granule of the live allocation, or Null
    late        \* the live allocations their granule does not count any more

slotVars  == <<occupied, diag>>
localVars == <<ptr, arg, report>>
diagVars  == <<slotVars, heap, localVars, failures, owner, late>>
vars      == <<diagVars, clientVars>>

DiagSlotsInit ==
    /\ occupied = [s \in Slots |-> 0]
    /\ diag     = [s \in Slots |-> Null]
    /\ heap     = [c \in Cells |-> Null]
    /\ ptr      = [t \in Threads |-> Null]
    /\ arg      = [t \in Threads |-> Null]
    /\ report   = [t \in Threads |-> Null]
    /\ failures = 0
    /\ owner    = [a \in AllocIds |-> Null]
    /\ late     = {}

Init == DiagSlotsInit /\ ClientInit

Slot(t)  == call[t].id % Capacity
MayFail  == failures < MaxFailures /\ failures' = failures + 1

\* Both values a second mention of the slot's pointer may have.
Reread(t, p) == {p, diag[Slot(t)]}

-----------------------------------------------------------------------------
(* Calls.  An allocation id is an address: two live allocations never      *)
(* share one, and it may be used again when its deregister has returned.   *)

HeldIn(g)  == {a \in AllocIds : owner[a] = g /\ a \notin late}
StaleIn(g) == {a \in AllocIds : owner[a] = g /\ a \in late}
FreshIds   == {a \in AllocIds : owner[a] = Null /\ \A t \in Threads : arg[t] # a}
Records(g) == {c \in Cells : heap[c] # Null /\ heap[c].granule_id = g}

Pass(t, a) == arg' = [arg EXCEPT ![t] = a]

RegisterCall(t, g, l) ==
    /\ CallAlloc(t, g, l)
    /\ \A c \in Records(g) : Len(heap[c].allocs) + Cardinality(Registering(g)) < MaxRecords
    /\ \E a \in FreshIds : Pass(t, a)
    /\ UNCHANGED <<owner, late>>

DeregisterCall(t, g, l) ==
    \/ /\ CallDealloc(t, g, l)
       /\ \E a \in HeldIn(g) : Pass(t, a) /\ owner' = [owner EXCEPT ![a] = Null]
       /\ UNCHANGED late
    \/ /\ CallLateDealloc(t, g, l)
       /\ \E a \in StaleIn(g) : /\ Pass(t, a)
                                /\ owner' = [owner EXCEPT ![a] = Null]
                                /\ late'  = late \ {a}

Call(t) ==
    /\ \E g \in Granules :
           \/ /\ CallOpen(t, g, "open_cas") \/ CallClose(t, g, "find_occupied")
              /\ UNCHANGED <<arg, owner, late>>
           \/ RegisterCall(t, g, "find_occupied")
           \/ DeregisterCall(t, g, "find_occupied")
    /\ UNCHANGED <<slotVars, heap, ptr, report, failures>>

\* What the client's list makes of an answer.
ListReturn(t) ==
    LET fn == call[t].fn
        g  == call[t].id
        kept == fn = "alloc" /\ (ret[t] = 0 \/ Careless)
    IN  /\ owner' = IF kept THEN [owner EXCEPT ![arg[t]] = g] ELSE owner
        /\ late'  = late \cup IF fn = "close" THEN HeldIn(g)
                              ELSE IF kept /\ ret[t] # 0 THEN {arg[t]} ELSE {}
        /\ ptr' = [ptr EXCEPT ![t] = Null]
        /\ arg' = [arg EXCEPT ![t] = Null]
        /\ UNCHANGED <<slotVars, heap, report, failures>>

-----------------------------------------------------------------------------
(* drainprof_slot_array_diag_open                                          *)

ClientOnly == UNCHANGED <<call, bookVars, arg, owner, late>>

OpenClaim(t) ==
    /\ pc[t] = "open_cas"
    /\ IF occupied[Slot(t)] = 0
       THEN occupied' = [occupied EXCEPT ![Slot(t)] = 1] /\ Goto(t, "open_create")
                                                         /\ UNCHANGED ret
       ELSE Answer(t, -1) /\ UNCHANGED occupied
    /\ UNCHANGED <<diag, heap, ptr, report, failures>> /\ ClientOnly

\* The granule's state is allocated and published; without memory the slot has
\* to be released again.
OpenCreate(t) ==
    /\ pc[t] = "open_create"
    /\ \/ \E c \in Cells :
             /\ heap[c] = Null
             /\ heap' = [heap EXCEPT ![c] = NewDiag(call[t].id)]
             /\ diag' = [diag EXCEPT ![Slot(t)] = c]
             /\ Answer(t, 0)
             /\ UNCHANGED failures
       \/ /\ MayFail
          /\ diag' = [diag EXCEPT ![Slot(t)] = Null]
          /\ Goto(t, "open_release")
          /\ UNCHANGED <<ret, heap>>
    /\ UNCHANGED <<occupied, ptr, report>> /\ ClientOnly

\* Mutant: the slot stays claimed when the open fails.
OpenReleaseMissing(t) ==
    /\ pc[t] = "open_release"
    /\ Answer(t, -1)
    /\ UNCHANGED <<slotVars, heap, ptr, report, failures>> /\ ClientOnly

OpenRelease(t) ==
    /\ pc[t] = "open_release"
    /\ occupied' = [occupied EXCEPT ![Slot(t)] = 0]
    /\ Answer(t, -1)
    /\ UNCHANGED <<diag, heap, ptr, report, failures>> /\ ClientOnly

-----------------------------------------------------------------------------
(* drainprof_slot_array_diag_get, which a register and a deregister begin  *)
(* with; a close begins the same way.                                      *)

FindOccupied(t) ==
    /\ pc[t] = "find_occupied"
    /\ IF occupied[Slot(t)] = 0 THEN Answer(t, -1) ELSE Goto(t, "find_diag") /\ UNCHANGED ret
    /\ UNCHANGED <<slotVars, heap, ptr, report, failures>> /\ ClientOnly

FindDiag(t) ==
    /\ pc[t] = "find_diag"
    /\ IF diag[Slot(t)] = Null THEN Answer(t, -1) /\ UNCHANGED ptr
       ELSE /\ ptr' = [ptr EXCEPT ![t] = diag[Slot(t)]]
            /\ Goto(t, "find_id")
            /\ UNCHANGED ret
    /\ UNCHANGED <<slotVars, heap, report, failures>> /\ ClientOnly

AfterFind(fn) == CASE fn = "close"   -> "close_take"
                   [] fn = "alloc"   -> "add_alloc"
                   [] fn = "dealloc" -> "mark_freed"

\* The state is asked for its granule; then the pointer is mentioned again.
FindId(t) ==
    /\ pc[t] = "find_id"
    /\ \E p, q \in Reread(t, ptr[t]) :
          /\ p # Null /\ heap[p] # Null
          /\ IF heap[p].granule_id = call[t].id
             THEN /\ ptr' = [ptr EXCEPT ![t] = q]
                  /\ IF q = Null THEN Answer(t, -1)
                     ELSE Goto(t, AfterFind(call[t].fn)) /\ UNCHANGED ret
             ELSE Answer(t, -1) /\ UNCHANGED ptr
    /\ UNCHANGED <<slotVars, heap, report, failures>> /\ ClientOnly

-----------------------------------------------------------------------------
(* The register and the deregister, under the granule's alloc_lock         *)

Update(c, d) == heap' = [heap EXCEPT ![c] = d]

AllocAdd(t) ==
    /\ pc[t] = "add_alloc"
    /\ heap[ptr[t]] # Null
    /\ \/ /\ Update(ptr[t], AddAlloc(heap[ptr[t]], arg[t]))
          /\ Answer(t, 0)
          /\ UNCHANGED failures
       \/ /\ Full(heap[ptr[t]])
          /\ MayFail
          /\ Answer(t, -1)
          /\ UNCHANGED heap
    /\ UNCHANGED <<slotVars, ptr, report>> /\ ClientOnly

DeallocMark(t) ==
    /\ pc[t] = "mark_freed"
    /\ heap[ptr[t]] # Null
    /\ IF Matches(heap[ptr[t]], arg[t]) = {}
       THEN Answer(t, -1) /\ UNCHANGED heap
       ELSE Answer(t, 0) /\ Update(ptr[t], MarkFreed(heap[ptr[t]], arg[t]))
    /\ UNCHANGED <<slotVars, ptr, report, failures>> /\ ClientOnly

-----------------------------------------------------------------------------
(* drainprof_slot_array_diag_close, then what drainprof_granule_close does *)
(* with the state it got.                                                  *)

\* Mutant: the slot keeps its pointer.
CloseTakeKept(t) ==
    /\ pc[t] = "close_take"
    /\ ptr' = [ptr EXCEPT ![t] = diag[Slot(t)]]
    /\ Goto(t, "close_release")
    /\ UNCHANGED <<ret, slotVars, heap, report, failures>> /\ ClientOnly

CloseTake(t) ==
    /\ pc[t] = "close_take"
    /\ \E q \in Reread(t, ptr[t]) : ptr' = [ptr EXCEPT ![t] = q]
    /\ diag' = [diag EXCEPT ![Slot(t)] = Null]
    /\ Goto(t, "close_release")
    /\ UNCHANGED <<ret, occupied, heap, report, failures>> /\ ClientOnly

CloseRelease(t) ==
    /\ pc[t] = "close_release"
    /\ occupied' = [occupied EXCEPT ![Slot(t)] = 0]
    /\ IF ptr[t] = Null THEN Answer(t, -1) ELSE Goto(t, "close_load") /\ UNCHANGED ret
    /\ UNCHANGED <<diag, heap, ptr, report, failures>> /\ ClientOnly

CloseLoad(t) ==
    /\ pc[t] = "close_load"
    /\ heap[ptr[t]] # Null
    /\ LET live == heap[ptr[t]].live_count
       IN  /\ ret' = [ret EXCEPT ![t] = live]
           /\ Goto(t, IF live = 0 THEN "close_destroy" ELSE "close_report")
    /\ UNCHANGED <<slotVars, heap, ptr, report, failures>> /\ ClientOnly

\* Without memory there is no report, and the close goes on without one.
CloseReport(t) ==
    /\ pc[t] = "close_report"
    /\ heap[ptr[t]] # Null
    /\ \/ /\ heap[ptr[t]].live_count > 0
          /\ report' = [report EXCEPT ![t] = Report(heap[ptr[t]])]
          /\ Goto(t, "close_push")
          /\ UNCHANGED failures
       \/ /\ IF heap[ptr[t]].live_count > 0 THEN MayFail ELSE UNCHANGED failures
          /\ Goto(t, "close_destroy")
          /\ UNCHANGED report
    /\ UNCHANGED <<ret, slotVars, heap, ptr>> /\ ClientOnly

\* The report leaves the thread: to the callback or to the report buffer.
ClosePush(t) ==
    /\ pc[t] = "close_push"
    /\ report' = [report EXCEPT ![t] = Null]
    /\ Goto(t, "close_destroy")
    /\ UNCHANGED <<ret, slotVars, heap, ptr, failures>> /\ ClientOnly

\* Mutant: a granule that is drainable is not freed.
CloseDestroyPinned(t) ==
    /\ pc[t] = "close_destroy"
    /\ heap' = [heap EXCEPT ![ptr[t]] = IF ret[t] = 0 THEN @ ELSE Null]
    /\ Goto(t, "ret")
    /\ UNCHANGED <<ret, slotVars, ptr, report, failures>> /\ ClientOnly

CloseDestroy(t) ==
    /\ pc[t] = "close_destroy"
    /\ heap[ptr[t]] # Null
    /\ heap' = [heap EXCEPT ![ptr[t]] = Null]
    /\ Goto(t, "ret")
    /\ UNCHANGED <<ret, slotVars, ptr, report, failures>> /\ ClientOnly

-----------------------------------------------------------------------------
SlotStep(t) ==
    \/ OpenClaim(t)
    \/ OpenCreate(t)
    \/ OpenRelease(t)
    \/ FindOccupied(t)
    \/ FindDiag(t)
    \/ FindId(t)
    \/ AllocAdd(t)
    \/ DeallocMark(t)
    \/ CloseTake(t)
    \/ CloseRelease(t)
    \/ CloseLoad(t)
    \/ CloseReport(t)
    \/ ClosePush(t)
    \/ CloseDestroy(t)

Return(t) == pc[t] = "ret" /\ ClientReturn(t) /\ ListReturn(t)

Step(t) == SlotStep(t) \/ Return(t)
Next == \E t \in Threads : Call(t) \/ Step(t)

Spec == Init /\ [][Next]_vars

-----------------------------------------------------------------------------
(* Properties                                                              *)

Labels == {"idle", "ret", "open_cas", "open_create", "open_release",
           "find_occupied", "find_diag", "find_id", "add_alloc", "mark_freed",
           "close_take", "close_release", "close_load", "close_report",
           "close_push", "close_destroy"}

\* The type of every variable.
DiagTypeOK ==
    /\ ClientTypeOK
    /\ pc \in [Threads -> Labels]
    /\ occupied \in [Slots -> {0, 1}]
    /\ diag \in [Slots -> Cells \cup {Null}]
    /\ heap \in [Cells -> DiagType \cup {Null}]
    /\ ptr \in [Threads -> Cells \cup {Null}]
    /\ arg \in [Threads -> AllocIds \cup {Null}]
    /\ report \in [Threads -> ReportType \cup {Null}]
    /\ failures \in Nat
    /\ owner \in [AllocIds -> Granules \cup {Null}]
    /\ late \subseteq AllocIds

\* The threads that have taken the state out of its slot, and those about to use
\* the state they found.
Detached == {"close_release", "close_load", "close_report", "close_push", "close_destroy"}
Using    == Detached \cup {"add_alloc", "mark_freed", "close_take"}

Follows(t) == CASE pc[t] = "find_id" -> Reread(t, ptr[t])
                [] pc[t] \in Using   -> {ptr[t]}
                [] OTHER             -> {}

\* No thread follows a pointer to a state that was freed, or no pointer at all,
\* although nothing keeps a state alive between get and its use; and the state a
\* thread updates or takes is that of the granule of its call.
SafeAccess ==
    \A t \in Threads : \A p \in Follows(t) :
        /\ p # Null
        /\ heap[p] # Null
        /\ pc[t] \in Using => heap[p].granule_id = call[t].id

\* A state that a close has taken out of its slot is in nobody else's hands: "Safe
\* to extract diag struct because the API contract requires no concurrent
\* alloc_register/deregister calls for this granule_id are in flight"
\* (src/diagnostic.c).
ExtractionSafe ==
    \A t, u \in Threads :
        /\ t # u
        /\ pc[t] \in Detached
        /\ pc[u] \in Using \cup {"find_id"}
        => ptr[u] # ptr[t]

InUseCells == {c \in Cells : heap[c] # Null}
InSlots    == {diag[s] : s \in Slots} \ {Null}
InHands    == {ptr[t] : t \in {u \in Threads : pc[u] \in Detached}}

\* Every state on the heap is in one slot or in the hands of one close, and a
\* slot without a state is free or about to be: nothing leaks, is freed twice
\* or blocks its slot, whichever allocation fails.
NoLeak ==
    /\ InUseCells = InSlots \cup InHands
    /\ InSlots \cap InHands = {}
    /\ \A s, r \in Slots : diag[s] = diag[r] /\ diag[s] # Null => s = r
    /\ \A t, u \in Threads :
          pc[t] \in Detached /\ pc[u] \in Detached /\ ptr[t] = ptr[u] => t = u
    /\ \A s \in Slots :
          diag[s] = Null /\ occupied[s] = 1 =>
              \E t \in Threads : Slot(t) = s /\ pc[t] \in
                  {"open_create", "open_release", "close_release"}

-----------------------------------------------------------------------------
(* The inductive invariant behind these properties, for ids that have      *)
(* slots of their own.                                                     *)

SoundSlots == \A g, h \in Granules : g % Capacity = h % Capacity => g = h

\* Each operation belongs to its function.
LabelInv ==
    \A t \in Threads :
        /\ pc[t] \in {"open_cas", "open_create", "open_release"} => call[t].fn = "open"
        /\ pc[t] \in {"find_occupied", "find_diag", "find_id"}
              => call[t].fn \in {"close", "alloc", "dealloc"}
        /\ pc[t] = "add_alloc" => call[t].fn = "alloc"
        /\ pc[t] = "mark_freed" => call[t].fn = "dealloc"
        /\ pc[t] \in Detached \cup {"close_take"} => call[t].fn = "close"

\* A register and a deregister are about an allocation.
ArgInv ==
    \A t \in Threads :
        Calling(t, "alloc") \/ Calling(t, "dealloc") => arg[t] \in AllocIds

\* A slot's state is that of a granule with this slot, a free slot has none, and
\* no array of records is written past its end.
StateInv ==
    /\ \A s \in Slots :
          /\ occupied[s] = 0 => diag[s] = Null
          /\ diag[s] # Null => /\ heap[diag[s]] # Null
                               /\ heap[diag[s]].granule_id \in Granules
                               /\ heap[diag[s]].granule_id % Capacity = s
    /\ \A c \in InUseCells : InBounds(heap[c])

\* An open has claimed an empty slot; what get has found is still in the slot; a
\* close holds what it has taken, and the slot stays empty behind it.
PlaceInv ==
    \A t \in Threads :
        /\ pc[t] \in {"open_create", "open_release", "close_release"}
              => occupied[Slot(t)] = 1 /\ diag[Slot(t)] = Null
        /\ pc[t] \in {"find_id", "add_alloc", "mark_freed", "close_take"}
              => ptr[t] # Null /\ ptr[t] = diag[Slot(t)]
        /\ pc[t] \in Detached
              => /\ diag[Slot(t)] = Null
                 /\ ptr[t] # Null /\ heap[ptr[t]] # Null
                 /\ heap[ptr[t]].granule_id = call[t].id

\* An open granule has its state, from the answer of its open on and until its
\* close takes it.
OpenInv ==
    /\ \A g \in Granules : phase[g] = "open" => diag[g % Capacity] # Null
    /\ \A t \in Threads :
          /\ Calling(t, "open") /\ pc[t] = "ret" /\ ret[t] = 0 => diag[Slot(t)] # Null
          /\ Calling(t, "close") /\ pc[t] \in {"find_occupied", "find_diag"}
                => diag[Slot(t)] # Null

MemoryInv ==
    /\ DiagTypeOK /\ ContractInv /\ LabelInv /\ ArgInv
    /\ StateInv /\ PlaceInv /\ OpenInv /\ NoLeak

-----------------------------------------------------------------------------
(* The records                                                             *)

CallsFor(g, fn) == {t \in Threads : Active(t) /\ call[t] = [fn |-> fn, id |-> g]}
Registered(g) ==
    HeldIn(g) \cup {arg[t] : t \in {u \in CallsFor(g, "alloc") : pc[u] = "ret" /\ ret[u] = 0}}

\* The records are the client's own list: the unfreed ones are the allocations
\* it holds, whatever the order of its frees, however often an id is used again,
\* and whatever it frees that was never recorded.
RecordsMatch ==
    \A c \in InUseCells :
        LET d == heap[c]
        IN  /\ DiagOK(d)
            /\ Registered(d.granule_id) \subseteq LiveIds(d)
            /\ LiveIds(d) \subseteq Registered(d.granule_id)
                             \cup {arg[t] : t \in CallsFor(d.granule_id, "dealloc")}

\* Once a close has loaded the live count, it is the number of allocations the
\* client holds in the granule: an allocation of an earlier opening of the id, or
\* one that could not be registered, changes nothing when it is freed.
VerdictExact ==
    \A t \in Threads :
        /\ pc[t] \in {"ret", "close_report", "close_push", "close_destroy"}
        /\ call[t].fn = "close"
        => ret[t] = held[call[t].id]

\* The report of a pinned granule names the allocations the client still holds
\* in it, no more and no fewer.
ReportExact ==
    \A t \in Threads :
        pc[t] = "close_push" =>
            /\ report[t].granule_id = call[t].id
            /\ report[t].pinning_allocs = HeldIn(call[t].id)
            /\ report[t].pinning_count = Cardinality(HeldIn(call[t].id))
            /\ report[t].drained_allocs \in Nat

\* The rest of the inductive invariant.  An allocation is in one place: in the
\* client's list or in the hands of one call; held counts the list.
ListInv ==
    /\ \A t \in Threads :
          arg[t] # Null => /\ Calling(t, "alloc") \/ Calling(t, "dealloc")
                           /\ owner[arg[t]] = Null
                           /\ \A u \in Threads \ {t} : arg[u] # arg[t]
    /\ \A a \in late : owner[a] # Null
    /\ \A g \in Granules :
          /\ phase[g] \in {"closed", "opening"} => HeldIn(g) = {}
          /\ IsFiniteSet(HeldIn(g)) /\ held[g] = Cardinality(HeldIn(g))

\* The slot of a granule is empty while the granule is not open.
EmptyInv ==
    /\ \A g \in Granules : phase[g] = "closed" => diag[g % Capacity] = Null
    /\ \A t \in Threads :
          \/ Calling(t, "open") /\ ~(pc[t] = "ret" /\ ret[t] = 0)
          \/ Calling(t, "close") /\ pc[t] = "ret"
          => diag[Slot(t)] = Null

\* What a deregister has freed, or looked for in vain, is in no record.
FreedInv ==
    \A t \in Threads, c \in InUseCells :
        /\ Calling(t, "dealloc") /\ pc[t] = "ret"
        /\ heap[c].granule_id = call[t].id
        => arg[t] \notin LiveIds(heap[c])

RecordInv == ListInv /\ EmptyInv /\ FreedInv /\ RecordsMatch /\ VerdictExact /\ ReportExact

-----------------------------------------------------------------------------
(* The slots implement the ledger.  A granule is open in the ledger from   *)
(* the store of its pointer to the load of the live count.                 *)

OpenAt(c) == \/ c \in InSlots
             \/ \E t \in Threads : ptr[t] = c /\ pc[t] \in {"close_release", "close_load"}

LedgerEntry(g) ==
    LET at == {c \in Records(g) : OpenAt(c)}
    IN  IF at = {} THEN [open |-> FALSE, live |-> 0]
        ELSE [open |-> TRUE, live |-> heap[CHOOSE c \in at : TRUE].live_count]

LedgerPc(t) ==
    CASE pc[t] = "idle" -> "idle"
      [] pc[t] \in {"ret", "close_report", "close_push", "close_destroy"} -> "ret"
      [] OTHER -> "pending"

Ledger == INSTANCE GranuleLedger WITH
            ledger  <- [g \in Granules |-> LedgerEntry(g)],
            pc      <- [t \in Threads |-> LedgerPc(t)],
            Refuses <- TRUE

\* When ids have slots of their own, every interleaving looks to the client as if
\* each call acted at once or was refused.
ImplementsLedger == Ledger!Spec
=============================================================================
