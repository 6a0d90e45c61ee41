----------------------------- MODULE GranuleDiag -----------------------------
(***************************************************************************)
(* The diagnostic state of one open granule (drainprof_granule_diag of     *)
(* src/drainprof_internal.h, its functions in src/diagnostic.c): an array  *)
(* of allocation records that only grows while the granule is open, the    *)
(* live count, and a hint where to look for the next record to be freed.   *)
(* Each function runs under the granule's alloc_lock from its first access *)
(* to its last and is an operator here, from the state to the state it     *)
(* leaves.                                                                 *)
(*                                                                         *)
(* A record keeps its id and whether it was freed; sites, sizes and times  *)
(* are copied without being looked at.  The records are numbered from 1,   *)
(* in the code from 0.                                                     *)
(***************************************************************************)
EXTENDS Integers, Sequences, FiniteSets

CONSTANTS
    AllocIds,       \* the allocation ids the clients use
    FirstRecords    \* 64 in the code: the records a new granule has room for

ASSUME DiagAssumption == FirstRecords \in Nat \ {0}

Record == [alloc_id : AllocIds, freed : BOOLEAN]

\* Mutant: no room at first, and twice nothing is nothing.
NewDiagEmpty(g) ==
    [granule_id |-> g, live_count |-> 0, allocs |-> <<>>,
     alloc_capacity |-> 0, last_freed_index |-> 1]

\* drainprof_granule_diag_create, if there is memory for it
NewDiag(g) ==
    [granule_id |-> g, live_count |-> 0, allocs |-> <<>>,
     alloc_capacity |-> FirstRecords, last_freed_index |-> 1]

-----------------------------------------------------------------------------
(* drainprof_granule_diag_add_alloc                                        *)

\* The array is full: realloc doubles it, and may fail.
Full(d) == Len(d.allocs) >= d.alloc_capacity

\* Mutant: the records that fit are not moved to the larger array.
AddAllocFresh(d, a) ==
    [d EXCEPT !.allocs = Append(IF Full(d) THEN <<>> ELSE @, [alloc_id |-> a, freed |-> FALSE]),
              !.alloc_capacity = IF Full(d) THEN 2 * @ ELSE @,
              !.live_count = @ + 1]

AddAlloc(d, a) ==
    [d EXCEPT !.allocs = Append(@, [alloc_id |-> a, freed |-> FALSE]),
              !.alloc_capacity = IF Full(d) THEN 2 * @ ELSE @,
              !.live_count = @ + 1]

-----------------------------------------------------------------------------
(* drainprof_granule_diag_mark_freed                                       *)

\* Mutant: a record that was freed before is found again.
MatchesAny(d, a) == {i \in DOMAIN d.allocs : d.allocs[i].alloc_id = a}
Matches(d, a) == {i \in DOMAIN d.allocs : d.allocs[i].alloc_id = a /\ ~d.allocs[i].freed}

\* The record offset steps after the hint, around the end of the array.
From(d, offset) == ((d.last_freed_index - 1 + offset) % Len(d.allocs)) + 1

\* The first match from the hint on.
Found(d, a) ==
    CHOOSE i \in Matches(d, a) :
        \E o \in 0 .. Len(d.allocs) - 1 :
            /\ i = From(d, o)
            /\ \A p \in 0 .. o - 1 : From(d, p) \notin Matches(d, a)

\* Mutant: the record is marked and still counted.
MarkUncounted(d, i) ==
    [d EXCEPT !.allocs[i].freed = TRUE,
              !.last_freed_index = (i % Len(d.allocs)) + 1]

\* The record is marked, and the next search starts behind it.
Mark(d, i) ==
    [d EXCEPT !.allocs[i].freed = TRUE,
              !.last_freed_index = (i % Len(d.allocs)) + 1,
              !.live_count = @ - 1]

MarkFreed(d, a) == Mark(d, Found(d, a))

-----------------------------------------------------------------------------
(* drainprof_granule_diag_generate_report, for a granule that is pinned    *)

Unfreed(d) == {i \in DOMAIN d.allocs : ~d.allocs[i].freed}

Report(d) ==
    [granule_id     |-> d.granule_id,
     total_allocs   |-> Len(d.allocs),
     drained_allocs |-> Len(d.allocs) - d.live_count,
     pinning_count  |-> d.live_count,
     pinning_allocs |-> {d.allocs[i].alloc_id : i \in Unfreed(d)}]

-----------------------------------------------------------------------------
(* What the functions keep true of the state.                              *)

\* The ids of the allocations the granule takes for alive.
LiveIds(d) == {d.allocs[i].alloc_id : i \in Unfreed(d)}

DiagType ==
    [granule_id : Nat, live_count : Int, allocs : Seq(Record),
     alloc_capacity : Nat \ {0}, last_freed_index : Nat]

ReportType ==
    [granule_id : Nat, total_allocs : Nat, drained_allocs : Int,
     pinning_count : Int, pinning_allocs : SUBSET AllocIds]

\* The array is never written past its end, and the hint lies in it.
InBounds(d) ==
    /\ Len(d.allocs) <= d.alloc_capacity
    /\ d.last_freed_index \in {1} \cup DOMAIN d.allocs

\* The live count is the number of records that are not freed.
CountOK(d) == IsFiniteSet(Unfreed(d)) /\ d.live_count = Cardinality(Unfreed(d))

\* No id is alive twice.
UniqueIds(d) ==
    \A i, j \in Unfreed(d) : d.allocs[i].alloc_id = d.allocs[j].alloc_id => i = j

DiagOK(d) == InBounds(d) /\ CountOK(d) /\ UniqueIds(d)
=============================================================================
