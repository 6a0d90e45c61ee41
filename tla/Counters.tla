------------------------------- MODULE Counters -------------------------------
(***************************************************************************)
(* The profiler's global counters (src/counters.c and drainprof_counters   *)
(* of src/drainprof_internal.h): seven lock-free 64-bit integers, each     *)
(* updated by single atomic operations, none of them together.             *)
(***************************************************************************)
EXTENDS Integers

CONSTANT CounterMod     \* 2^64 in the code

ASSUME CountersAssumption == CounterMod \in Nat \ {0, 1}

VARIABLE counters

CounterNames ==
    {"total_closes", "drainable_closes", "pinned_closes", "open_granules",
     "peak_open_granules", "total_allocs", "total_deallocs"}

CountersInit == counters = [f \in CounterNames |-> 0]

\* atomic_fetch_add and atomic_fetch_sub
FetchAdd(f, n) == counters' = [counters EXCEPT ![f] = (@ + n) % CounterMod]
Store(f, n)    == counters' = [counters EXCEPT ![f] = n]

\* The order of the stores in drainprof_counters_reset.
ResetOrder ==
    <<"total_closes", "drainable_closes", "pinned_closes", "open_granules",
      "peak_open_granules", "total_allocs", "total_deallocs">>
=============================================================================
