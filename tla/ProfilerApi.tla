------------------------------ MODULE ProfilerApi ------------------------------
(***************************************************************************)
(* The functions of the public API (src/drainprof.c), but for the storage  *)
(* they are built on: what every call counts, before and after it goes to  *)
(* the storage, and how snapshots, sweeps and resets treat the counters.   *)
(* Both modes share this code; module ProductionProfiler puts it on the    *)
(* slot array, module DiagnosticProfiler on the diagnostic slots.  The     *)
(* actions here leave the variables of a storage to those modules.         *)
(*                                                                         *)
(* An operation of the storage leaves its result in ret[t] and thread t at *)
(* "ret".  From there an open or a close that succeeded is counted, one    *)
(* atomic operation at a time; a register or deregister has been counted   *)
(* before the storage was searched.                                        *)
(*                                                                         *)
(* A monitor thread takes snapshots, sweeps the open granules, and resets  *)
(* the profiler.  Snapshots and sweeps run beside the allocator's threads; *)
(* a reset runs alone, which is how the tests use it.                      *)
(*                                                                         *)
(* told, maxOpen, moved and overlap record history for the properties:     *)
(* the code has no such variables.                                         *)
(***************************************************************************)
EXTENDS Client, Counters, Sequences

CONSTANTS
    CloseError,   \* the value the storage's close returns for an error
    Queries,      \* what the monitor does: "snapshot", "sweep"
    MaxAllocs,    \* bound: no register is called when total_allocs has got here
    MaxQueries,   \* bound: how many snapshots and sweeps the monitor takes
    MaxResets     \* bound: how often the monitor resets the profiler

ASSUME ApiAssumption ==
    /\ CloseError \in Int
    /\ Queries \subseteq {"snapshot", "sweep"}
    /\ MaxAllocs \in Nat /\ MaxQueries \in Nat /\ MaxResets \in Nat

VARIABLES
    mine,     \* granule_open's local variable open, per thread
    seen,     \* granule_open's local variable peak, per thread
    mpc,      \* the monitor's next operation
    cursor,   \* the monitor's position in a list of counters or of slots
    out,      \* the snapshot the monitor is filling in
    queries,  \* snapshots and sweeps begun
    resets,   \* resets begun
    told,     \* history: closes answered 1 (drainable) and 0 (pinned)
    maxOpen,  \* history: the largest number of open granules an open has counted
    moved,    \* history: granules a call was active on since the query began
    overlap   \* history: close calls active since the query began

peakVars    == <<mine, seen>>
queryVars   == <<mpc, cursor, out, queries, resets>>
historyVars == <<told, maxOpen, moved, overlap>>
apiVars     == <<clientVars, counters, peakVars, queryVars, historyVars>>

NoCounts == [f \in CounterNames |-> 0]

ApiInit ==
    /\ CountersInit
    /\ mine = [t \in Threads |-> 0]
    /\ seen = [t \in Threads |-> 0]
    /\ mpc = "idle" /\ cursor = 0 /\ out = NoCounts /\ queries = 0 /\ resets = 0
    /\ told = [drainable |-> 0, pinned |-> 0]
    /\ maxOpen = 0
    /\ moved = {}
    /\ overlap = 0

Resetting == mpc \in {"reset_counter", "reset_live", "reset_occupied", "reset_id"}

-----------------------------------------------------------------------------
(* Calls.  Register and deregister count themselves before the storage is  *)
(* searched; open and close go to the storage at once, at operation o      *)
(* and c.                                                                  *)

ApiCall(t, g, o, c) ==
    /\ ~Resetting
    /\ \/ CallOpen(t, g, o)
       \/ CallClose(t, g, c)
       \/ /\ counters["total_allocs"] < MaxAllocs
          /\ CallAlloc(t, g, "count_alloc")
       \/ CallDealloc(t, g, "count_dealloc")
       \/ CallLateDealloc(t, g, "count_dealloc")
    /\ moved' = moved \cup {g}
    /\ overlap' = overlap + IF call'[t].fn = "close" THEN 1 ELSE 0
    /\ UNCHANGED <<counters, peakVars, queryVars, told, maxOpen>>

CountCall(t) ==
    /\ \/ pc[t] = "count_alloc"   /\ FetchAdd("total_allocs", 1)
       \/ pc[t] = "count_dealloc" /\ FetchAdd("total_deallocs", 1)
    /\ Goto(t, "find_occupied")
    /\ UNCHANGED <<call, ret, bookVars, peakVars, queryVars, historyVars>>

\* An operation of the storage touches nothing of the API but the call.
StorageOnly == UNCHANGED <<counters, peakVars, queryVars, historyVars>>

-----------------------------------------------------------------------------
(* drainprof_granule_open, after the storage's open succeeded: count the   *)
(* granule and raise the high-water mark.                                  *)

CountOpen(t) ==
    /\ pc[t] = "ret" /\ call[t].fn = "open" /\ ret[t] = 0
    /\ FetchAdd("open_granules", 1)
    /\ LET open == counters'["open_granules"]
       IN  /\ mine' = [mine EXCEPT ![t] = open]
           /\ maxOpen' = IF open > maxOpen THEN open ELSE maxOpen
    /\ Goto(t, "peak_load")
    /\ UNCHANGED <<call, ret, bookVars, seen, queryVars, told, moved, overlap>>

\* The loop's test: try to raise the peak only while open is above it.
PeakTest(t, peak) ==
    /\ seen' = [seen EXCEPT ![t] = peak]
    /\ Goto(t, IF mine[t] > peak THEN "peak_cas" ELSE "done")

PeakLoad(t) ==
    /\ pc[t] = "peak_load"
    /\ PeakTest(t, counters["peak_open_granules"])
    /\ UNCHANGED <<call, ret, bookVars, counters, mine, queryVars, historyVars>>

\* Mutant: the peak is stored without comparing it.
PeakSwapBlind(t) ==
    /\ pc[t] = "peak_cas"
    /\ Store("peak_open_granules", mine[t])
    /\ Goto(t, "done")
    /\ UNCHANGED <<call, ret, bookVars, peakVars, queryVars, historyVars>>

\* Mutant: a failed compare-and-swap does not reload the peak.
PeakSwapStale(t) ==
    /\ counters["peak_open_granules"] = seen[t]
    /\ PeakSwapBlind(t)

\* A weak compare-and-swap: a failure reloads the peak and tests again.  A
\* spurious failure reloads the value already seen, and so changes nothing.
PeakSwap(t) ==
    /\ pc[t] = "peak_cas"
    /\ IF counters["peak_open_granules"] = seen[t]
       THEN /\ Store("peak_open_granules", mine[t])
            /\ Goto(t, "done")
            /\ UNCHANGED seen
       ELSE /\ PeakTest(t, counters["peak_open_granules"])
            /\ UNCHANGED counters
    /\ UNCHANGED <<call, ret, bookVars, mine, queryVars, historyVars>>

-----------------------------------------------------------------------------
(* drainprof_granule_close, after the storage's close found the granule:   *)
(* three counters, one after the other.                                    *)

\* The local variable drainable, which is also the answer of a close.
\* Mutant: one live allocation still counts as drainable.
DrainableOffByOne(t) == ret[t] <= 1
Drainable(t) == ret[t] = 0

\* A close that found its granule has something to count.
Closed(t) == pc[t] = "ret" /\ call[t].fn = "close" /\ ret[t] # CloseError

\* Mutant: only a drainable granule leaves open_granules.
CountClosePinned(t) ==
    /\ Closed(t)
    /\ FetchAdd("open_granules", IF Drainable(t) THEN -1 ELSE 0)
    /\ Goto(t, "count_total")
    /\ UNCHANGED <<call, ret, bookVars, peakVars, queryVars, historyVars>>

CountClose(t) ==
    /\ Closed(t)
    /\ FetchAdd("open_granules", -1)
    /\ Goto(t, "count_total")
    /\ UNCHANGED <<call, ret, bookVars, peakVars, queryVars, historyVars>>

\* Mutant: only a drainable close is in the total.
CountTotalDrainable(t) ==
    /\ pc[t] = "count_total"
    /\ FetchAdd("total_closes", IF Drainable(t) THEN 1 ELSE 0)
    /\ Goto(t, "count_verdict")
    /\ UNCHANGED <<call, ret, bookVars, peakVars, queryVars, historyVars>>

CountTotal(t) ==
    /\ pc[t] = "count_total"
    /\ FetchAdd("total_closes", 1)
    /\ Goto(t, "count_verdict")
    /\ UNCHANGED <<call, ret, bookVars, peakVars, queryVars, historyVars>>

\* Mutant: a verdict is counted with a load and a store.
CountVerdictBlind(t) ==
    /\ pc[t] = "count_verdict"
    /\ Store(IF Drainable(t) THEN "drainable_closes" ELSE "pinned_closes", 1)
    /\ Goto(t, "done")
    /\ UNCHANGED <<call, ret, bookVars, peakVars, queryVars, historyVars>>

CountVerdict(t) ==
    /\ pc[t] = "count_verdict"
    /\ FetchAdd(IF Drainable(t) THEN "drainable_closes" ELSE "pinned_closes", 1)
    /\ Goto(t, "done")
    /\ UNCHANGED <<call, ret, bookVars, peakVars, queryVars, historyVars>>

-----------------------------------------------------------------------------
\* The call returns: counted, refused by the storage, or with nothing to count.
Finished(t) ==
    \/ pc[t] = "done"
    \/ pc[t] = "ret" /\ CASE call[t].fn = "open"  -> ret[t] # 0
                          [] call[t].fn = "close" -> ret[t] = CloseError
                          [] OTHER -> TRUE

ClosedAs(t) == IF Drainable(t) THEN "drainable" ELSE "pinned"

ApiReturn(t) ==
    /\ Finished(t)
    /\ ClientReturn(t)
    /\ mine' = [mine EXCEPT ![t] = 0]
    /\ seen' = [seen EXCEPT ![t] = 0]
    /\ told' = IF pc[t] = "done" /\ call[t].fn = "close"
               THEN [told EXCEPT ![ClosedAs(t)] = @ + 1] ELSE told
    /\ UNCHANGED <<counters, queryVars, maxOpen, moved, overlap>>

ApiStep(t) ==
    \/ CountCall(t)
    \/ CountOpen(t)
    \/ PeakLoad(t)
    \/ PeakSwap(t)
    \/ CountClose(t)
    \/ CountTotal(t)
    \/ CountVerdict(t)
    \/ ApiReturn(t)

-----------------------------------------------------------------------------
(* drainprof_snapshot and drainprof_sweep: load some counters, in order;   *)
(* a sweep then walks the slots, counting in drainable_closes and          *)
(* pinned_closes.                                                          *)

SnapshotOrder ==
    <<"total_closes", "drainable_closes", "pinned_closes", "open_granules",
      "peak_open_granules", "total_allocs", "total_deallocs">>
SweepOrder ==
    <<"open_granules", "peak_open_granules", "total_allocs", "total_deallocs">>

BeginQuery ==
    /\ mpc = "idle"
    /\ queries < MaxQueries
    /\ queries' = queries + 1
    /\ mpc' \in Queries
    /\ cursor' = 1
    /\ out' = NoCounts
    /\ moved' = {call[t].id : t \in {u \in Threads : Active(u)}}
    /\ overlap' = Cardinality({t \in Threads : Active(t) /\ call[t].fn = "close"})
    /\ UNCHANGED <<clientVars, counters, peakVars, resets, told, maxOpen>>

MonitorOnly ==
    UNCHANGED <<clientVars, counters, peakVars, queries, resets, historyVars>>

LoadCounter(order, this, next) ==
    /\ mpc = this
    /\ out' = [out EXCEPT ![order[cursor]] = counters[order[cursor]]]
    /\ IF cursor < Len(order)
       THEN cursor' = cursor + 1 /\ UNCHANGED mpc
       ELSE cursor' = 0 /\ mpc' = next
    /\ MonitorOnly

SnapshotLoad == LoadCounter(SnapshotOrder, "snapshot", "snapshot_done")
SweepLoad    == LoadCounter(SweepOrder, "sweep", "sweep_occupied")

\* Mutant: the sweep goes one slot too far.
NextSlotOver ==
    IF cursor + 1 <= Capacity
    THEN cursor' = cursor + 1 /\ mpc' = "sweep_occupied"
    ELSE cursor' = 0 /\ mpc' = "sweep_done"

NextSlot ==
    IF cursor + 1 < Capacity
    THEN cursor' = cursor + 1 /\ mpc' = "sweep_occupied"
    ELSE cursor' = 0 /\ mpc' = "sweep_done"

\* The test of operation this succeeds (o): go on at operation l, or with the
\* next slot.
SweepTest(this, o, l) ==
    /\ mpc = this
    /\ IF o THEN mpc' = l /\ UNCHANGED cursor ELSE NextSlot
    /\ UNCHANGED out
    /\ MonitorOnly

\* A granule with n live allocations is counted with its verdict.
SweepCount(n) ==
    /\ LET f == IF n = 0 THEN "drainable_closes" ELSE "pinned_closes"
       IN  out' = [out EXCEPT ![f] = @ + 1, !["total_closes"] = @ + 1]
    /\ NextSlot
    /\ MonitorOnly

EndQuery ==
    /\ mpc \in {"snapshot_done", "sweep_done"}
    /\ mpc' = "idle"
    /\ out' = NoCounts
    /\ moved' = {}
    /\ overlap' = 0
    /\ UNCHANGED <<cursor, clientVars, counters, peakVars, queries, resets, told, maxOpen>>

-----------------------------------------------------------------------------
(* drainprof_reset: the counters, in the order of drainprof_counters_reset;*)
(* what follows, at operation l, is up to the storage.                     *)

BeginReset ==
    /\ mpc = "idle"
    /\ resets < MaxResets
    /\ \A t \in Threads : ~Active(t)
    /\ resets' = resets + 1
    /\ mpc' = "reset_counter"
    /\ cursor' = 1
    /\ UNCHANGED <<clientVars, counters, peakVars, out, queries, historyVars>>

ResetCounter(l) ==
    /\ mpc = "reset_counter"
    /\ Store(ResetOrder[cursor], 0)
    /\ IF cursor < Len(ResetOrder)
       THEN cursor' = cursor + 1 /\ UNCHANGED <<mpc, told, maxOpen>>
       ELSE /\ cursor' = 0
            /\ mpc' = l
            /\ told' = [drainable |-> 0, pinned |-> 0]
            /\ maxOpen' = 0
    /\ UNCHANGED <<clientVars, peakVars, out, queries, resets, moved, overlap>>

ApiMonitorStep == SnapshotLoad \/ SweepLoad \/ EndQuery

-----------------------------------------------------------------------------
(* Properties                                                              *)

ApiLabels ==
    {"count_alloc", "count_dealloc", "peak_load", "peak_cas",
     "count_total", "count_verdict", "done"}

ApiTypeOK ==
    /\ counters \in [CounterNames -> 0 .. CounterMod - 1]
    /\ mine \in [Threads -> 0 .. CounterMod - 1]
    /\ seen \in [Threads -> 0 .. CounterMod - 1]
    /\ out \in [CounterNames -> Nat]
    /\ cursor \in IF mpc \in {"snapshot", "reset_counter"} THEN 1 .. Len(SnapshotOrder)
                  ELSE IF mpc = "sweep" THEN 1 .. Len(SweepOrder) ELSE 0 .. Capacity - 1
    /\ told \in [drainable : Nat, pinned : Nat]
    /\ maxOpen \in Nat
    /\ moved \subseteq Granules

At(l)       == {t \in Threads : pc[t] = l}
Answered(v) == {t \in At("done") : call[t].fn = "close" /\ ClosedAs(t) = v}

\* The counters are the answers the clients were given: every close is in
\* total_closes, and in exactly one of the two verdict counters, with the
\* verdict its caller got, whatever the interleaving; only the closes that are
\* between their atomic operations are missing.
VerdictsCounted ==
    ~Resetting =>
        /\ counters["drainable_closes"] = told.drainable + Cardinality(Answered("drainable"))
        /\ counters["pinned_closes"] = told.pinned + Cardinality(Answered("pinned"))
        /\ counters["total_closes"] =
              counters["drainable_closes"] + counters["pinned_closes"]
              + Cardinality(At("count_verdict"))

\* The compare-and-swap loop loses no maximum: once the opens have left it, the
\* peak is the largest number of granules an open has counted since the last
\* reset.
PeakIsMaximum ==
    ~Resetting =>
        /\ counters["peak_open_granules"] <= maxOpen
        /\ At("peak_load") \cup At("peak_cas") = {} =>
              counters["peak_open_granules"] = maxOpen

\* The answer of a close is right at the API too: 1 if and only if no
\* allocation registered in this opening of the granule is alive.
DrainableExact ==
    \A t \in At("done") :
        call[t].fn = "close" => (Drainable(t) <=> held[call[t].id] = 0)

\* A snapshot is off by no more than the closes that overlapped it; alone, it
\* is consistent, and its drainability rate is at most 1.
SnapshotDrift ==
    mpc = "snapshot_done" =>
        /\ out["drainable_closes"] + out["pinned_closes"] <= out["total_closes"] + overlap
        /\ out["total_closes"] <= out["drainable_closes"] + out["pinned_closes"] + overlap

\* The open granules no call acted on while the sweep ran.
Still == {g \in Granules \ moved : phase[g] = "open"}

\* A sweep that races with opens, closes and allocations still counts every
\* granule left alone exactly once, with its verdict; it can be wrong only
\* about the granules that moved.
SweepBounds ==
    mpc = "sweep_done" =>
        LET idle == Cardinality({g \in Still : held[g] = 0})
            busy == Cardinality({g \in Still : held[g] > 0})
        IN  /\ idle <= out["drainable_closes"]
            /\ busy <= out["pinned_closes"]
            /\ out["total_closes"] <= idle + busy + Cardinality(moved)

\* Every call, every query and every reset ends.
EverythingEnds ==
    /\ \A t \in Threads : Active(t) ~> ~Active(t)
    /\ mpc # "idle" ~> mpc = "idle"

-----------------------------------------------------------------------------
(* The invariants behind these, for every storage: where a call can be,    *)
(* what a reset has cleared, and what the counters hold between their      *)
(* operations.                                                             *)

Raising   == {"peak_load", "peak_cas"}
Totalling == {"count_total", "count_verdict"}

CountingInv ==
    \A t \in Threads :
        /\ pc[t] = "count_alloc"   => call[t].fn = "alloc"
        /\ pc[t] = "count_dealloc" => call[t].fn = "dealloc"
        /\ pc[t] \in Raising       => call[t].fn = "open"
        /\ pc[t] \in Totalling     => call[t].fn = "close"
        /\ pc[t] = "done"          => call[t].fn \in {"open", "close"}

\* An open that is about to raise the peak has seen it below its own count, and
\* while the peak is too low some open is still going to raise it.
PeakInv ==
    /\ \A t \in Threads :
          /\ pc[t] \in Raising    => mine[t] <= maxOpen
          /\ pc[t] = "peak_cas" => seen[t] < mine[t]
    /\ ~Resetting =>
          /\ counters["peak_open_granules"] <= maxOpen
          /\ \/ counters["peak_open_granules"] = maxOpen
             \/ \E t \in Threads : pc[t] \in Raising /\ mine[t] = maxOpen

\* A reset runs alone, and clears the counters from the first to the last.
ResetInv ==
    /\ Resetting => \A t \in Threads : ~Active(t)
    /\ mpc = "reset_counter" => \A i \in 1 .. cursor - 1 : counters[ResetOrder[i]] = 0
    /\ Resetting /\ mpc # "reset_counter" =>
          counters = NoCounts /\ told = [drainable |-> 0, pinned |-> 0] /\ maxOpen = 0

\* The closes under way, and those of them that total_closes does not count yet.
Underway  == {t \in Threads : Calling(t, "close")}
Uncounted == {t \in Underway : pc[t] \notin {"count_verdict", "done"}}

\* What a snapshot has loaded when it is past the n-th counter, and what it will
\* load later.
Loaded(n)   == \/ mpc = "snapshot_done"
               \/ mpc = "snapshot" /\ cursor > n
Shown(n, f) == IF Loaded(n) THEN out[f] ELSE counters[f]

SnapshotInv ==
    mpc \in {"snapshot", "snapshot_done"} =>
        /\ overlap \in Nat /\ Cardinality(Underway) <= overlap
        /\ Loaded(1) =>
              /\ counters["total_closes"] + Cardinality(Uncounted)
                    <= out["total_closes"] + overlap
              /\ out["total_closes"]
                    <= Shown(2, "drainable_closes") + Shown(3, "pinned_closes") + overlap
        /\ Loaded(2) => out["drainable_closes"] <= counters["drainable_closes"]
        /\ Loaded(3) => out["drainable_closes"] + out["pinned_closes"]
                          <= out["total_closes"] + overlap

\* A granule that the client is opening or closing has a call that does it, and
\* what a call is active on during a query has moved.
TransitInv ==
    /\ \A g \in Granules :
          phase[g] \in {"opening", "closing"} =>
              \E t \in Threads : /\ Active(t) /\ call[t].id = g
                               /\ call[t].fn \in {"open", "close"}
    /\ \A t \in Threads :
          mpc # "idle" /\ ~Resetting /\ Active(t) => call[t].id \in moved

\* The granules a sweep may count: those that were open and those that moved.
Sweepable == {g \in Granules : phase[g] = "open"} \cup moved

\* A sweep has the slots before its cursor behind it.
SlotLoads == {"sweep_occupied", "sweep_diag", "sweep_live"}
Swept(s)  == mpc = "sweep_done" \/ (mpc \in SlotLoads /\ s < cursor)

SweptIdle(home) == {g \in Still : Swept(home[g]) /\ held[g] = 0}
SweptBusy(home) == {g \in Still : Swept(home[g]) /\ held[g] > 0}
SweptAll(home)  == {g \in Sweepable : Swept(home[g])}

\* When granule g has its slot at home[g], a sweep has counted every granule that
\* it has behind it and nothing moved, and no others than it may count.
SweepInv(home) ==
    mpc \in {"sweep", "sweep_done"} \cup SlotLoads =>
        /\ Cardinality(SweptIdle(home)) <= out["drainable_closes"]
        /\ Cardinality(SweptBusy(home)) <= out["pinned_closes"]
        /\ out["total_closes"] <= Cardinality(SweptAll(home))
        /\ mpc = "sweep_live" => \E g \in Sweepable : home[g] = cursor

\* The counters of closes are far from their largest value: fewer closes than
\* that have been answered since the last reset.
FewCloses == told.drainable + told.pinned + Cardinality(Threads) < CounterMod

\* open_granules is wide enough for the slots and one open of every thread.
WideCounters == IsFiniteSet(Threads) /\ Capacity + Cardinality(Threads) < CounterMod
=============================================================================
