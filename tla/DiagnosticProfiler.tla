-------------------------- MODULE DiagnosticProfiler --------------------------
(***************************************************************************)
(* The profiler in diagnostic mode, from its creation to its destruction:  *)
(* the public API (module ProfilerApi) on the diagnostic slots (module     *)
(* DiagSlots), with the report buffer (module ReportBuffer) or a callback  *)
(* at the end of a pinned close, and drainprof_drain_reports.              *)
(*                                                                         *)
(* A reset clears the counters and nothing else ("Not implemented in M2"); *)
(* the clients go on with their granules.                                  *)
(***************************************************************************)
EXTENDS DiagSlots, ProfilerApi, Lifecycle

CONSTANTS
    Limit,          \* config.max_buffered_reports
    MaxDrain,       \* bound: the largest max_reports a caller passes
    RacingSweeps    \* may a sweep run beside a close?

\* A report is named by the granule and the opening it is about.
Reports == Granules \X (1 .. MaxOpens)

ASSUME DiagnosticAssumption ==
    /\ CloseError = -1 /\ RacingSweeps \in BOOLEAN
    /\ Limit \in Nat \ {0} /\ MaxDrain \in Nat
    /\ Null \notin Reports

VARIABLES
    reports, count, head, tail, fate, answer,   \* see ReportBuffer
    swept,      \* the sweep's pointer to a granule's state
    forgotten   \* history: the slots that were occupied at the last reset

bufVars  == <<reports, count, head, tail, fate, answer>>
profVars == <<diagVars, apiVars, lifeVars, bufVars, swept, forgotten>>

Running == life = "running" /\ config.mode = "diagnostic"

Buffer == INSTANCE ReportBuffer WITH alive <- Running

ProfilerInit ==
    /\ ClientInit /\ DiagSlotsInit /\ ApiInit /\ LifeInit
    /\ reports = [i \in 0 .. Limit - 1 |-> Null]
    /\ count = 0 /\ head = 0 /\ tail = 0
    /\ fate = [r \in Reports |-> "new"]
    /\ answer = <<>>
    /\ swept = Null
    /\ forgotten = 0

-----------------------------------------------------------------------------
(* Calls                                                                   *)

Sweeping     == mpc \in {"sweep", "sweep_occupied", "sweep_diag", "sweep_live", "sweep_done"}
CloseRunning == \E t \in Threads : Active(t) /\ call[t].fn = "close"

\* The parameter alloc_id, and the client's list of its allocations.
ListCall(t, g) ==
    CASE call'[t].fn = "alloc" ->
            /\ \A c \in Records(g) :
                  Len(heap[c].allocs) + Cardinality(Registering(g)) < MaxRecords
            /\ \E a \in FreshIds : Pass(t, a)
            /\ UNCHANGED <<owner, late>>
      [] call'[t].fn = "dealloc" ->
            \E a \in IF held'[g] < held[g] THEN HeldIn(g) ELSE StaleIn(g) :
                /\ Pass(t, a)
                /\ owner' = [owner EXCEPT ![a] = Null]
                /\ late' = late \ {a}
      [] OTHER -> UNCHANGED <<arg, owner, late>>

ProfilerCall(t) ==
    /\ Running
    /\ \E g \in Granules :
          /\ ApiCall(t, g, "open_cas", "find_occupied")
          /\ ListCall(t, g)
    /\ Sweeping /\ ~RacingSweeps => call'[t].fn # "close"
    /\ UNCHANGED <<slotVars, heap, ptr, report, failures, lifeVars, bufVars, swept, forgotten>>

\* A pinned close hands its report over: the callback looks at it and it is
\* freed, or the buffer takes it.
HandOver(t) ==
    LET r == <<call[t].id, opens[call[t].id]>>
    IN  CASE pc[t] = "close_push" /\ config.on_pinning ->
                /\ fate' = [fate EXCEPT ![r] = "freed"]
                /\ UNCHANGED <<reports, count, head, tail, answer>>
          [] pc[t] = "close_push" /\ ~config.on_pinning -> Buffer!Push(r)
          [] pc[t] = "close_report" /\ pc'[t] = "close_destroy" ->
                /\ fate' = [fate EXCEPT ![r] = "lost"]
                /\ UNCHANGED <<reports, count, head, tail, answer>>
          [] OTHER -> UNCHANGED bufVars

StorageStep(t) ==
    /\ SlotStep(t)
    /\ StorageOnly
    /\ UNCHANGED <<lifeVars, swept, forgotten>>
    /\ HandOver(t)

CountStep(t) ==
    /\ ApiStep(t)
    /\ IF pc'[t] = "idle" THEN ListReturn(t) ELSE UNCHANGED diagVars
    /\ UNCHANGED <<lifeVars, bufVars, swept, forgotten>>

ProfilerStep(t) == StorageStep(t) \/ CountStep(t)

-----------------------------------------------------------------------------
(* drainprof_sweep: the slot's occupied flag, its plain pointer, and the   *)
(* live count behind the pointer                                           *)

SweepOccupied ==
    /\ SweepTest("sweep_occupied", occupied[cursor] = 1, "sweep_diag")
    /\ UNCHANGED swept

\* Mutant: a slot without a state is followed.
SweepDiagAny ==
    /\ SweepTest("sweep_diag", TRUE, "sweep_live")
    /\ swept' = diag[cursor]

SweepDiag ==
    /\ SweepTest("sweep_diag", diag[cursor] # Null, "sweep_live")
    /\ swept' = diag[cursor]

SweepLive ==
    /\ mpc = "sweep_live"
    /\ \E p \in {swept, diag[cursor]} :
          /\ p # Null /\ heap[p] # Null
          /\ SweepCount(heap[p].live_count)
    /\ swept' = Null

-----------------------------------------------------------------------------
(* The monitor's other work: queries, the reset of the counters, and       *)
(* drainprof_drain_reports.                                                *)

Query ==
    /\ \/ Running /\ BeginQuery /\ (CloseRunning => RacingSweeps)
       \/ Running /\ BeginReset
       \/ ApiMonitorStep
    /\ UNCHANGED swept

ResetAll ==
    /\ ResetCounter("idle")
    /\ forgotten' = IF mpc' = "idle" THEN Cardinality({s \in Slots : occupied[s] = 1})
                    ELSE forgotten
    /\ UNCHANGED swept

MonitorStep ==
    /\ \/ ResetAll
       \/ (Query \/ SweepOccupied \/ SweepDiag \/ SweepLive) /\ UNCHANGED forgotten
    /\ UNCHANGED <<diagVars, lifeVars, bufVars>>

DrainReports ==
    /\ Running
    /\ ~config.on_pinning
    /\ UNCHANGED <<diagVars, apiVars, lifeVars, swept, forgotten>>
    /\ \E max \in 1 .. MaxDrain : Buffer!Drain(max)

-----------------------------------------------------------------------------
(* Creation and destruction.  A profiler in production mode is created and *)
(* destroyed here, and used in module ProductionProfiler.                  *)

CreateProfiler ==
    /\ CreatePart \/ CreateFail
    /\ UNCHANGED <<diagVars, apiVars, bufVars, swept, forgotten>>

\* Mutant: the granules that are still open are forgotten.
FreeSlotsNone == UNCHANGED heap
\* drainprof_slot_array_diag_destroy: the states of the granules still open.
FreeSlots == heap' = [c \in Cells |-> IF c \in InSlots THEN Null ELSE heap[c]]

DestroyProfiler ==
    /\ mpc = "idle" /\ \A t \in Threads : ~Active(t)
    /\ Destroy
    /\ IF config.mode = "diagnostic" THEN FreeSlots ELSE UNCHANGED heap
    /\ IF Running /\ ~config.on_pinning
       THEN fate' = Buffer!Settle(Buffer!Oldest(count), "freed") ELSE UNCHANGED fate
    /\ UNCHANGED <<slotVars, localVars, failures, owner, late, apiVars,
                   reports, count, head, tail, answer, swept, forgotten>>

ProfilerNext ==
    \/ \E t \in Threads : ProfilerCall(t) \/ ProfilerStep(t)
    \/ MonitorStep
    \/ DrainReports
    \/ CreateProfiler
    \/ DestroyProfiler

ProfilerSpec == ProfilerInit /\ [][ProfilerNext]_profVars

Busy == mpc # "idle"

\* A thread that is inside a call or a query is eventually scheduled; nobody has
\* to call, create, drain or destroy.
FairProfilerSpec ==
    /\ ProfilerSpec
    /\ \A t \in Threads : WF_profVars(ProfilerStep(t))
    /\ WF_profVars(Busy /\ MonitorStep)

-----------------------------------------------------------------------------
(* Properties                                                              *)

\* The reports of the closes that are about to answer, or have.
ReportOf(t) == <<call[t].id, opens[call[t].id]>>
Counted     == {"count_total", "count_verdict", "done"}

\* A close that answers "pinned" has made its report, unless memory ran out, and
\* one that answers "drainable" has made none.
ReportIfPinned ==
    \A t \in Threads :
        call[t].fn = "close" /\ pc[t] \in Counted =>
            /\ Drainable(t) => fate[ReportOf(t)] = "new"
            /\ ~Drainable(t) => fate[ReportOf(t)] # "new"
            /\ fate[ReportOf(t)] = "lost" => failures > 0

\* Slots that are claimed and not counted yet, and counted but already free.
Claimed  == {t \in Threads : \/ pc[t] \in {"open_create", "open_release"}
                             \/ pc[t] = "ret" /\ call[t].fn = "open" /\ ret[t] = 0}
Released == {t \in Threads : \/ pc[t] \in Detached \ {"close_release"}
                             \/ Closed(t)}

\* open_granules is the number of occupied slots, but for the calls in flight,
\* less the granules a reset forgot: when those are closed it goes below zero,
\* that is, to the top of its range.
OpenDrift ==
    ~Resetting =>
        (counters["open_granules"] + forgotten) % CounterMod =
            Cardinality({s \in Slots : occupied[s] = 1})
            - Cardinality(Claimed) + Cardinality(Released)

\* A sweep reads the live count of a state that still exists, as it would if it
\* took "read locks per occupied slot in diagnostic" mode (include/drainprof.h).
SafeSweep == mpc = "sweep_live" => swept # Null /\ heap[swept] # Null

\* When there is no profiler, all its memory is free: its parts, the states of
\* the granules that were open, and the reports nobody took.
NothingLeft ==
    /\ BlocksFreed
    /\ life \in {"failed", "destroyed"} =>
          InUseCells = {} /\ \A r \in Reports : fate[r] # "queued"

-----------------------------------------------------------------------------
(* The inductive invariant behind these, beside those of the slots and of  *)
(* the API.                                                                *)

\* Nobody is inside a profiler that does not run, and it has no granules.
LifeInv ==
    /\ config \in Config
    /\ life \in {"creating", "failed", "running", "destroyed"}
    /\ ~Running => /\ mpc = "idle"
                   /\ \A t \in Threads : ~Active(t)
                   /\ InUseCells = {}

\* A report is new until the close of its opening has handed it over, and stays new
\* when the granule is drainable; it is lost only where memory has run out.
Handed == {"close_destroy", "ret"} \cup Counted

FateInv ==
    /\ fate \in [Reports -> {"new", "queued", "taken", "freed", "lost"}]
    /\ \A g \in Granules, n \in 1 .. MaxOpens :
          /\ (n > opens[g] \/ (n = opens[g] /\ phase[g] \in {"opening", "open"}))
                => fate[<<g, n>>] = "new"
          /\ fate[<<g, n>>] = "lost" => failures > 0
    /\ \A t \in Threads : Calling(t, "close") =>
          /\ fate[ReportOf(t)] = "new" <=> (pc[t] \notin Handed \/ Drainable(t))
          /\ pc[t] \in {"close_report", "close_push"} => ~Drainable(t)

\* The buffer is used by closes and drains of a profiler that has one.
BufferInv ==
    /\ (Running /\ Buffered) \/ life = "destroyed" \/ count = 0
    /\ life = "destroyed" => \A r \in Reports : fate[r] # "queued"

\* Together: nothing of the profiler outlives it, and every report has one owner,
\* from the close that makes it to the callback, the reader or the end.
DeliveryInv == LifeInv /\ FateInv /\ BufferInv
=============================================================================
