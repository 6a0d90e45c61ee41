-------------------------- MODULE ProductionProfiler --------------------------
(***************************************************************************)
(* The profiler in production mode: the public API (module ProfilerApi) on *)
(* the slot array (module SlotArray).                                      *)
(***************************************************************************)
EXTENDS SlotArray, ProfilerApi

ASSUME ProductionAssumption == CloseError = NotFound

profVars == <<slotVars, probe, apiVars>>

ProfilerInit == SlotInit /\ ClientInit /\ ApiInit

ProfilerCall(t) ==
    /\ \E g \in Granules : ApiCall(t, g, "open_occupied", "find_occupied")
    /\ UNCHANGED <<slotVars, probe>>

ArrayStep(t)   == SlotStep(t) /\ StorageOnly
CountStep(t)   == /\ ApiStep(t)
                  /\ probe' = IF pc'[t] = "idle" THEN [probe EXCEPT ![t] = 0] ELSE probe
                  /\ UNCHANGED slotVars
ProfilerStep(t) == ArrayStep(t) \/ CountStep(t)

-----------------------------------------------------------------------------
(* drainprof_sweep over the slots                                          *)

\* Mutant: free slots are swept too.
SweepOccupiedAll == SweepTest("sweep_occupied", TRUE, "sweep_live")
SweepOccupied == SweepTest("sweep_occupied", occupied[cursor] = 1, "sweep_live")

SweepLive == mpc = "sweep_live" /\ SweepCount(live_count[cursor])

QueryStep ==
    /\ BeginQuery \/ BeginReset \/ ResetCounter("reset_live")
       \/ ApiMonitorStep \/ SweepOccupied \/ SweepLive
    /\ UNCHANGED <<slotVars, probe>>

-----------------------------------------------------------------------------
(* drainprof_reset, after the counters: the slots one by one.  The client  *)
(* forgets its open granules.                                              *)

ResetOnly ==
    UNCHANGED <<probe, pc, call, ret, opens, stale, counters, peakVars,
                out, queries, resets, historyVars>>

\* Mutant: the live counts survive the reset.
ResetLiveMissing ==
    /\ mpc = "reset_live"
    /\ mpc' = "reset_occupied"
    /\ UNCHANGED <<slotVars, phase, held, cursor>>
    /\ ResetOnly

ResetLive ==
    /\ mpc = "reset_live"
    /\ live_count' = [live_count EXCEPT ![cursor] = 0]
    /\ mpc' = "reset_occupied"
    /\ UNCHANGED <<occupied, granule_id, phase, held, cursor>>
    /\ ResetOnly

ResetOccupied ==
    /\ mpc = "reset_occupied"
    /\ occupied' = [occupied EXCEPT ![cursor] = 0]
    /\ mpc' = "reset_id"
    /\ UNCHANGED <<live_count, granule_id, phase, held, cursor>>
    /\ ResetOnly

ResetId ==
    /\ mpc = "reset_id"
    /\ granule_id' = [granule_id EXCEPT ![cursor] = NoId]
    /\ IF cursor + 1 < Capacity
       THEN cursor' = cursor + 1 /\ mpc' = "reset_live" /\ UNCHANGED <<phase, held>>
       ELSE /\ cursor' = 0
            /\ mpc' = "idle"
            /\ phase' = [g \in Granules |-> "closed"]
            /\ held'  = [g \in Granules |-> 0]
    /\ UNCHANGED <<occupied, live_count>>
    /\ ResetOnly

-----------------------------------------------------------------------------
ProfilerNext ==
    \/ \E t \in Threads : ProfilerCall(t) \/ ProfilerStep(t)
    \/ QueryStep
    \/ ResetLive
    \/ ResetOccupied
    \/ ResetId

ProfilerSpec == ProfilerInit /\ [][ProfilerNext]_profVars

-----------------------------------------------------------------------------
(* Properties                                                              *)

\* The type of every variable.
ProfilerTypeOK == SlotTypeOK /\ ApiTypeOK /\ pc \in [Threads -> Labels \cup ApiLabels]

\* Slots that are claimed and not counted yet, and counted but already free.
Claimed  == {t \in Threads : \/ pc[t] \in {"open_set_id", "open_set_live"}
                             \/ pc[t] = "ret" /\ call[t].fn = "open" /\ ret[t] = 0}
Released == {t \in Threads : Closed(t)}

\* open_granules is the number of occupied slots, except for the opens and
\* closes that have changed one and not yet the other; it cannot underflow.
OpenMatchesSlots ==
    ~Resetting =>
        counters["open_granules"] =
            Cardinality({s \in Slots : occupied[s] = 1})
            - Cardinality(Claimed) + Cardinality(Released)

\* After a reset with granules still open the profiler is as good as new.
ResetClears ==
    [][ mpc = "reset_id" /\ mpc' = "idle"
        => /\ occupied' = [s \in Slots |-> 0]
           /\ granule_id' = [s \in Slots |-> NoId]
           /\ live_count' = [s \in Slots |-> 0]
           /\ counters' = NoCounts ]_profVars

-----------------------------------------------------------------------------
(* The inductive invariant behind these: what holds of the API over any    *)
(* storage, what a reset has cleared of the slots, and, between resets,    *)
(* what holds of the slot array without it.                                *)

SlotsResetInv ==
    mpc \in {"reset_live", "reset_occupied", "reset_id"} =>
        /\ \A s \in 0 .. cursor - 1 :
              occupied[s] = 0 /\ granule_id[s] = NoId /\ live_count[s] = 0
        /\ mpc # "reset_live" => live_count[cursor] = 0
        /\ mpc = "reset_id"   => occupied[cursor] = 0

\* For every hash function and every client;
ProfilerInv ==
    ProfilerTypeOK /\ ContractInv /\ LabelInv /\ CountingInv /\ PeakInv /\ ResetInv /\ SlotsResetInv

\* with sound ids;
ArrayInv == ~Resetting => OwnerInv /\ RightSlot

\* and with ids that hash to slots of their own.
HomesInv == ~Resetting => DistinctInv

\* A slot is taken for the granule that hashes to it.
TakenInv == \A s \in Slots : occupied[s] = 1 => \E g \in Granules : Home(g) = s
=============================================================================
