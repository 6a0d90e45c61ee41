------------------------ MODULE ProductionProfiler_proofs ------------------------
(***************************************************************************)
(* Proofs about the profiler in production mode: what SlotArray_proofs     *)
(* shows of the slots and ProfilerApi_proofs of the counters also holds of *)
(* the two together, from one reset to the next and through the resets.    *)
(***************************************************************************)
EXTENDS ProductionProfiler, SlotArray_proofs, ProfilerApi_proofs

ResetLabels == {"reset_live", "reset_occupied", "reset_id"}

LEMMA InvParts ==
    ASSUME ProfilerInv
    PROVE  /\ ApiInv /\ Typed /\ SlotTypeOK /\ ClientTypeOK /\ PcIsFun
           /\ ContractInv /\ LabelInv /\ CountingInv
  BY DEF ProfilerInv, ProfilerTypeOK, ApiInv, Typed, SlotTypeOK, PcIsFun

\* And back.
LEMMA InvWhole ==
    ASSUME ApiInv', SlotTypeOK', \A t \in Threads : pc'[t] \in Labels \cup ApiLabels,
           ContractInv', LabelInv', SlotsResetInv'
    PROVE  ProfilerInv'
  <1>1. pc' \in [Threads -> Labels \cup ApiLabels]
    BY DEF ApiInv, Typed, PcIsFun
  <1> QED
    BY <1>1 DEF ProfilerInv, ProfilerTypeOK, ApiInv, Typed

LEMMA InvInit == ProfilerInit => ProfilerInv
  <1> SUFFICES ASSUME ProfilerInit PROVE ProfilerInv
    OBVIOUS
  <1>1. Init
    BY DEF ProfilerInit, Init
  <1>2. SlotInv
    BY <1>1, SlotInvInit
  <1>3. ApiInv
    BY ApiInitInv DEF ProfilerInit
  <1>4. SlotsResetInv
    BY DEF SlotsResetInv, ProfilerInit, ApiInit
  <1> QED
    BY <1>2, <1>3, <1>4 DEF ProfilerInv, ProfilerTypeOK, SlotInv, TypeOK, ApiInv, Typed

LEMMA LabelSets ==
    /\ Labels \cap ApiLabels = {}
    /\ {"open_occupied", "find_occupied"} \cap (ApiLabels \cup {"idle", "ret"}) = {}
    /\ {"open_occupied", "find_occupied", "idle", "ret"} \subseteq Labels
    /\ {"count_alloc", "count_dealloc", "done"} \cup Raising \cup Totalling = ApiLabels
  BY DEF Labels, ApiLabels, Raising, Totalling

\* A call, as the client, the slots and the counters see it.
LEMMA ProfilerCallFrame ==
    ASSUME ProfilerInv, NEW t \in Threads, ProfilerCall(t)
    PROVE  \E g \in Granules :
              /\ ApiCall(t, g, "open_occupied", "find_occupied")
              /\ UNCHANGED <<slotVars, probe>>
              /\ pc[t] = "idle" /\ call'[t] \in Calls /\ call'[t].id = g
              /\ pc'[t] \in {"open_occupied", "find_occupied", "count_alloc", "count_dealloc"}
              /\ call'[t].fn = "open"  => pc'[t] = "open_occupied"
              /\ call'[t].fn = "close" => pc'[t] = "find_occupied"
              /\ pc'[t] = "count_alloc"   => call'[t].fn = "alloc"
              /\ pc'[t] = "count_dealloc" => call'[t].fn = "dealloc"
              /\ \A u \in Threads \ {t} : pc'[u] = pc[u] /\ call'[u] = call[u]
              /\ \E f \in {"find_occupied", "count_alloc", "count_dealloc"} :
                    ClientCall(t, g, "open_occupied", f)
              /\ ~Resetting /\ ~Resetting'
              /\ UNCHANGED <<ret, counters, peakVars, queryVars, told, maxOpen>>
  <1>1. PICK g \in Granules : ApiCall(t, g, "open_occupied", "find_occupied")
    BY DEF ProfilerCall
  <1> QED
    BY <1>1, InvParts, LabelSets, ApiCallFrame DEF ProfilerCall

LEMMA CallInv ==
    ASSUME ProfilerInv, NEW t \in Threads, ProfilerCall(t)
    PROVE  ProfilerInv'
  <1>1. PICK g \in Granules :
           /\ ApiCall(t, g, "open_occupied", "find_occupied")
           /\ UNCHANGED <<slotVars, probe>>
           /\ call'[t] \in Calls
           /\ pc'[t] \in {"open_occupied", "find_occupied", "count_alloc", "count_dealloc"}
           /\ call'[t].fn = "open"  => pc'[t] = "open_occupied"
           /\ \A u \in Threads \ {t} : pc'[u] = pc[u] /\ call'[u] = call[u]
           /\ \E f \in {"find_occupied", "count_alloc", "count_dealloc"} :
                 ClientCall(t, g, "open_occupied", f)
           /\ ~Resetting'
    BY ProfilerCallFrame
  <1>2. ApiInv'
    BY <1>1, InvParts, LabelSets, CallApi
  <1>3. SlotTypeOK'
    BY <1>1, <1>2, InvParts DEF SlotTypeOK, slotVars, ApiInv, Typed
  <1>4. \A u \in Threads : pc'[u] \in Labels \cup ApiLabels
    BY <1>1, LabelSets DEF ProfilerInv, ProfilerTypeOK, ApiLabels
  <1>5. ContractInv'
    BY <1>1, InvParts, CallContract
  <1>6. LabelInv'
    <2>1. call'[t].fn # "open" => pc'[t] # "open_occupied"
      BY <1>1, InvParts, CallFrame DEF PcIsFun
    <2> QED
      BY <1>1, <2>1 DEF ProfilerInv, LabelInv, Calls
  <1>7. SlotsResetInv'
    BY <1>1 DEF SlotsResetInv, Resetting
  <1> QED
    BY <1>2, <1>3, <1>4, <1>5, <1>6, <1>7, InvWhole

\* An operation of the array is a move of the storage.
LEMMA ArrayMove ==
    ASSUME ProfilerInv, NEW t \in Threads, ArrayStep(t)
    PROVE  /\ SlotStep(t) /\ StorageOnly /\ StorageMove(t)
           /\ SlotTypeOK' /\ PcIsFun' /\ ClientTypeOK' /\ pc'[t] \in Labels /\ pc'[t] # "idle"
           /\ UNCHANGED <<call, bookVars>> /\ LabelInv' /\ Active(t)
           /\ \A u \in Threads \ {t} : pc'[u] = pc[u] /\ probe'[u] = probe[u] /\ ret'[u] = ret[u]
  <1>1. SlotStep(t) /\ StorageOnly
    BY DEF ArrayStep
  <1>2. SlotTypeOK' /\ PcIsFun' /\ pc'[t] \in Labels
    BY <1>1, InvParts, SlotStepType
  <1>3. /\ UNCHANGED <<call, bookVars>> /\ Active(t) /\ Active(t)' /\ LabelInv'
        /\ \A u \in Threads \ {t} : pc'[u] = pc[u] /\ probe'[u] = probe[u] /\ ret'[u] = ret[u]
    BY <1>1, InvParts, SlotStepFrame
  <1>4. pc[t] \notin ApiLabels
    BY <1>1, SlotStepRuns DEF FindLabels, OpenLabels, ApiLabels
  <1>5. StorageMove(t)
    BY <1>1, <1>2, <1>3, <1>4, LabelSets DEF StorageMove, Active
  <1> QED
    BY <1>1, <1>2, <1>3, <1>5 DEF SlotTypeOK, Active

LEMMA ArrayStepInv ==
    ASSUME ProfilerInv, NEW t \in Threads, ArrayStep(t)
    PROVE  ProfilerInv'
  <1>1. ApiInv'
    BY ArrayMove, InvParts, StorageApi
  <1>2. \A u \in Threads : pc'[u] \in Labels \cup ApiLabels
    BY ArrayMove DEF ProfilerInv, ProfilerTypeOK
  <1>3. ContractInv'
    <2>1. \A u \in Threads : Active(u)' = Active(u)
      BY ArrayMove DEF Active, StorageMove
    <2> QED
      BY <2>1, ArrayMove, InvParts, StepContract
  <1>4. SlotsResetInv'
    <2>1. ~Resetting
      BY ArrayMove, InvParts, ActiveRuns DEF ApiInv
    <2> QED
      BY <2>1, ArrayMove DEF SlotsResetInv, Resetting, StorageOnly, queryVars
  <1> QED
    BY <1>1, <1>2, <1>3, <1>4, ArrayMove, InvWhole

LEMMA CountStepInv ==
    ASSUME ProfilerInv, NEW t \in Threads, CountStep(t)
    PROVE  ProfilerInv'
  <1>1. /\ Count(t) \/ ApiReturn(t)
        /\ probe' = IF pc'[t] = "idle" THEN [probe EXCEPT ![t] = 0] ELSE probe
        /\ UNCHANGED slotVars
    BY StepKinds DEF CountStep
  <1>2. ApiInv'
    BY <1>1, InvParts, CountApi, AnswerApi
  <1>3. Active(t) /\ UNCHANGED queryVars
    BY <1>1, InvParts, CountFrame, AnswerFrame
  <1>4. SlotTypeOK'
    <2>1. 0 \in Slots
      BY ClientAssumption DEF Slots
    <2> QED
      BY <1>1, <1>2, <2>1, InvParts DEF SlotTypeOK, slotVars, ApiInv, Typed
  <1>5. SlotsResetInv'
    <2>1. ~Resetting
      BY <1>3, InvParts, ActiveRuns DEF ApiInv
    <2> QED
      BY <1>3, <2>1 DEF SlotsResetInv, Resetting, queryVars
  <1>6. CASE Count(t)
    <2>1. /\ pc'[t] \in {"find_occupied", "peak_load", "peak_cas", "done"} \cup Totalling
          /\ \A u \in Threads \ {t} : pc'[u] = pc[u]
          /\ UNCHANGED <<call, ret, bookVars>>
          /\ pc[t] \in {"count_alloc", "count_dealloc"} <=> pc'[t] = "find_occupied"
      BY <1>6, InvParts, CountFrame
    <2>2. \A u \in Threads : pc'[u] \in Labels \cup ApiLabels
      BY <2>1, LabelSets DEF ProfilerInv, ProfilerTypeOK, Raising
    <2>3. ContractInv'
      <3>1. \A u \in Threads : Active(u)' = Active(u)
        BY <1>3, <2>1 DEF Active, Totalling
      <3> QED
        BY <2>1, <3>1, InvParts, StepContract
    <2>4. LabelInv'
      BY <2>1, InvParts DEF LabelInv, CountingInv, Totalling
    <2> QED
      BY <1>2, <1>4, <1>5, <2>2, <2>3, <2>4, InvWhole
  <1>7. CASE ApiReturn(t)
    <2>1. /\ ClientReturn(t) /\ pc'[t] = "idle"
          /\ \A u \in Threads \ {t} : pc'[u] = pc[u] /\ call'[u] = call[u]
      BY <1>7, InvParts, AnswerFrame
    <2>2. \A u \in Threads : pc'[u] \in Labels \cup ApiLabels
      BY <2>1, LabelSets DEF ProfilerInv, ProfilerTypeOK
    <2>3. ContractInv'
      BY <1>3, <2>1, InvParts, ReturnContract
    <2>4. LabelInv'
      BY <2>1, InvParts DEF LabelInv
    <2> QED
      BY <1>2, <1>4, <1>5, <2>2, <2>3, <2>4, InvWhole
  <1> QED
    BY <1>1, <1>6, <1>7

\* The steps of the monitor that touch no slot.
LEMMA QueryApi ==
    ASSUME ProfilerInv, QueryStep
    PROVE  /\ ApiInv'
           /\ UNCHANGED <<clientVars, slotVars, probe>>
           /\ \/ ~Resetting /\ ~Resetting' /\ UNCHANGED <<counters, told, maxOpen>>
              \/ ~Resetting /\ mpc' = "reset_counter" /\ UNCHANGED counters
              \/ Resetting /\ mpc = "reset_counter" /\ mpc' = "reset_counter"
              \/ Resetting /\ mpc = "reset_counter" /\ mpc' = "reset_live" /\ cursor' = 0
  <1>0. ApiInv /\ UNCHANGED <<slotVars, probe>>
    BY InvParts DEF QueryStep
  <1>1. CASE BeginQuery
    <2>1. ~Resetting /\ ~Resetting' /\ UNCHANGED <<clientVars, counters, told, maxOpen>>
      BY <1>1, ApiAssumption DEF BeginQuery, Resetting
    <2> QED
      BY <1>0, <1>1, <2>1, BeginQueryApi
  <1>2. CASE BeginReset
    BY <1>0, <1>2, BeginResetApi DEF BeginReset, Resetting
  <1>3. CASE ResetCounter("reset_live")
    <2>1. ApiInv'
      BY <1>0, <1>3, ResetCounterApi
    <2> QED
      BY <1>0, <1>3, <2>1 DEF ResetCounter, Resetting
  <1>4. CASE SnapshotLoad \/ SweepLoad
    <2>1. ~Resetting /\ ~Resetting' /\ UNCHANGED <<clientVars, counters, told, maxOpen>>
      BY <1>4 DEF SnapshotLoad, SweepLoad, LoadCounter, MonitorOnly, historyVars, Resetting
    <2> QED
      BY <1>0, <1>4, <2>1, LoadApi
  <1>5. CASE EndQuery
    <2>1. ~Resetting /\ ~Resetting' /\ UNCHANGED <<clientVars, counters, told, maxOpen>>
      BY <1>5 DEF EndQuery, Resetting
    <2> QED
      BY <1>0, <1>5, <2>1, EndQueryApi
  <1>6. CASE SweepOccupied
    <2>1. mpc = "sweep_occupied" /\ ~Resetting
          /\ SweepTest("sweep_occupied", occupied[cursor] = 1, "sweep_live")
          /\ UNCHANGED <<clientVars, counters, told, maxOpen>>
      BY <1>6 DEF SweepOccupied, SweepTest, MonitorOnly, historyVars, Resetting
    <2> QED
      BY <1>0, <2>1, SweepApi
  <1>7. CASE SweepLive
    <2>1. mpc = "sweep_live" /\ ~Resetting /\ SweepCount(live_count[cursor])
          /\ UNCHANGED <<clientVars, counters, told, maxOpen>>
      BY <1>7 DEF SweepLive, SweepCount, MonitorOnly, historyVars, Resetting
    <2> QED
      BY <1>0, <2>1, SweepApi
  <1> QED
    BY <1>1, <1>2, <1>3, <1>4, <1>5, <1>6, <1>7 DEF QueryStep, ApiMonitorStep

LEMMA QueryInv == ASSUME ProfilerInv, QueryStep PROVE ProfilerInv'
  <1>1. /\ ApiInv' /\ UNCHANGED <<clientVars, slotVars, probe>>
        /\ \/ ~Resetting'
           \/ mpc' = "reset_counter"
           \/ mpc' = "reset_live" /\ cursor' = 0
    BY QueryApi
  <1>2. SlotTypeOK' /\ \A t \in Threads : pc'[t] \in Labels \cup ApiLabels
    BY <1>1 DEF ProfilerInv, ProfilerTypeOK, SlotTypeOK, ApiInv, Typed, slotVars, clientVars
  <1>3. ContractInv'
    <2>1. \A t \in Threads : Active(t)' = Active(t)
      BY <1>1 DEF Active, clientVars
    <2> QED
      BY <1>1, <2>1, InvParts, StepContract DEF clientVars
  <1>4. LabelInv'
    BY <1>1, InvParts DEF LabelInv, clientVars
  <1>5. SlotsResetInv'
    <2>1. CASE ~Resetting' \/ mpc' = "reset_counter"
      BY <2>1 DEF SlotsResetInv, Resetting
    <2>2. CASE mpc' = "reset_live" /\ cursor' = 0
      <3>1. 0 .. cursor' - 1 = {}
        BY <2>2
      <3> QED
        BY <2>2, <3>1 DEF SlotsResetInv
    <2> QED
      BY <1>1, <2>1, <2>2
  <1> QED
    BY <1>1, <1>2, <1>3, <1>4, <1>5, InvWhole

-----------------------------------------------------------------------------
(* A reset of the slots                                                    *)

SlotReset == ResetLive \/ ResetOccupied \/ ResetId

\* It runs alone, and clears one slot after the other.
LEMMA SlotResetFrame ==
    ASSUME ProfilerInv, SlotReset
    PROVE  /\ mpc \in ResetLabels /\ mpc' \in ResetLabels \cup {"idle"}
           /\ \A t \in Threads : ~Active(t) /\ ~Active(t)'
           /\ UNCHANGED <<probe, pc, call, ret, opens, stale, counters, peakVars, out, queries,
                          resets, historyVars>>
           /\ cursor \in Slots /\ cursor' \in Slots
           /\ mpc' # "idle" => UNCHANGED <<phase, held>>
           /\ mpc' = "idle" => /\ mpc = "reset_id" /\ cursor + 1 = Capacity
                               /\ phase' = [g \in Granules |-> "closed"]
                               /\ held'  = [g \in Granules |-> 0]
  <1>1. mpc \in ResetLabels /\ UNCHANGED <<probe, pc, call, ret, opens, stale, counters, peakVars,
                                           out, queries, resets, historyVars>>
    BY DEF SlotReset, ResetLive, ResetOccupied, ResetId, ResetOnly, ResetLabels
  <1>2. \A t \in Threads : ~Active(t) /\ ~Active(t)'
    BY <1>1 DEF ProfilerInv, ResetInv, Resetting, ResetLabels, Active
  <1>3. cursor \in Slots
    BY <1>1 DEF ProfilerInv, ProfilerTypeOK, ApiTypeOK, Slots, ResetLabels
  <1>4. /\ cursor' \in Slots /\ mpc' \in ResetLabels \cup {"idle"}
        /\ mpc' # "idle" => UNCHANGED <<phase, held>>
        /\ mpc' = "idle" => /\ mpc = "reset_id" /\ cursor + 1 = Capacity
                            /\ phase' = [g \in Granules |-> "closed"]
                            /\ held'  = [g \in Granules |-> 0]
    <2>1. CASE ResetLive \/ ResetOccupied
      BY <1>3, <2>1 DEF ResetLive, ResetOccupied, ResetLabels
    <2>2. CASE ResetId
      BY <1>3, <2>2, CapacityPositive DEF ResetId, ResetLabels, Slots
    <2> QED
      BY <2>1, <2>2 DEF SlotReset
  <1> QED
    BY <1>1, <1>2, <1>3, <1>4

\* What has been cleared stays cleared, and a slot is cleared when it is left.
LEMMA SlotResetClears ==
    ASSUME ProfilerInv, SlotReset
    PROVE  /\ occupied' \in [Slots -> {0, 1}]
           /\ granule_id' \in [Slots -> Granules \cup {NoId}]
           /\ live_count' \in [Slots -> 0 .. CountMod - 1]
           /\ SlotsResetInv'
           /\ mpc' = "idle" => /\ occupied' = [s \in Slots |-> 0]
                               /\ granule_id' = [s \in Slots |-> NoId]
                               /\ live_count' = [s \in Slots |-> 0]
  <1>1. /\ cursor \in Slots /\ mpc \in ResetLabels
        /\ \A s \in 0 .. cursor - 1 :
              s \in Slots /\ occupied[s] = 0 /\ granule_id[s] = NoId /\ live_count[s] = 0
        /\ mpc # "reset_live" => live_count[cursor] = 0
        /\ mpc = "reset_id"   => occupied[cursor] = 0
    <2>1. cursor \in Slots /\ mpc \in ResetLabels
      BY SlotResetFrame
    <2>2. \A s \in 0 .. cursor - 1 : s \in Slots
      BY <2>1, ClientAssumption DEF Slots
    <2>3. SlotsResetInv
      BY DEF ProfilerInv
    <2> QED
      BY <2>1, <2>2, <2>3 DEF SlotsResetInv, ResetLabels
  <1>2. /\ occupied \in [Slots -> {0, 1}]
        /\ granule_id \in [Slots -> Granules \cup {NoId}]
        /\ live_count \in [Slots -> 0 .. CountMod - 1]
        /\ 0 \in 0 .. CountMod - 1 /\ Capacity \in Nat \ {0} /\ cursor \in Nat
    BY <1>1, InvParts, SlotArrayAssumption, ClientAssumption DEF SlotTypeOK, Slots
  <1>3. cursor \notin 0 .. cursor - 1
    BY <1>2
  <1>4. CASE ResetLive
    <2>1. /\ live_count' = [live_count EXCEPT ![cursor] = 0] /\ mpc' = "reset_occupied"
          /\ UNCHANGED <<occupied, granule_id, cursor>>
      BY <1>4 DEF ResetLive
    <2>2. live_count'[cursor] = 0 /\ \A s \in 0 .. cursor - 1 : live_count'[s] = 0
      BY <1>1, <1>2, <1>3, <2>1
    <2> QED
      BY <1>1, <1>2, <2>1, <2>2 DEF SlotsResetInv
  <1>5. CASE ResetOccupied
    <2>1. /\ occupied' = [occupied EXCEPT ![cursor] = 0]
          /\ mpc = "reset_occupied" /\ mpc' = "reset_id"
          /\ UNCHANGED <<live_count, granule_id, cursor>>
      BY <1>5 DEF ResetOccupied
    <2>2. occupied'[cursor] = 0 /\ \A s \in 0 .. cursor - 1 : occupied'[s] = 0
      BY <1>1, <1>2, <1>3, <2>1
    <2> QED
      BY <1>1, <1>2, <2>1, <2>2 DEF SlotsResetInv
  <1>6. CASE ResetId
    <2>1. /\ granule_id' = [granule_id EXCEPT ![cursor] = NoId] /\ mpc = "reset_id"
          /\ UNCHANGED <<live_count, occupied>>
          /\ \/ cursor + 1 < Capacity /\ cursor' = cursor + 1 /\ mpc' = "reset_live"
             \/ ~(cursor + 1 < Capacity) /\ mpc' = "idle"
      BY <1>6 DEF ResetId
    <2>2. \A s \in 0 .. cursor : /\ occupied'[s] = 0 /\ granule_id'[s] = NoId /\ live_count'[s] = 0
      <3>1. \A s \in 0 .. cursor : s \in 0 .. cursor - 1 \/ s = cursor
        BY <1>2
      <3>2. granule_id'[cursor] = NoId /\ \A s \in 0 .. cursor - 1 : granule_id'[s] = NoId
        BY <1>1, <1>2, <1>3, <2>1
      <3> QED
        BY <1>1, <2>1, <3>1, <3>2
    <2>3. CASE mpc' = "reset_live"
      <3>1. 0 .. cursor' - 1 = 0 .. cursor
        BY <1>2, <2>1, <2>3
      <3> QED
        BY <1>2, <2>1, <2>2, <2>3, <3>1 DEF SlotsResetInv
    <2>4. CASE mpc' = "idle"
      <3>1. 0 .. cursor = Slots
        BY <1>1, <1>2, <2>1, <2>4 DEF Slots
      <3> QED
        BY <1>2, <2>1, <2>2, <2>4, <3>1 DEF SlotsResetInv
    <2> QED
      BY <2>1, <2>3, <2>4
  <1> QED
    BY <1>4, <1>5, <1>6 DEF SlotReset

LEMMA SlotResetKeeps == ASSUME ProfilerInv, SlotReset PROVE ProfilerInv'
  <1>1. /\ mpc \in ResetLabels /\ mpc' \in ResetLabels \cup {"idle"}
        /\ \A t \in Threads : ~Active(t) /\ ~Active(t)'
        /\ UNCHANGED <<probe, pc, call, ret, opens, stale, counters, peakVars, out, queries,
                       resets, historyVars>>
        /\ cursor \in Slots /\ cursor' \in Slots
        /\ mpc' # "idle" => UNCHANGED <<phase, held>>
        /\ mpc' = "idle" => /\ phase' = [g \in Granules |-> "closed"]
                            /\ held'  = [g \in Granules |-> 0]
    BY SlotResetFrame
  <1>2. ClientTypeOK' /\ PcIsFun'
    <2>1. phase' \in [Granules -> {"closed", "opening", "open", "closing"}] /\ held' \in [Granules -> Nat]
      BY <1>1, InvParts DEF ClientTypeOK
    <2> QED
      BY <1>1, <2>1, InvParts DEF ClientTypeOK, PcIsFun
  <1>3. ApiTypeOK'
    BY <1>1 DEF ProfilerInv, ProfilerTypeOK, ApiTypeOK, Slots, ResetLabels, peakVars, historyVars
  <1>4. CountingInv' /\ PeakInv' /\ ResetInv'
    <2>1. CountingInv'
      BY <1>1, InvParts DEF CountingInv
    <2>2. counters = NoCounts /\ told = [drainable |-> 0, pinned |-> 0] /\ maxOpen = 0
      BY <1>1 DEF ProfilerInv, ResetInv, Resetting, ResetLabels
    <2>3. ResetInv'
      BY <1>1, <2>2 DEF ResetInv, Resetting, ResetLabels, historyVars, NoCounts
    <2>4. counters'["peak_open_granules"] = 0 /\ maxOpen' = 0
      BY <1>1, <2>2 DEF NoCounts, CounterNames, historyVars
    <2>5. \A t \in Threads : pc'[t] = "idle"
      BY <1>1 DEF Active
    <2>6. PeakInv'
      BY <2>4, <2>5 DEF PeakInv, Raising
    <2> QED
      BY <2>1, <2>3, <2>6
  <1>5. SlotTypeOK' /\ SlotsResetInv'
    BY <1>1, <1>2, SlotResetClears, InvParts DEF SlotTypeOK
  <1>6. ContractInv' /\ LabelInv'
    <2>1. \A t \in Threads : pc'[t] = "idle"
      BY <1>1 DEF Active
    <2>2. LabelInv' /\ PhaseInv' /\ AloneInv'
      BY <2>1 DEF LabelInv, PhaseInv, AloneInv, Calling, Active
    <2>3. UnopenedInv'
      BY <1>1, InvParts DEF ContractInv, UnopenedInv
    <2> QED
      BY <2>2, <2>3 DEF ContractInv
  <1>7. \A t \in Threads : pc'[t] \in Labels \cup ApiLabels
    BY <1>1 DEF ProfilerInv, ProfilerTypeOK
  <1> QED
    BY <1>2, <1>3, <1>4, <1>5, <1>6, <1>7, InvWhole DEF ApiInv, Typed

LEMMA ProfilerNextInv == ProfilerInv /\ [ProfilerNext]_profVars => ProfilerInv'
  <1> SUFFICES ASSUME ProfilerInv, [ProfilerNext]_profVars PROVE ProfilerInv'
    OBVIOUS
  <1>1. ASSUME NEW t \in Threads, ProfilerCall(t) PROVE ProfilerInv'
    BY <1>1, CallInv
  <1>2. ASSUME NEW t \in Threads, ProfilerStep(t) PROVE ProfilerInv'
    BY <1>2, ArrayStepInv, CountStepInv DEF ProfilerStep
  <1>3. CASE QueryStep
    BY <1>3, QueryInv
  <1>4. CASE SlotReset
    BY <1>4, SlotResetKeeps
  <1>5. CASE UNCHANGED profVars
    <2>1. /\ UNCHANGED <<slotVars, probe, clientVars, counters, peakVars, queryVars, historyVars>>
      BY <1>5 DEF profVars, apiVars
    <2>2. ClientTypeOK' /\ PcIsFun' /\ CountingInv' /\ \A t \in Threads : Active(t)' = Active(t)
      BY <2>1, InvParts, SameClient
    <2>3. ApiTypeOK' /\ ProfilerTypeOK'
      BY <2>1, <2>2 DEF ProfilerInv, ProfilerTypeOK, ApiTypeOK, SlotTypeOK, slotVars, clientVars,
                        peakVars, queryVars, historyVars
    <2>4. ContractInv' /\ LabelInv'
      <3>1. UNCHANGED <<pc, call, bookVars>>
        BY <2>1 DEF clientVars
      <3>2. ContractInv'
        BY <2>2, <3>1, InvParts, StepContract
      <3> QED
        BY <3>1, <3>2, InvParts DEF LabelInv
    <2>5. PeakInv' /\ ResetInv' /\ SlotsResetInv'
      BY <2>1, <2>2 DEF ProfilerInv, PeakInv, ResetInv, SlotsResetInv, Resetting,
                        slotVars, clientVars, peakVars, queryVars, historyVars
    <2> QED
      BY <2>2, <2>3, <2>4, <2>5 DEF ProfilerInv
  <1> QED
    BY <1>1, <1>2, <1>3, <1>4, <1>5 DEF ProfilerNext, SlotReset

-----------------------------------------------------------------------------
(* For every hash function and every client                                *)

\* ProfilerInv: with any hash function, any ids and any client, the calls, the
\* counters, the snapshots and the resets of the production profiler keep what
\* the code relies on.
THEOREM ProfilerCorrect == ProfilerSpec => []ProfilerInv
  <1>1. ProfilerInit => ProfilerInv
    BY InvInit
  <1>2. ProfilerInv /\ [ProfilerNext]_profVars => ProfilerInv'
    BY ProfilerNextInv
  <1> QED
    BY <1>1, <1>2, PTL DEF ProfilerSpec

\* Every variable keeps its type, whatever the calls do to the array.
THEOREM ProfilerTypes == ProfilerSpec => []ProfilerTypeOK
  <1>1. ProfilerInv => ProfilerTypeOK
    BY DEF ProfilerInv
  <1> QED
    BY <1>1, ProfilerCorrect, PTL

\* The compare-and-swap loop of granule_open loses no maximum.
THEOREM PeakCorrect == ProfilerSpec => []PeakIsMaximum
  <1>1. ProfilerInv => PeakIsMaximum
    BY DEF ProfilerInv, PeakInv, PeakIsMaximum, At, Raising
  <1> QED
    BY <1>1, ProfilerCorrect, PTL

\* A reset with granules still open leaves the profiler as good as new.
THEOREM ResetsClear == ProfilerSpec => ResetClears
  <1>1. ASSUME ProfilerInv, [ProfilerNext]_profVars, mpc = "reset_id", mpc' = "idle"
        PROVE  /\ occupied' = [s \in Slots |-> 0]
               /\ granule_id' = [s \in Slots |-> NoId]
               /\ live_count' = [s \in Slots |-> 0]
               /\ counters' = NoCounts
    <2>1. Resetting /\ mpc # "reset_counter"
      BY <1>1 DEF Resetting
    <2>2. ~UNCHANGED profVars
      BY <1>1 DEF profVars, apiVars, queryVars
    <2>3. \A t \in Threads : ~ProfilerCall(t) /\ ~ProfilerStep(t)
      <3>1. ASSUME NEW t \in Threads, ProfilerCall(t) PROVE FALSE
        BY <1>1, <2>1, <3>1, ProfilerCallFrame
      <3>2. ASSUME NEW t \in Threads, ArrayStep(t) PROVE FALSE
        BY <1>1, <2>1, <3>2, ArrayMove, ActiveRuns DEF ProfilerInv
      <3>3. ASSUME NEW t \in Threads, CountStep(t) PROVE FALSE
        <4>1. Active(t)
          BY <1>1, <3>3, StepKinds, InvParts, CountFrame, AnswerFrame DEF CountStep
        <4> QED
          BY <1>1, <2>1, <4>1, ActiveRuns DEF ProfilerInv
      <3> QED
        BY <3>1, <3>2, <3>3 DEF ProfilerStep
    <2>4. ~QueryStep
      BY <1>1, <2>1, QueryApi
    <2>5. SlotReset
      BY <1>1, <2>2, <2>3, <2>4 DEF ProfilerNext, SlotReset
    <2>6. counters' = counters /\ counters = NoCounts
      BY <1>1, <2>1, <2>5, SlotResetFrame DEF ProfilerInv, ResetInv
    <2> QED
      BY <1>1, <2>5, <2>6, SlotResetClears DEF NoCounts
  <1>2. ProfilerInv /\ [ProfilerNext]_profVars
        => [ mpc = "reset_id" /\ mpc' = "idle"
             => /\ occupied' = [s \in Slots |-> 0]
                /\ granule_id' = [s \in Slots |-> NoId]
                /\ live_count' = [s \in Slots |-> 0]
                /\ counters' = NoCounts ]_profVars
    BY <1>1
  <1> QED
    BY <1>2, ProfilerCorrect, PTL DEF ProfilerSpec, ResetClears

-----------------------------------------------------------------------------
(* The verdicts                                                            *)

LEMMA VerdictsNext ==
    ASSUME ProfilerInv, VerdictsCounted, FewCloses, IsFiniteSet(Threads), [ProfilerNext]_profVars
    PROVE  VerdictsCounted'
  <1>1. ASSUME NEW t \in Threads, ProfilerCall(t) PROVE VerdictsCounted'
    BY <1>1, ProfilerCallFrame, InvParts, LabelSets, CallVerdicts
  <1>2. ASSUME NEW t \in Threads, ArrayStep(t) PROVE VerdictsCounted'
    BY <1>2, ArrayMove, InvParts, StorageVerdicts
  <1>3. ASSUME NEW t \in Threads, CountStep(t) PROVE VerdictsCounted'
    BY <1>3, StepKinds, InvParts, CountVerdicts, AnswerVerdicts DEF CountStep
  <1>4. CASE QueryStep
    <2>1. CASE ~Resetting /\ UNCHANGED <<clientVars, counters, told>>
      BY <2>1, MonitorVerdicts
    <2>2. CASE mpc' \in {"reset_counter", "reset_live"}
      BY <2>2 DEF VerdictsCounted, Resetting
    <2> QED
      BY <1>4, <2>1, <2>2, QueryApi
  <1>5. CASE SlotReset
    <2>1. CASE mpc' \in ResetLabels
      BY <2>1 DEF VerdictsCounted, Resetting, ResetLabels
    <2>2. CASE mpc' = "idle"
      <3>1. counters' = NoCounts /\ told' = [drainable |-> 0, pinned |-> 0]
        BY <1>5, SlotResetFrame DEF ProfilerInv, ResetInv, Resetting, ResetLabels, historyVars
      <3>2. \A t \in Threads : pc'[t] = "idle"
        BY <1>5, SlotResetFrame DEF Active
      <3>3. Answered("drainable")' = {} /\ Answered("pinned")' = {} /\ At("count_verdict")' = {}
        BY <3>2 DEF Answered, At
      <3> QED
        BY <3>1, <3>3, FS_EmptySet DEF VerdictsCounted, NoCounts, CounterNames
    <2> QED
      BY <1>5, <2>1, <2>2, SlotResetFrame
  <1>6. CASE UNCHANGED profVars
    <2>1. UNCHANGED <<clientVars, counters, told, mpc>>
      BY <1>6 DEF profVars, apiVars, queryVars, historyVars
    <2>2. CASE Resetting
      BY <2>1, <2>2 DEF VerdictsCounted, Resetting
    <2> QED
      BY <2>1, <2>2, MonitorVerdicts
  <1> QED
    BY <1>1, <1>2, <1>3, <1>4, <1>5, <1>6 DEF ProfilerNext, ProfilerStep, SlotReset

\* The counters are the answers the clients were given, with any number of
\* threads and any interleaving, as long as the counters of closes are not near
\* their largest value.
THEOREM VerdictsAlwaysCounted ==
    ASSUME IsFiniteSet(Threads)
    PROVE  ProfilerSpec /\ []FewCloses => []VerdictsCounted
  <1>1. ProfilerInit => VerdictsCounted
    <2>1. ASSUME ProfilerInit
          PROVE  Answered("drainable") = {} /\ Answered("pinned") = {} /\ At("count_verdict") = {}
      BY <2>1 DEF ProfilerInit, ClientInit, Answered, At
    <2> QED
      BY <2>1, FS_EmptySet DEF VerdictsCounted, ProfilerInit, ApiInit, CountersInit, CounterNames
  <1>2. ProfilerInv /\ VerdictsCounted /\ FewCloses /\ [ProfilerNext]_profVars => VerdictsCounted'
    BY VerdictsNext
  <1> QED
    BY <1>1, <1>2, ProfilerCorrect, PTL DEF ProfilerSpec

-----------------------------------------------------------------------------
(* The snapshots                                                           *)

LEMMA SnapshotNext ==
    ASSUME ProfilerInv, ProfilerInv', VerdictsCounted, VerdictsCounted', SnapshotInv,
           IsFiniteSet(Threads), [ProfilerNext]_profVars
    PROVE  SnapshotInv'
  <1>0. ApiInv /\ ApiInv'
    BY DEF ProfilerInv, ProfilerTypeOK, SlotTypeOK, ApiInv, Typed, PcIsFun
  <1>1. ASSUME NEW t \in Threads, ProfilerCall(t) PROVE SnapshotInv'
    BY <1>0, <1>1, ProfilerCallFrame, LabelSets, CallSnapshot
  <1>2. ASSUME NEW t \in Threads, ArrayStep(t) PROVE SnapshotInv'
    BY <1>0, <1>2, ArrayMove, StorageSnapshot
  <1>3. ASSUME NEW t \in Threads, CountStep(t) PROVE SnapshotInv'
    BY <1>0, <1>3, StepKinds, CountSnapshot, AnswerSnapshot DEF CountStep
  <1>4. CASE QueryStep
    <2>1. CASE BeginQuery
      BY <1>0, <2>1, BeginQuerySnapshot
    <2>2. CASE SnapshotLoad
      BY <1>0, <2>2, LoadSnapshot
    <2>3. CASE BeginReset \/ ResetCounter("reset_live") \/ SweepLoad \/ EndQuery \/ SweepOccupied \/ SweepLive
      <3>1. mpc' \notin {"snapshot", "snapshot_done"}
        BY <2>3 DEF BeginReset, ResetCounter, SweepLoad, LoadCounter, EndQuery, SweepOccupied,
                    SweepTest, SweepLive, SweepCount, NextSlot
      <3> QED
        BY <3>1 DEF SnapshotInv
    <2> QED
      BY <1>4, <2>1, <2>2, <2>3 DEF QueryStep, ApiMonitorStep
  <1>5. CASE SlotReset
    BY <1>5, SlotResetFrame DEF SnapshotInv, ResetLabels
  <1>6. CASE UNCHANGED profVars
    BY <1>6, OtherSnapshot DEF profVars, apiVars, queryVars, historyVars
  <1> QED
    BY <1>1, <1>2, <1>3, <1>4, <1>5, <1>6 DEF ProfilerNext, ProfilerStep, SlotReset

\* A snapshot is off by no more than the closes that overlapped it, with any
\* number of threads and any interleaving.
THEOREM SnapshotsDrift ==
    ASSUME IsFiniteSet(Threads)
    PROVE  ProfilerSpec /\ []FewCloses => []SnapshotDrift
  <1>1. ProfilerInit => SnapshotInv
    BY DEF ProfilerInit, ApiInit, SnapshotInv
  <1>2. /\ ProfilerInv /\ ProfilerInv' /\ VerdictsCounted /\ VerdictsCounted' /\ SnapshotInv
        /\ [ProfilerNext]_profVars
        => SnapshotInv'
    BY SnapshotNext
  <1>3. SnapshotInv => SnapshotDrift
    BY SnapshotAgrees
  <1>4. ProfilerSpec => []ProfilerInv
    BY ProfilerCorrect
  <1>5. ProfilerSpec /\ []FewCloses => []VerdictsCounted
    BY VerdictsAlwaysCounted
  <1> QED
    BY <1>1, <1>2, <1>3, <1>4, <1>5, PTL DEF ProfilerSpec

-----------------------------------------------------------------------------
(* The slots, when the ids are sound                                       *)

\* Labels at which a thread neither owns a slot nor counts in one.
Elsewhere(l) ==
    l \notin {"open_set_id", "open_set_live", "close_load", "close_clear_live",
              "close_clear_id", "close_release", "fetch_add", "fetch_sub"}

\* A thread that comes from elsewhere and goes elsewhere disturbs no slot.
LEMMA ElsewhereOwner ==
    ASSUME OwnerInv, RightSlot, UNCHANGED slotVars, NEW t \in Threads, Elsewhere(pc'[t]),
           \A u \in Threads \ {t} : pc'[u] = pc[u] /\ call'[u] = call[u] /\ probe'[u] = probe[u]
    PROVE  OwnerInv' /\ RightSlot'
  <1>1. \A u \in Threads \ {t} : Cur(u)' = Cur(u) /\ Owning(u)' = Owning(u)
    BY DEF Cur, SlotAt, Owning
  <1>2. ~Owning(t)' /\ pc'[t] \notin {"open_set_id", "close_release", "open_set_live", "fetch_add",
                                      "fetch_sub", "close_load", "close_clear_live", "close_clear_id"}
    BY DEF Elsewhere, Owning
  <1> QED
    BY <1>1, <1>2 DEF OwnerInv, RightSlot, slotVars

\* A step that changes neither a slot nor a call keeps what holds of both.
LEMMA SameSlots ==
    ASSUME UNCHANGED <<slotVars, clientVars, probe>>
    PROVE  /\ OwnerInv /\ RightSlot => OwnerInv' /\ RightSlot'
           /\ DistinctInv => DistinctInv'
  <1>1. OwnerInv /\ RightSlot => OwnerInv' /\ RightSlot'
    BY DEF OwnerInv, RightSlot, Owning, Cur, SlotAt, slotVars, clientVars
  <1>2. DistinctInv => DistinctInv'
    BY DEF DistinctInv, HeldInv, HomeInv, ExactInv, AtHome, Present, Vacant, Home, SlotAt,
           Living, Counted, Pending, Registering, Calling, Active, Unread, Owning,
           slotVars, clientVars, bookVars
  <1> QED
    BY <1>1, <1>2

\* The probe of a thread starts at 0.
IdleProbes == \A t \in Threads : pc[t] = "idle" => probe[t] = 0

LEMMA IdleProbesNext ==
    ASSUME ProfilerInv, IdleProbes, [ProfilerNext]_profVars
    PROVE  IdleProbes'
  <1>1. ASSUME NEW t \in Threads, ProfilerCall(t) PROVE IdleProbes'
    <2>1. /\ UNCHANGED probe /\ pc'[t] # "idle"
          /\ \A u \in Threads \ {t} : pc'[u] = pc[u]
      BY <1>1, ProfilerCallFrame
    <2> QED
      BY <2>1 DEF IdleProbes
  <1>2. ASSUME NEW t \in Threads, ArrayStep(t) PROVE IdleProbes'
    BY <1>2, ArrayMove DEF IdleProbes
  <1>3. ASSUME NEW t \in Threads, CountStep(t) PROVE IdleProbes'
    <2>1. /\ probe' = IF pc'[t] = "idle" THEN [probe EXCEPT ![t] = 0] ELSE probe
          /\ \A u \in Threads \ {t} : pc'[u] = pc[u]
      BY <1>3, StepKinds, InvParts, CountFrame, AnswerFrame DEF CountStep
    <2> QED
      BY <2>1, InvParts DEF IdleProbes, SlotTypeOK
  <1>4. CASE QueryStep \/ SlotReset \/ UNCHANGED profVars
    <2>1. UNCHANGED <<pc, probe>>
      BY <1>4, QueryApi, SlotResetFrame DEF clientVars, profVars, apiVars
    <2> QED
      BY <2>1 DEF IdleProbes
  <1> QED
    BY <1>1, <1>2, <1>3, <1>4 DEF ProfilerNext, ProfilerStep, SlotReset

\* A reset leaves the slots as they were at first.
LEMMA ResetDone ==
    ASSUME ProfilerInv, ProfilerInv', SlotReset, mpc' = "idle"
    PROVE  /\ OwnerInv' /\ RightSlot'
           /\ SoundIds /\ IdleProbes' => DistinctInv'
  <1>1. /\ occupied' = [s \in Slots |-> 0]
        /\ granule_id' = [s \in Slots |-> NoId]
        /\ phase' = [g \in Granules |-> "closed"]
        /\ held'  = [g \in Granules |-> 0]
        /\ \A t \in Threads : pc'[t] = "idle"
    BY SlotResetFrame, SlotResetClears DEF Active
  <1>2. OwnerInv' /\ RightSlot'
    BY <1>1 DEF OwnerInv, RightSlot, Owning
  <1>3. ASSUME SoundIds, IdleProbes' PROVE DistinctInv'
    <2>1. \A g \in Granules : Home(g) \in Slots /\ g # NoId
      BY <1>3, HomeInSlots DEF SoundIds
    <2>2. \A g \in Granules : Vacant(g)' /\ \A s \in Slots : granule_id'[s] # g
      BY <1>1, <2>1 DEF Vacant, Home, SlotAt
    <2>3. \A t \in Threads : AtHome(t)'
      BY <1>1, <1>3 DEF AtHome, Calling, Active, Unread, FindLabels, IdleProbes
    <2>4. HomeInv' /\ HeldInv'
      BY <1>1, <2>2, <2>3 DEF HomeInv, HeldInv
    <2>5. \A g \in Granules : Registering(g)' = {}
      BY <1>1 DEF Registering, Active
    <2>6. \A g \in Granules : held'[g] + Cardinality(Registering(g)') <= MaxLive
      BY <1>1, <2>5, FS_EmptySet, ClientAssumption
    <2>7. ExactInv'
      BY <1>1, <2>6 DEF ExactInv, Calling, Active
    <2> QED
      BY <2>4, <2>7 DEF DistinctInv
  <1> QED
    BY <1>2, <1>3

\* When a call is counted, and when it is answered, its thread is elsewhere.
LEMMA CountElsewhere ==
    ASSUME ProfilerInv, NEW t \in Threads, CountStep(t)
    PROVE  /\ UNCHANGED slotVars /\ Elsewhere(pc[t]) /\ Elsewhere(pc'[t])
           /\ \A u \in Threads \ {t} : pc'[u] = pc[u] /\ call'[u] = call[u] /\ probe'[u] = probe[u]
  <1>1. Count(t) \/ ApiReturn(t)
    BY StepKinds DEF CountStep
  <1>2. UNCHANGED slotVars /\ \A u \in Threads \ {t} : probe'[u] = probe[u]
    BY InvParts DEF CountStep, SlotTypeOK
  <1>3. CASE Count(t)
    BY <1>2, <1>3, InvParts, CountFrame DEF Elsewhere, Raising, Totalling
  <1>4. CASE ApiReturn(t)
    BY <1>2, <1>4, InvParts, AnswerFrame DEF Elsewhere
  <1> QED
    BY <1>1, <1>3, <1>4

LEMMA ArrayNext ==
    ASSUME ProfilerInv, ProfilerInv', ArrayInv, SoundIds, [ProfilerNext]_profVars
    PROVE  ArrayInv'
  <1>1. ASSUME NEW t \in Threads, ProfilerCall(t) PROVE ArrayInv'
    <2>1. /\ UNCHANGED <<slotVars, probe>> /\ Elsewhere(pc'[t]) /\ ~Resetting
          /\ \A u \in Threads \ {t} : pc'[u] = pc[u] /\ call'[u] = call[u]
      BY <1>1, ProfilerCallFrame DEF Elsewhere
    <2> QED
      BY <2>1, ElsewhereOwner DEF ArrayInv
  <1>2. ASSUME NEW t \in Threads, ArrayStep(t) PROVE ArrayInv'
    <2>1. SlotStep(t) /\ ~Resetting
      BY <1>2, ArrayMove, ActiveRuns DEF ProfilerInv
    <2> QED
      BY <2>1, InvParts, SlotStepOwner DEF ArrayInv
  <1>3. ASSUME NEW t \in Threads, CountStep(t) PROVE ArrayInv'
    <2>1. Active(t)
      BY <1>3, StepKinds, InvParts, CountFrame, AnswerFrame DEF CountStep
    <2>2. ~Resetting
      BY <2>1, ActiveRuns DEF ProfilerInv
    <2> QED
      BY <1>3, <2>2, CountElsewhere, ElsewhereOwner DEF ArrayInv
  <1>4. CASE QueryStep
    <2>1. UNCHANGED <<slotVars, clientVars, probe>> /\ (~Resetting' => ~Resetting)
      BY <1>4, QueryApi DEF Resetting
    <2> QED
      BY <2>1, SameSlots DEF ArrayInv
  <1>5. CASE SlotReset
    <2>1. mpc' = "idle" \/ Resetting'
      BY <1>5, SlotResetFrame DEF Resetting, ResetLabels
    <2> QED
      BY <1>5, <2>1, ResetDone DEF ArrayInv
  <1>6. CASE UNCHANGED profVars
    <2>1. UNCHANGED <<slotVars, clientVars, probe>> /\ Resetting' = Resetting
      BY <1>6 DEF profVars, apiVars, queryVars, Resetting
    <2> QED
      BY <2>1, SameSlots DEF ArrayInv
  <1> QED
    BY <1>1, <1>2, <1>3, <1>4, <1>5, <1>6 DEF ProfilerNext, ProfilerStep, SlotReset

\* Between resets a slot has one owner, and what find_slot found stays true until
\* it is used, although the calls are counted beside it and resets clear the array.
THEOREM ProfilerSlots ==
    ASSUME SoundIds PROVE ProfilerSpec => []ArrayInv
  <1>1. ProfilerInit => ArrayInv
    <2>1. ProfilerInit => Init
      BY DEF ProfilerInit, Init
    <2> QED
      BY <2>1, SlotInvInit DEF SlotInv, ArrayInv
  <1>2. ProfilerInv /\ ProfilerInv' /\ ArrayInv /\ [ProfilerNext]_profVars => ArrayInv'
    BY ArrayNext
  <1> QED
    BY <1>1, <1>2, ProfilerCorrect, PTL DEF ProfilerSpec

-----------------------------------------------------------------------------
(* The slots, when the ids hash to slots of their own                      *)

\* Counting a call moves its thread past nothing the slots have to know about.
LEMMA CountDistinct ==
    ASSUME Sound, CountingInv, DistinctInv, UNCHANGED <<slotVars, call, ret, bookVars, probe>>,
           NEW t \in Threads, Active(t),
           \A u \in Threads \ {t} : pc'[u] = pc[u],
           pc[t] \in {"count_alloc", "count_dealloc", "ret"} \cup Raising \cup Totalling,
           pc'[t] \in {"find_occupied", "peak_load", "peak_cas", "done"} \cup Totalling,
           pc[t] \in {"count_alloc", "count_dealloc"} <=> pc'[t] = "find_occupied",
           pc[t] = "ret" => call[t].fn \in {"open", "close"}
    PROVE  DistinctInv'
  <1>1. ClientTypeOK /\ call[t] \in Calls
    BY DEF Sound, SlotTypeOK, ClientTypeOK
  <1>2. /\ pc'[t] # "idle" /\ pc[t] # "idle" /\ pc'[t] # "ret" /\ pc'[t] # "open_id"
        /\ call[t].fn \in {"open", "close"} =>
              /\ pc[t] \notin FindLabels \cup OpenLabels /\ ~Owning(t)
              /\ pc'[t] \notin FindLabels \cup OpenLabels /\ ~Owning(t)'
              /\ ~Unread(t) /\ ~Unread(t)'
        /\ call[t].fn \in {"alloc", "dealloc"} =>
              pc[t] \in {"count_alloc", "count_dealloc"} /\ pc'[t] = "find_occupied"
    <2>1. call[t].fn \in {"open", "close"} =>
            /\ pc[t] \in {"ret"} \cup Raising \cup Totalling
            /\ pc'[t] \in {"peak_load", "peak_cas", "done"} \cup Totalling
      BY DEF CountingInv
    <2>2. call[t].fn \in {"alloc", "dealloc"} => pc[t] \in {"count_alloc", "count_dealloc"}
      BY DEF CountingInv, Raising, Totalling
    <2> QED
      BY <2>1, <2>2 DEF Active, FindLabels, OpenLabels, Owning, Unread, Raising, Totalling
  <1>3. \A u \in Threads : \A f : Calling(u, f)' <=> Calling(u, f)
    BY <1>2 DEF Calling, Active
  <1>4. \A g \in Granules :
          /\ Counted(g)' = Counted(g) /\ Pending(g)' = Pending(g) /\ Registering(g)' = Registering(g)
    <2>1. call[t].fn \in {"open", "close", "alloc", "dealloc"}
      BY <1>1 DEF Calls
    <2>2. \A g \in Granules : t \notin Counted(g) /\ t \notin Counted(g)'
      BY <1>2, <2>1 DEF Counted
    <2>3. \A g \in Granules : t \in Pending(g) <=> t \in Pending(g)'
      BY <1>2, <2>1 DEF Pending, Active
    <2>4. \A g \in Granules : Counted(g)' = Counted(g)
      BY <2>2 DEF Counted
    <2>5. \A g \in Granules : Pending(g)' = Pending(g)
      BY <2>3 DEF Pending, Active
    <2>6. \A g \in Granules : Registering(g)' = Registering(g)
      BY <1>2 DEF Registering, Active
    <2> QED
      BY <2>4, <2>5, <2>6
  <1>5. \A g \in Granules :
          (Present(g)' <=> Present(g)) /\ (Vacant(g)' <=> Vacant(g)) /\ Living(g)' = Living(g)
    BY <1>4 DEF Present, Vacant, Home, SlotAt, Living, slotVars, bookVars
  <1>6. \A u \in Threads : call[u].id \in Granules \/ ~Active(u)
    BY <1>1 DEF ClientTypeOK, Calls
  <1>7. AtHome(t)'
    <2>1. AtHome(t)
      BY DEF DistinctInv, HomeInv
    <2>2. call[t].id \in Granules
      BY <1>1 DEF Calls
    <2>3. Calling(t, "open") => pc'[t] \notin OpenLabels /\ pc[t] \notin OpenLabels
      BY <1>2 DEF Calling
    <2>4. Calling(t, "close") => ~Unread(t)' /\ pc[t] \notin FindLabels /\ ~Owning(t)
      BY <1>2 DEF Calling
    <2>5. Calling(t, "dealloc") => pc'[t] = "find_occupied"
      BY <1>2 DEF Calling
    <2>6. Calling(t, "open")' =>
            /\ pc'[t] \in {"open_occupied", "open_cas"} => Vacant(call[t].id)'
            /\ pc'[t] \notin OpenLabels => Present(call[t].id)' /\ ret'[t] = 0
      BY <1>3, <1>5, <2>1, <2>2, <2>3 DEF AtHome, OpenLabels
    <2>7. Calling(t, "close")' =>
            /\ Unread(t)' => Present(call[t].id)'
            /\ pc'[t] \notin FindLabels /\ ~Owning(t)' => Vacant(call[t].id)'
      BY <1>3, <1>5, <2>1, <2>2, <2>4 DEF AtHome
    <2> QED
      BY <1>2, <1>3, <2>1, <2>5, <2>6, <2>7 DEF AtHome
  <1>8. \A u \in Threads \ {t} : AtHome(u)'
    <2> SUFFICES ASSUME NEW u \in Threads \ {t} PROVE AtHome(u)'
      OBVIOUS
    <2>1. AtHome(u)
      BY DEF DistinctInv, HomeInv
    <2>2. (Unread(u)' <=> Unread(u)) /\ (Owning(u)' <=> Owning(u))
      BY DEF Unread, Owning
    <2>3. \A f : Calling(u, f) => call[u].id \in Granules
      BY <1>6 DEF Calling
    <2> QED
      BY <1>3, <1>5, <2>1, <2>2, <2>3 DEF AtHome, bookVars
  <1>9. HomeInv'
    BY <1>5, <1>7, <1>8 DEF DistinctInv, HomeInv, bookVars, slotVars, Home, SlotAt
  <1>10. ExactInv'
    <2>1. ExactInv
      BY DEF DistinctInv
    <2>2. \A g \in Granules : /\ phase'[g] = "open" => live_count'[Home(g)] = Living(g)'
                              /\ held'[g] + Cardinality(Registering(g)') <= MaxLive
      BY <1>4, <1>5, <2>1 DEF ExactInv, bookVars, slotVars
    <2>3. \A u \in Threads :
            /\ Calling(u, "open")' /\ pc'[u] \notin OpenLabels => live_count'[Home(call'[u].id)] = 0
            /\ Calling(u, "close")' =>
                 held'[call'[u].id] = IF Unread(u)' THEN live_count'[Home(call'[u].id)] ELSE ret'[u]
      <3>1. \A u \in Threads : Calling(u, "open") => (pc'[u] \notin OpenLabels <=> pc[u] \notin OpenLabels)
        BY <1>2 DEF Calling
      <3>2. \A u \in Threads : Calling(u, "close") => (Unread(u)' <=> Unread(u))
        BY <1>2 DEF Calling, Unread
      <3> QED
        BY <1>3, <2>1, <3>1, <3>2 DEF ExactInv, bookVars, slotVars
    <2>4. \A g \in Granules : Home(g)' = Home(g)
      BY DEF Home, SlotAt
    <2> QED
      BY <2>2, <2>3 DEF ExactInv, Home, SlotAt
  <1> QED
    BY <1>9, <1>10 DEF DistinctInv, HeldInv, bookVars

\* Between resets every granule is in the slot its id hashes to, counted exactly.
LEMMA HomesNext ==
    ASSUME ProfilerInv, ProfilerInv', ArrayInv, IdleProbes', HomesInv,
           SoundIds, HomesDistinct, WideCounts, [ProfilerNext]_profVars
    PROVE  HomesInv'
  <1>0. ~Resetting => Sound /\ DistinctInv
    BY InvParts DEF Sound, ArrayInv, HomesInv
  <1>1. ASSUME NEW t \in Threads, ProfilerCall(t) PROVE HomesInv'
    <2>1. PICK g \in Granules :
             /\ UNCHANGED <<slotVars, probe>>
             /\ pc'[t] \in {"open_occupied", "find_occupied", "count_alloc", "count_dealloc"}
             /\ call'[t].fn = "open"  => pc'[t] = "open_occupied"
             /\ call'[t].fn = "close" => pc'[t] = "find_occupied"
             /\ \E f \in {"find_occupied", "count_alloc", "count_dealloc"} :
                   ClientCall(t, g, "open_occupied", f)
             /\ ~Resetting
      BY <1>1, ProfilerCallFrame
    <2>2. PICK f \in {"find_occupied", "count_alloc", "count_dealloc"} :
             ClientCall(t, g, "open_occupied", f)
      BY <2>1
    <2>3. DistinctInv'
      BY <1>0, <2>1, <2>2, CallDistinct DEF WideCounts
    <2> QED
      BY <2>3 DEF HomesInv
  <1>2. ASSUME NEW t \in Threads, ArrayStep(t) PROVE HomesInv'
    <2>1. SlotStep(t) /\ ~Resetting
      BY <1>2, ArrayMove, ActiveRuns DEF ProfilerInv
    <2> QED
      BY <1>0, <2>1, SlotStepDistinct DEF HomesInv
  <1>3. ASSUME NEW t \in Threads, CountStep(t) PROVE HomesInv'
    <2>1. Active(t)
      BY <1>3, StepKinds, InvParts, CountFrame, AnswerFrame DEF CountStep
    <2>2. ~Resetting /\ UNCHANGED slotVars
      BY <1>3, <2>1, ActiveRuns DEF ProfilerInv, CountStep
    <2>3. CASE Count(t)
      <3>1. /\ pc[t] \in {"count_alloc", "count_dealloc", "ret"} \cup Raising \cup Totalling
            /\ pc'[t] \in {"find_occupied", "peak_load", "peak_cas", "done"} \cup Totalling
            /\ pc[t] \in {"count_alloc", "count_dealloc"} <=> pc'[t] = "find_occupied"
            /\ pc[t] = "ret" => call[t].fn \in {"open", "close"}
            /\ \A u \in Threads \ {t} : pc'[u] = pc[u]
            /\ UNCHANGED <<call, ret, bookVars>>
        BY <2>3, InvParts, CountFrame
      <3>2. UNCHANGED probe
        BY <1>3, <3>1 DEF CountStep, Totalling
      <3>3. DistinctInv'
        BY <1>0, <2>1, <2>2, <3>1, <3>2, InvParts, CountDistinct
      <3> QED
        BY <3>3 DEF HomesInv
    <2>4. CASE ApiReturn(t)
      <3>1. /\ pc[t] \in {"done", "ret"} /\ ClientReturn(t) /\ pc'[t] = "idle"
            /\ pc[t] = "done" => call[t].fn \in {"open", "close"}
        BY <2>4, InvParts, AnswerFrame
      <3>2. probe' = [probe EXCEPT ![t] = 0]
        BY <1>3, <3>1 DEF CountStep
      <3>3. /\ pc[t] \notin FindLabels \cup OpenLabels /\ ~Owning(t)
            /\ call[t].fn \in {"alloc", "dealloc"} => pc[t] = "ret"
        BY <3>1 DEF FindLabels, OpenLabels, Owning
      <3>4. PICK g : g = call[t].id
        OBVIOUS
      <3>5. DistinctInv'
        BY <1>0, <2>1, <2>2, <3>1, <3>2, <3>3, <3>4, ReturnDistinct DEF WideCounts
      <3> QED
        BY <3>5 DEF HomesInv
    <2> QED
      BY <1>3, <2>3, <2>4, StepKinds DEF CountStep
  <1>4. CASE QueryStep
    <2>1. UNCHANGED <<slotVars, clientVars, probe>> /\ (~Resetting' => ~Resetting)
      BY <1>4, QueryApi DEF Resetting
    <2> QED
      BY <2>1, SameSlots DEF HomesInv
  <1>5. CASE SlotReset
    <2>1. mpc' = "idle" \/ Resetting'
      BY <1>5, SlotResetFrame DEF Resetting, ResetLabels
    <2> QED
      BY <1>5, <2>1, ResetDone DEF HomesInv
  <1>6. CASE UNCHANGED profVars
    <2>1. UNCHANGED <<slotVars, clientVars, probe>> /\ Resetting' = Resetting
      BY <1>6 DEF profVars, apiVars, queryVars, Resetting
    <2> QED
      BY <2>1, SameSlots DEF HomesInv
  <1> QED
    BY <1>1, <1>2, <1>3, <1>4, <1>5, <1>6 DEF ProfilerNext, ProfilerStep, SlotReset

\* What a close that is about to answer has read.
LEMMA HomesAnswer == ASSUME ProfilerInv, HomesInv PROVE DrainableExact
  <1> SUFFICES ASSUME NEW t \in At("done"), call[t].fn = "close"
               PROVE  Drainable(t) <=> held[call[t].id] = 0
    BY DEF DrainableExact
  <1>1. pc[t] = "done" /\ t \in Threads
    BY DEF At
  <1>2. Calling(t, "close") /\ ~Unread(t)
    BY <1>1 DEF Calling, Active, Unread, FindLabels
  <1>3. ~Resetting
    BY <1>1, <1>2, ActiveRuns DEF ProfilerInv, Calling
  <1> QED
    BY <1>1, <1>2, <1>3 DEF HomesInv, DistinctInv, ExactInv, Drainable

\* With ids that hash to slots of their own, the slots are exact between resets,
THEOREM ProfilerHomes ==
    ASSUME SoundIds, HomesDistinct, WideCounts PROVE ProfilerSpec => []HomesInv
  <1>1. ProfilerInit => IdleProbes /\ HomesInv
    <2>1. ASSUME ProfilerInit PROVE IdleProbes /\ DistinctInv
      BY <2>1, DistinctInit DEF ProfilerInit, Init, SlotInit, IdleProbes
    <2> QED
      BY <2>1 DEF HomesInv
  <1>2. ProfilerInv /\ IdleProbes /\ [ProfilerNext]_profVars => IdleProbes'
    BY IdleProbesNext
  <1>3. /\ ProfilerInv /\ ProfilerInv' /\ ArrayInv /\ IdleProbes' /\ HomesInv /\ [ProfilerNext]_profVars
        => HomesInv'
    BY HomesNext
  <1>4. ProfilerSpec => []ProfilerInv /\ []ArrayInv
    BY ProfilerCorrect, ProfilerSlots, PTL
  <1> QED
    BY <1>1, <1>2, <1>3, <1>4, PTL DEF ProfilerSpec

\* and a close answers 1 if and only if its granule held no allocation.
THEOREM AnswersExact ==
    ASSUME SoundIds, HomesDistinct, WideCounts PROVE ProfilerSpec => []DrainableExact
  <1>1. ProfilerInv /\ HomesInv => DrainableExact
    BY HomesAnswer
  <1> QED
    BY <1>1, ProfilerCorrect, ProfilerHomes, PTL

-----------------------------------------------------------------------------
(* open_granules                                                           *)

Taken == {s \in Slots : occupied[s] = 1}

\* A step of thread t moves no other thread in or out.
LEMMA OneClaims ==
    ASSUME IsFiniteSet(Threads), NEW t \in Threads,
           \A u \in Threads \ {t} : pc'[u] = pc[u] /\ call'[u] = call[u] /\ ret'[u] = ret[u]
    PROVE  /\ Cardinality(Claimed) \in Nat /\ Cardinality(Claimed') \in Nat
           /\ t \in Claimed <=> t \in Claimed' => Cardinality(Claimed') = Cardinality(Claimed)
           /\ t \in Claimed' /\ t \notin Claimed => Cardinality(Claimed') = Cardinality(Claimed) + 1
           /\ t \in Claimed /\ t \notin Claimed' => Cardinality(Claimed') = Cardinality(Claimed) - 1
           /\ Cardinality(Released) \in Nat /\ Cardinality(Released') \in Nat
           /\ t \in Released <=> t \in Released' => Cardinality(Released') = Cardinality(Released)
           /\ t \in Released' /\ t \notin Released => Cardinality(Released') = Cardinality(Released) + 1
           /\ t \in Released /\ t \notin Released' => Cardinality(Released') = Cardinality(Released) - 1
  <1>1. Claimed \subseteq Threads /\ Claimed' \subseteq Threads /\ Claimed \ {t} = Claimed' \ {t}
    BY DEF Claimed
  <1>2. Released \subseteq Threads /\ Released' \subseteq Threads /\ Released \ {t} = Released' \ {t}
    BY DEF Released, Closed
  <1>3. IsFiniteSet(Claimed) /\ IsFiniteSet(Claimed')
    BY <1>1, FS_Subset
  <1>4. IsFiniteSet(Released) /\ IsFiniteSet(Released')
    BY <1>2, FS_Subset
  <1> QED
    BY <1>1, <1>2, <1>3, <1>4, MovedOne

\* The slots are finitely many.
LEMMA TakenFinite ==
    IsFiniteSet(Taken) /\ Cardinality(Taken) \in 0 .. Capacity
  <1>1. Capacity \in Nat \ {0}
    BY ClientAssumption
  <1>2. IsFiniteSet(Slots) /\ Cardinality(Slots) = Capacity
    BY <1>1, FS_Interval DEF Slots
  <1>3. Taken \subseteq Slots
    BY DEF Taken
  <1>4. IsFiniteSet(Taken) /\ Cardinality(Taken) <= Cardinality(Slots)
    BY <1>2, <1>3, FS_Subset
  <1> QED
    BY <1>1, <1>2, <1>4, FS_CardinalityType

\* Every open that has claimed a slot has one of its own.
LEMMA ClaimsTake ==
    ASSUME ProfilerInv, OwnerInv, DistinctInv, SoundIds, HomesDistinct
    PROVE  Cardinality(Claimed) <= Cardinality(Taken)
  <1> DEFINE f == [t \in Claimed |-> Home(call[t].id)]
  <1>1. ASSUME NEW t \in Claimed
        PROVE  t \in Threads /\ Calling(t, "open") /\ call[t].id \in Granules /\ f[t] \in Taken
    <2>1. t \in Threads /\ Calling(t, "open")
      BY InvParts DEF Claimed, Calling, Active, LabelInv
    <2>2. call[t].id \in Granules
      BY <2>1, InvParts DEF ClientTypeOK, Calling, Calls
    <2>3. occupied[Home(call[t].id)] = 1
      <3>1. CASE pc[t] \in {"open_set_id", "open_set_live"}
        <4>1. probe[t] = 0
          BY <2>1 DEF DistinctInv, HomeInv, AtHome
        <4>2. Cur(t) = Home(call[t].id)
          BY <4>1 DEF Cur, Home
        <4> QED
          BY <2>1, <3>1, <4>2 DEF OwnerInv
      <3>2. CASE pc[t] = "ret"
        BY <2>1, <3>2 DEF DistinctInv, HomeInv, AtHome, OpenLabels, Present
      <3> QED
        BY <3>1, <3>2 DEF Claimed
    <2> QED
      BY <2>1, <2>2, <2>3, HomeInSlots DEF Taken
  <1>2. \A t, u \in Claimed : f[t] = f[u] => t = u
    <2> SUFFICES ASSUME NEW t \in Claimed, NEW u \in Claimed, f[t] = f[u] PROVE t = u
      OBVIOUS
    <2>1. call[t].id = call[u].id
      BY <1>1 DEF HomesDistinct
    <2> QED
      BY <1>1, <2>1, InvParts, OpenCloseAlone DEF Calling
  <1>3. f \in Injection(Claimed, Taken)
    BY <1>1, <1>2 DEF Injection, IsInjective
  <1> QED
    BY <1>3, TakenFinite, FS_Injection

\* A step of the array takes a slot for an open, gives one back for a close, or
\* changes neither the slots taken nor who has taken and given back.
LEMMA SlotStepTakes ==
    ASSUME ProfilerInv, OwnerInv, DistinctInv, SoundIds, WideCounts, NEW t \in Threads, SlotStep(t)
    PROVE  \/ /\ Taken' = Taken
              /\ t \in Claimed' <=> t \in Claimed
              /\ t \in Released' <=> t \in Released
           \/ /\ \E s \in Slots \ Taken : Taken' = Taken \cup {s}
              /\ t \in Claimed' /\ t \notin Claimed
              /\ t \in Released' <=> t \in Released
           \/ /\ \E s \in Taken : Taken' = Taken \ {s}
              /\ t \in Released' /\ t \notin Released
              /\ t \in Claimed' <=> t \in Claimed
  <1>0. /\ SlotTypeOK /\ PcIsFun /\ LabelInv /\ LabelInv' /\ ClientTypeOK /\ call' = call
        /\ ret \in [Threads -> Int] /\ pc = [u \in Threads |-> pc[u]] /\ Cur(t) \in Slots
        /\ occupied \in [Slots -> {0, 1}]
    <2>1. LabelInv' /\ call' = call
      BY InvParts, SlotStepFrame
    <2>2. Cur(t) \in Slots
      <3>1. Active(t)
        BY InvParts, SlotStepFrame
      <3>2. call[t].id \in Granules
        BY <3>1, InvParts DEF ClientTypeOK, Calls
      <3> QED
        BY <3>2, InvParts, SlotAtInSlots DEF Cur, SlotTypeOK, Slots
    <2> QED
      BY <2>1, <2>2, InvParts DEF SlotTypeOK, ClientTypeOK, PcIsFun
  <1>1. pc[t] # "open_id" /\ (pc[t] = "open_cas" => occupied[Cur(t)] = 0)
    <2>1. AtHome(t)
      BY DEF DistinctInv, HomeInv
    <2>2. Cur(t) = Home(call[t].id)
      BY <2>1 DEF AtHome, Cur, Home
    <2>3. pc[t] = "open_cas" => Calling(t, "open")
      BY InvParts DEF LabelInv, Calling, Active
    <2> QED
      BY <2>1, <2>2, <2>3 DEF AtHome, Vacant
  <1> USE DEF Goto, Answer
  <1>2. CASE OpenClaim(t)
    <2>1. /\ pc[t] = "open_cas" /\ pc'[t] = "open_set_id"
          /\ occupied' = [occupied EXCEPT ![Cur(t)] = 1]
      BY <1>0, <1>1, <1>2 DEF OpenClaim
    <2>2. Cur(t) \in Slots \ Taken /\ Taken' = Taken \cup {Cur(t)}
      BY <1>0, <1>1, <2>1 DEF Taken
    <2>3. t \in Claimed' /\ t \notin Claimed /\ t \notin Released /\ t \notin Released'
      BY <2>1 DEF Claimed, Released, Closed
    <2> QED
      BY <2>2, <2>3
  <1>3. CASE CloseRelease(t)
    <2>1. /\ pc[t] = "close_release" /\ pc'[t] = "ret" /\ ret' = ret
          /\ occupied' = [occupied EXCEPT ![Cur(t)] = 0]
      BY <1>0, <1>3 DEF CloseRelease
    <2>2. Cur(t) \in Taken /\ Taken' = Taken \ {Cur(t)}
      BY <1>0, <2>1 DEF Taken, OwnerInv
    <2>3. call[t].fn = "close" /\ call[t].id \in Granules
      BY <1>0, <2>1 DEF LabelInv, ClientTypeOK, Active, Calls
    <2>4. ret[t] # CloseError
      <3>1. held[call[t].id] = ret[t]
        BY <2>1, <2>3 DEF DistinctInv, ExactInv, Calling, Active, Unread, FindLabels
      <3>2. IsFiniteSet(Registering(call[t].id))
        BY FS_Subset DEF Registering, WideCounts
      <3>3. Cardinality(Registering(call[t].id)) \in Nat /\ Cardinality(Threads) \in Nat
        BY <3>2, FS_CardinalityType DEF WideCounts
      <3>4. Cardinality(Threads) # 0
        BY FS_EmptySet DEF WideCounts
      <3>5. held[call[t].id] + Cardinality(Registering(call[t].id)) <= MaxLive
        BY <2>3 DEF DistinctInv, ExactInv
      <3> QED
        BY <1>0, <2>3, <3>1, <3>3, <3>4, <3>5, ProductionAssumption, ClientAssumption,
           SlotArrayAssumption DEF WideCounts, NotFound, ClientTypeOK
    <2>5. t \notin Claimed /\ t \notin Claimed' /\ t \notin Released /\ t \in Released'
      BY <1>0, <2>1, <2>3, <2>4 DEF Claimed, Released, Closed
    <2> QED
      BY <2>2, <2>5
  <1>4. CASE ~OpenClaim(t) /\ ~CloseRelease(t)
    <2>1. occupied' = occupied
      BY <1>4 DEF SlotStep, FindLoadOccupied, FindLoadId, OpenLoadOccupied, OpenLoadId, OpenStoreId,
         OpenStoreLive, CloseLoadLive, CloseClearLive, CloseClearId, AllocFetchAdd, DeallocFetchSub,
         slotVars
    <2>2. t \notin Released /\ (t \in Claimed <=> pc[t] \in {"open_set_id", "open_set_live"})
      BY SlotStepRuns DEF Claimed, Released, Closed, FindLabels, OpenLabels
    <2>3. CASE OpenStoreId(t) \/ OpenStoreLive(t)
      <3>1. /\ pc[t] \in {"open_set_id", "open_set_live"} /\ call[t].fn = "open"
            /\ pc'[t] = "open_set_live" \/ (pc'[t] = "ret" /\ ret'[t] = 0)
        <4>1. CASE OpenStoreId(t)
          BY <1>0, <4>1 DEF OpenStoreId, LabelInv
        <4>2. CASE OpenStoreLive(t)
          BY <1>0, <4>2 DEF OpenStoreLive, LabelInv
        <4> QED
          BY <2>3, <4>1, <4>2
      <3> QED
        BY <1>0, <2>1, <2>2, <3>1 DEF Taken, Claimed, Released, Closed
    <2>4. CASE FindLoadOccupied(t) \/ FindLoadId(t)
      <3>1. call[t].fn \in {"close", "alloc", "dealloc"} /\ pc[t] \in {"find_occupied", "find_id"}
        BY <1>0, <2>4 DEF FindLoadOccupied, FindLoadId, LabelInv
      <3>2. /\ pc'[t] \notin {"open_set_id", "open_set_live"}
            /\ pc'[t] = "ret" => ret'[t] = Error(call[t].fn)
        <4>1. CASE FindLoadOccupied(t)
          BY <1>0, <4>1 DEF FindLoadOccupied
        <4>2. CASE FindLoadId(t)
          <5>1. AfterFind(call[t].fn) = IF call[t].fn = "close" THEN "close_load"
                                        ELSE IF call[t].fn = "alloc" THEN "fetch_add"
                                        ELSE "fetch_sub"
            BY <3>1 DEF AfterFind
          <5> QED
            BY <1>0, <4>2, <5>1 DEF FindLoadId, NextProbe
        <4> QED
          BY <2>4, <4>1, <4>2
      <3>3. call[t].fn = "close" /\ pc'[t] = "ret" => ret'[t] = CloseError
        BY <3>2, ProductionAssumption DEF Error
      <3> QED
        BY <1>0, <2>1, <2>2, <3>1, <3>2, <3>3 DEF Taken, Claimed, Released, Closed
    <2>5. CASE OpenLoadOccupied(t)
      <3>1. pc[t] = "open_occupied" /\ pc'[t] \in {"open_cas", "open_id"}
        BY <1>0, <2>5 DEF OpenLoadOccupied
      <3> QED
        BY <2>1, <2>2, <3>1 DEF Taken, Claimed, Released, Closed
    <2>6. CASE OpenLoadId(t)
      BY <1>1, <2>6 DEF OpenLoadId
    <2>7. CASE CloseLoadLive(t) \/ CloseClearLive(t) \/ CloseClearId(t)
      <3>1. /\ pc[t] \in {"close_load", "close_clear_live", "close_clear_id"}
            /\ pc'[t] \in {"close_clear_live", "close_clear_id", "close_release"}
        BY <1>0, <2>7 DEF CloseLoadLive, CloseClearLive, CloseClearId
      <3> QED
        BY <2>1, <2>2, <3>1 DEF Taken, Claimed, Released, Closed
    <2>8. CASE AllocFetchAdd(t) \/ DeallocFetchSub(t)
      <3>1. /\ pc[t] \in {"fetch_add", "fetch_sub"} /\ call[t].fn \in {"alloc", "dealloc"}
            /\ pc'[t] = "ret"
        BY <1>0, <2>8 DEF AllocFetchAdd, DeallocFetchSub, LabelInv
      <3> QED
        BY <1>0, <2>1, <2>2, <3>1 DEF Taken, Claimed, Released, Closed
    <2> QED
      BY <1>4, <2>3, <2>4, <2>5, <2>6, <2>7, <2>8 DEF SlotStep
  <1> QED
    BY <1>2, <1>3, <1>4

\* Counting an open or a close gives up one claim or one release for one in
\* open_granules.
LEMMA CountClaims ==
    ASSUME ProfilerInv, NEW t \in Threads, Count(t)
    PROVE  LET n == counters["open_granules"]
               m == counters'["open_granules"]
           IN  \/ /\ t \in Claimed /\ t \notin Claimed' /\ m = (n + 1) % CounterMod
                  /\ t \in Released' <=> t \in Released
               \/ /\ t \in Released /\ t \notin Released' /\ m = (n + (-1)) % CounterMod
                  /\ t \in Claimed' <=> t \in Claimed
               \/ /\ t \in Claimed' <=> t \in Claimed
                  /\ t \in Released' <=> t \in Released
                  /\ m = n
  <1>0. /\ Typed /\ CountingInv /\ counters \in [CounterNames -> 0 .. CounterMod - 1]
        /\ pc = [u \in Threads |-> pc[u]] /\ "open_granules" \in CounterNames
        /\ call[t].fn \in {"open", "close"} => call[t].fn # "alloc" /\ call[t].fn # "dealloc"
    BY InvParts DEF ApiInv, Typed, ApiTypeOK, PcIsFun, CounterNames
  <1>1. /\ pc'[t] \in {"find_occupied", "peak_load", "peak_cas", "done"} \cup Totalling
        /\ UNCHANGED <<call, ret>>
    BY InvParts, CountFrame
  <1>2. t \notin Claimed' /\ t \notin Released'
    BY <1>1 DEF Claimed, Released, Closed, Totalling
  <1>3. CASE CountOpen(t)
    <2>1. t \in Claimed /\ t \notin Released
      BY <1>3 DEF CountOpen, Claimed, Released, Closed
    <2>2. counters' = [counters EXCEPT !["open_granules"] = (@ + 1) % CounterMod]
      BY <1>3 DEF CountOpen, FetchAdd
    <2> QED
      BY <1>0, <1>2, <2>1, <2>2
  <1>4. CASE CountClose(t)
    <2>1. t \in Released /\ t \notin Claimed
      BY <1>4 DEF CountClose, Claimed, Released, Closed
    <2>2. counters' = [counters EXCEPT !["open_granules"] = (@ + (-1)) % CounterMod]
      BY <1>4 DEF CountClose, FetchAdd
    <2> QED
      BY <1>0, <1>2, <2>1, <2>2
  <1>5. CASE CountCall(t) \/ PeakLoad(t) \/ PeakSwap(t) \/ CountTotal(t) \/ CountVerdict(t)
    <2>1. pc[t] \in {"count_alloc", "count_dealloc", "peak_load", "peak_cas", "count_total",
                     "count_verdict"}
      BY <1>5 DEF CountCall, PeakLoad, PeakSwap, CountTotal, CountVerdict
    <2>2. t \notin Claimed /\ t \notin Released
      BY <2>1 DEF Claimed, Released, Closed
    <2>3. counters'["open_granules"] = counters["open_granules"]
      <3>1. CASE CountCall(t)
        BY <1>0, <3>1 DEF CountCall, FetchAdd
      <3>2. CASE PeakLoad(t)
        BY <3>2 DEF PeakLoad
      <3>3. CASE PeakSwap(t)
        BY <1>0, <3>3 DEF PeakSwap, Store
      <3>4. CASE CountTotal(t)
        BY <1>0, <3>4 DEF CountTotal, FetchAdd
      <3>5. CASE CountVerdict(t)
        BY <1>0, <3>5 DEF CountVerdict, FetchAdd
      <3> QED
        BY <1>5, <3>1, <3>2, <3>3, <3>4, <3>5
    <2> QED
      BY <1>2, <2>2, <2>3
  <1> QED
    BY <1>3, <1>4, <1>5 DEF Count

\* open_granules neither wraps nor underflows.
LEMMA OpenNext ==
    ASSUME ProfilerInv, ProfilerInv', ArrayInv, HomesInv, OpenMatchesSlots,
           SoundIds, HomesDistinct, WideCounts, WideCounters, [ProfilerNext]_profVars
    PROVE  OpenMatchesSlots'
  <1> USE DEF WideCounts, WideCounters
  <1>0. /\ counters["open_granules"] \in 0 .. CounterMod - 1
        /\ counters'["open_granules"] \in 0 .. CounterMod - 1
        /\ Capacity \in Nat /\ CounterMod \in Nat /\ Cardinality(Threads) \in Nat
    BY InvParts, ClientAssumption, CountersAssumption, FS_CardinalityType
    DEF ProfilerInv, ProfilerTypeOK, ApiTypeOK, CounterNames
  <1>1. ~Resetting => /\ OwnerInv /\ DistinctInv
                      /\ counters["open_granules"] =
                            Cardinality(Taken) - Cardinality(Claimed) + Cardinality(Released)
    BY DEF ArrayInv, HomesInv, OpenMatchesSlots, Taken
  <1>2. counters'["open_granules"] =
            Cardinality(Taken') - Cardinality(Claimed') + Cardinality(Released')
        => OpenMatchesSlots'
    BY DEF OpenMatchesSlots, Taken
  <1>3. ASSUME NEW t \in Threads, ProfilerCall(t) PROVE OpenMatchesSlots'
    <2>1. /\ UNCHANGED <<slotVars, probe, ret, counters>> /\ pc[t] = "idle" /\ ~Resetting
          /\ pc'[t] \in {"open_occupied", "find_occupied", "count_alloc", "count_dealloc"}
          /\ \A u \in Threads \ {t} : pc'[u] = pc[u] /\ call'[u] = call[u]
      BY <1>3, ProfilerCallFrame
    <2>2. Claimed' = Claimed /\ Released' = Released /\ Taken' = Taken
      BY <2>1 DEF Claimed, Released, Closed, Taken, slotVars
    <2> QED
      BY <1>1, <1>2, <2>1, <2>2
  <1>4. ASSUME NEW t \in Threads, ArrayStep(t) PROVE OpenMatchesSlots'
    <2>1. /\ SlotStep(t) /\ ~Resetting /\ UNCHANGED <<call, counters>>
          /\ \A u \in Threads \ {t} : pc'[u] = pc[u] /\ ret'[u] = ret[u]
      BY <1>4, ArrayMove, ActiveRuns DEF ProfilerInv, StorageOnly
    <2>2. /\ Cardinality(Claimed) \in Nat /\ Cardinality(Claimed') \in Nat
          /\ t \in Claimed <=> t \in Claimed' => Cardinality(Claimed') = Cardinality(Claimed)
          /\ t \in Claimed' /\ t \notin Claimed => Cardinality(Claimed') = Cardinality(Claimed) + 1
          /\ Cardinality(Released) \in Nat /\ Cardinality(Released') \in Nat
          /\ t \in Released <=> t \in Released' => Cardinality(Released') = Cardinality(Released)
          /\ t \in Released' /\ t \notin Released => Cardinality(Released') = Cardinality(Released) + 1
      BY <2>1, OneClaims
    <2>3. IsFiniteSet(Taken) /\ Cardinality(Taken) \in Nat
      BY <1>0, TakenFinite
    <2>4. \A s \in Slots \ Taken : Cardinality(Taken \cup {s}) = Cardinality(Taken) + 1
      BY <2>3, FS_AddElement
    <2>5. \A s \in Taken : Cardinality(Taken \ {s}) = Cardinality(Taken) - 1
      BY <2>3, FS_RemoveElement
    <2>6. \/ /\ Taken' = Taken
             /\ t \in Claimed' <=> t \in Claimed
             /\ t \in Released' <=> t \in Released
          \/ /\ \E s \in Slots \ Taken : Taken' = Taken \cup {s}
             /\ t \in Claimed' /\ t \notin Claimed
             /\ t \in Released' <=> t \in Released
          \/ /\ \E s \in Taken : Taken' = Taken \ {s}
             /\ t \in Released' /\ t \notin Released
             /\ t \in Claimed' <=> t \in Claimed
      BY <1>1, <2>1, SlotStepTakes
    <2> QED
      BY <1>1, <1>2, <2>1, <2>2, <2>3, <2>4, <2>5, <2>6
  <1>5. ASSUME NEW t \in Threads, CountStep(t) PROVE OpenMatchesSlots'
    <2>1. Active(t)
      BY <1>5, StepKinds, InvParts, CountFrame, AnswerFrame DEF CountStep
    <2>2. ~Resetting /\ UNCHANGED slotVars /\ Taken' = Taken
      BY <1>5, <2>1, ActiveRuns DEF ProfilerInv, CountStep, Taken, slotVars
    <2>3. \A u \in Threads \ {t} : pc'[u] = pc[u] /\ call'[u] = call[u] /\ ret'[u] = ret[u]
      BY <1>5, StepKinds, InvParts, CountFrame, AnswerFrame DEF CountStep
    <2>4. /\ Cardinality(Claimed) \in Nat /\ Cardinality(Claimed') \in Nat
          /\ t \in Claimed <=> t \in Claimed' => Cardinality(Claimed') = Cardinality(Claimed)
          /\ t \in Claimed /\ t \notin Claimed' => Cardinality(Claimed') = Cardinality(Claimed) - 1
          /\ Cardinality(Released) \in Nat /\ Cardinality(Released') \in Nat
          /\ t \in Released <=> t \in Released' => Cardinality(Released') = Cardinality(Released)
          /\ t \in Released /\ t \notin Released' => Cardinality(Released') = Cardinality(Released) - 1
      BY <2>3, OneClaims
    <2>5. Cardinality(Taken) \in 0 .. Capacity /\ Cardinality(Claimed) <= Cardinality(Taken)
      BY <1>1, <2>2, TakenFinite, ClaimsTake
    <2>6. Cardinality(Released) <= Cardinality(Threads)
      BY FS_Subset DEF Released
    <2>7. CASE Count(t)
      <3> DEFINE n == counters["open_granules"]
      <3>1. n = Cardinality(Taken) - Cardinality(Claimed) + Cardinality(Released)
        BY <1>1, <2>2
      <3>2. /\ n + 1 < CounterMod => (n + 1) % CounterMod = n + 1
            /\ n > 0 => (n + (-1)) % CounterMod = n - 1
        BY <1>0, CountsOne
      <3>3. CASE t \in Claimed /\ t \notin Claimed'
        <4>1. t \in Released' <=> t \in Released
          BY <2>7, <3>3, CountClaims
        <4>2. counters'["open_granules"] = (n + 1) % CounterMod
          BY <2>7, <3>3, CountClaims
        <4>3. Cardinality(Claimed') = Cardinality(Claimed) - 1 /\ Cardinality(Released') = Cardinality(Released)
          BY <2>4, <3>3, <4>1
        <4>4. n + 1 < CounterMod
          BY <1>0, <2>4, <2>5, <2>6, <3>1, <4>3
        <4> QED
          BY <1>2, <2>2, <2>4, <2>5, <3>1, <3>2, <4>2, <4>3, <4>4
      <3>4. CASE t \in Released /\ t \notin Released'
        <4>1. t \in Claimed' <=> t \in Claimed
          BY <2>7, <3>4, CountClaims
        <4>2. counters'["open_granules"] = (n + (-1)) % CounterMod
          BY <2>7, <3>4, CountClaims
        <4>3. Cardinality(Released') = Cardinality(Released) - 1 /\ Cardinality(Claimed') = Cardinality(Claimed)
          BY <2>4, <3>4, <4>1
        <4>4. n > 0
          BY <1>0, <2>4, <2>5, <3>1, <4>3
        <4> QED
          BY <1>2, <2>2, <2>4, <2>5, <3>1, <3>2, <4>2, <4>3, <4>4
      <3>5. CASE counters'["open_granules"] = n /\ (t \in Claimed' <=> t \in Claimed)
                 /\ (t \in Released' <=> t \in Released)
        BY <1>2, <2>2, <2>4, <3>1, <3>5
      <3> QED
        BY <2>7, <3>3, <3>4, <3>5, CountClaims
    <2>8. CASE ApiReturn(t)
      <3>1. UNCHANGED counters /\ pc'[t] = "idle"
        BY <2>8, InvParts, AnswerFrame
      <3>2. t \notin Claimed /\ t \notin Released
        BY <2>8 DEF ApiReturn, Finished, Claimed, Released, Closed
      <3>3. t \notin Claimed' /\ t \notin Released'
        BY <3>1 DEF Claimed, Released, Closed
      <3> QED
        BY <1>1, <1>2, <2>2, <2>4, <3>1, <3>2, <3>3
    <2> QED
      BY <1>5, <2>7, <2>8, StepKinds DEF CountStep
  <1>6. CASE QueryStep
    <2>1. CASE ~Resetting /\ UNCHANGED counters
      <3>1. Claimed' = Claimed /\ Released' = Released /\ Taken' = Taken
        BY <1>6, QueryApi DEF Claimed, Released, Closed, Taken, clientVars, slotVars
      <3> QED
        BY <1>1, <1>2, <2>1, <3>1
    <2>2. CASE Resetting'
      BY <2>2 DEF OpenMatchesSlots
    <2> QED
      BY <1>6, <2>1, <2>2, QueryApi DEF Resetting
  <1>7. CASE SlotReset
    <2>1. CASE Resetting'
      BY <2>1 DEF OpenMatchesSlots
    <2>2. CASE mpc' = "idle"
      <3>1. occupied' = [s \in Slots |-> 0] /\ \A t \in Threads : pc'[t] = "idle"
        BY <1>7, <2>2, SlotResetFrame, SlotResetClears DEF Active
      <3>2. counters' = NoCounts
        BY <1>7, SlotResetFrame DEF ProfilerInv, ResetInv, Resetting, ResetLabels
      <3>3. Taken' = {} /\ Claimed' = {} /\ Released' = {}
        BY <3>1 DEF Taken, Claimed, Released, Closed
      <3> QED
        BY <1>2, <3>2, <3>3, FS_EmptySet DEF NoCounts, CounterNames
    <2> QED
      BY <1>7, <2>1, <2>2, SlotResetFrame DEF Resetting, ResetLabels
  <1>8. CASE UNCHANGED profVars
    <2>1. UNCHANGED <<slotVars, pc, call, ret, counters>> /\ Resetting' = Resetting
      BY <1>8 DEF profVars, apiVars, clientVars, queryVars, Resetting
    <2>2. Claimed' = Claimed /\ Released' = Released /\ Taken' = Taken
      BY <2>1 DEF Claimed, Released, Closed, Taken, slotVars
    <2> QED
      BY <1>1, <1>2, <2>1, <2>2 DEF OpenMatchesSlots
  <1> QED
    BY <1>3, <1>4, <1>5, <1>6, <1>7, <1>8 DEF ProfilerNext, ProfilerStep, SlotReset

\* open_granules is the number of occupied slots but for the opens and closes
\* under way, with any number of threads and through any resets.
THEOREM OpenIsCounted ==
    ASSUME SoundIds, HomesDistinct, WideCounts, WideCounters
    PROVE  ProfilerSpec => []OpenMatchesSlots
  <1>1. ProfilerInit => OpenMatchesSlots
    <2>1. ASSUME ProfilerInit PROVE Taken = {} /\ Claimed = {} /\ Released = {} /\ counters["open_granules"] = 0
      BY <2>1 DEF ProfilerInit, SlotInit, ClientInit, ApiInit, CountersInit, CounterNames,
                  Taken, Claimed, Released, Closed
    <2> QED
      BY <2>1, FS_EmptySet DEF OpenMatchesSlots, Taken
  <1>2. /\ ProfilerInv /\ ProfilerInv' /\ ArrayInv /\ HomesInv /\ OpenMatchesSlots /\ [ProfilerNext]_profVars
        => OpenMatchesSlots'
    BY OpenNext
  <1>3. ProfilerSpec => []ProfilerInv /\ []ArrayInv /\ []HomesInv
    BY ProfilerCorrect, ProfilerSlots, ProfilerHomes, PTL
  <1> QED
    BY <1>1, <1>2, <1>3, PTL DEF ProfilerSpec

-----------------------------------------------------------------------------
(* The sweeps                                                              *)

Homes == [g \in Granules |-> Home(g)]

LEMMA HomesApart == ASSUME HomesDistinct PROVE Apart(Homes)
  BY HomeInSlots DEF HomesDistinct, Homes, Apart, Slots

LEMMA ThreadTransit ==
    ASSUME ProfilerInv, TransitInv, NEW t \in Threads, ProfilerCall(t) \/ ProfilerStep(t)
    PROVE  TransitInv' /\ UNCHANGED mpc /\ (mpc # "idle" /\ ~Resetting => Beside)
  <1>0. Typed /\ CountingInv
    BY InvParts
  <1>1. CASE ProfilerCall(t)
    BY <1>0, <1>1, ProfilerCallFrame, LabelSets, CallBeside DEF Beside
  <1>2. CASE ArrayStep(t)
    BY <1>0, <1>2, ArrayMove, StorageBeside DEF Beside
  <1>3. CASE CountStep(t)
    BY <1>0, <1>3, StepKinds, CountBeside, AnswerBeside DEF CountStep, Beside
  <1> QED
    BY <1>1, <1>2, <1>3 DEF ProfilerStep

LEMMA TransitNext ==
    ASSUME ProfilerInv, TransitInv, [ProfilerNext]_profVars
    PROVE  TransitInv'
  <1>1. CASE QueryStep
    <2>1. CASE BeginQuery
      BY <2>1, InvParts, BeginQueryTransit
    <2>2. CASE SnapshotLoad \/ SweepLoad \/ SweepOccupied \/ SweepLive
      <3>1. UNCHANGED <<clientVars, moved>> /\ mpc # "idle" /\ ~Resetting
        BY <2>2 DEF SnapshotLoad, SweepLoad, LoadCounter, SweepOccupied, SweepTest, SweepLive,
                    SweepCount, MonitorOnly, historyVars, Resetting
      <3> QED
        BY <3>1 DEF TransitInv, Active, clientVars, bookVars
    <2>3. CASE BeginReset \/ ResetCounter("reset_live") \/ EndQuery
      <3>1. UNCHANGED clientVars /\ (mpc' = "idle" \/ Resetting')
        BY <2>3 DEF BeginReset, ResetCounter, EndQuery, Resetting
      <3> QED
        BY <3>1 DEF TransitInv, Active, clientVars, bookVars
    <2> QED
      BY <1>1, <2>1, <2>2, <2>3 DEF QueryStep, ApiMonitorStep
  <1>2. CASE SlotReset
    <2>1. /\ \A t \in Threads : ~Active(t) /\ ~Active(t)'
          /\ UNCHANGED phase \/ phase' = [g \in Granules |-> "closed"]
      BY <1>2, SlotResetFrame
    <2> QED
      BY <2>1 DEF TransitInv
  <1>3. CASE UNCHANGED profVars
    BY <1>3 DEF TransitInv, Active, Resetting, profVars, apiVars, clientVars, bookVars, queryVars,
                historyVars
  <1> QED
    BY <1>1, <1>2, <1>3, ThreadTransit DEF ProfilerNext, SlotReset

\* An occupied slot holds a granule that is open or moves.
LEMMA TakenMoves ==
    ASSUME TakenInv, DistinctInv, TransitInv, ClientTypeOK, mpc # "idle", ~Resetting,
           NEW s \in Slots, occupied[s] = 1
    PROVE  \E g \in Sweepable : Home(g) = s
  <1>1. PICK g \in Granules : Home(g) = s
    BY DEF TakenInv
  <1>2. phase[g] # "closed"
    BY <1>1 DEF DistinctInv, HomeInv, Vacant
  <1>3. CASE phase[g] = "open"
    BY <1>1, <1>3 DEF Sweepable
  <1>4. CASE phase[g] \in {"opening", "closing"}
    <2>1. PICK t \in Threads : Active(t) /\ call[t].id = g
      BY <1>4 DEF TransitInv
    <2> QED
      BY <1>1, <2>1 DEF TransitInv, Sweepable
  <1> QED
    BY <1>2, <1>3, <1>4 DEF ClientTypeOK

\* The slot of a granule that does not move counts what the client holds.
LEMMA StillCounted ==
    ASSUME DistinctInv, TransitInv, ClientTypeOK, mpc # "idle", ~Resetting,
           NEW g \in Granules, g \notin moved, phase[g] = "open"
    PROVE  occupied[Home(g)] = 1 /\ live_count[Home(g)] = held[g]
  <1>1. \A t \in Threads : Active(t) => call[t].id # g
    BY DEF TransitInv
  <1>2. Counted(g) = {} /\ Pending(g) = {}
    BY <1>1, Members DEF Active, Counted, Pending
  <1>3. Living(g) = held[g]
    BY <1>2, FS_EmptySet DEF Living, ClientTypeOK
  <1> QED
    BY <1>3 DEF DistinctInv, ExactInv, HomeInv, Present

LEMMA TakenNext ==
    ASSUME ProfilerInv, ArrayInv, HomesInv, TakenInv, SoundIds, [ProfilerNext]_profVars
    PROVE  TakenInv'
  <1>1. ASSUME NEW t \in Threads, ArrayStep(t) PROVE TakenInv'
    <2>1. SlotStep(t) /\ ~Resetting /\ Active(t)
      BY <1>1, ArrayMove, ActiveRuns DEF ProfilerInv
    <2>2. probe[t] = 0 /\ call[t].id \in Granules
      BY <2>1, InvParts DEF HomesInv, DistinctInv, HomeInv, AtHome, ClientTypeOK, Calls
    <2>3. Cur(t) = Home(call[t].id)
      BY <2>2 DEF Cur, Home
    <2>4. \A s \in Slots : s # Cur(t) => occupied'[s] = occupied[s]
      BY <2>1, InvParts, SlotStepLocal
    <2> QED
      BY <2>2, <2>3, <2>4 DEF TakenInv, Home, SlotAt
  <1>2. CASE SlotReset
    <2>1. \A s \in Slots : occupied'[s] = 1 => occupied[s] = 1
      <3>1. CASE ResetOccupied
        <4>1. occupied' = [occupied EXCEPT ![cursor] = 0] /\ occupied \in [Slots -> {0, 1}]
          BY <3>1, InvParts DEF ResetOccupied, SlotTypeOK
        <4> QED
          BY <4>1
      <3>2. CASE ResetLive \/ ResetId
        BY <3>2 DEF ResetLive, ResetId
      <3> QED
        BY <1>2, <3>1, <3>2 DEF SlotReset
    <2> QED
      BY <2>1 DEF TakenInv, Home, SlotAt
  <1>3. CASE occupied' = occupied
    BY <1>3 DEF TakenInv, Home, SlotAt
  <1>4. ASSUME NEW t \in Threads, ProfilerCall(t) \/ CountStep(t) PROVE occupied' = occupied
    BY <1>4 DEF ProfilerCall, CountStep, slotVars
  <1>5. QueryStep \/ UNCHANGED profVars => occupied' = occupied
    BY DEF QueryStep, profVars, slotVars
  <1> QED
    BY <1>1, <1>2, <1>3, <1>4, <1>5 DEF ProfilerNext, ProfilerStep, SlotReset

LEMMA SweepNext ==
    ASSUME HomesDistinct, ProfilerInv, ProfilerInv', HomesInv, TakenInv, TransitInv, SweepInv(Homes),
           [ProfilerNext]_profVars
    PROVE  SweepInv(Homes)'
  <1>0. Typed /\ Typed' /\ Apart(Homes)
    BY InvParts, HomesApart
    DEF ProfilerInv, ProfilerTypeOK, SlotTypeOK, Typed, PcIsFun
  <1>1. ASSUME NEW t \in Threads, ProfilerCall(t) \/ ProfilerStep(t) PROVE SweepInv(Homes)'
    BY <1>0, <1>1, ThreadTransit, SweepBeside
  <1>2. ASSUME mpc \in {"sweep_occupied", "sweep_live"}
        PROVE  /\ DistinctInv /\ ClientTypeOK /\ ~Resetting /\ mpc # "idle" /\ cursor \in Slots
               /\ \A g \in Still : occupied[Homes[g]] = 1 /\ live_count[Homes[g]] = held[g]
    <2>1. DistinctInv /\ ClientTypeOK /\ ~Resetting /\ mpc # "idle" /\ cursor \in Slots
      BY <1>0, <1>2 DEF HomesInv, Resetting, Typed, ApiTypeOK, Slots
    <2> QED
      BY <2>1, StillCounted DEF Still, Homes
  <1>3. CASE SweepOccupied
    <2>1. SweepTest("sweep_occupied", occupied[cursor] = 1, "sweep_live") /\ mpc = "sweep_occupied"
      BY <1>3 DEF SweepOccupied, SweepTest
    <2>2. occupied[cursor] = 1 => \E g \in Sweepable : Homes[g] = cursor
      <3>1. Sweepable \subseteq Granules
        BY <1>0 DEF Sweepable, Typed, ApiTypeOK
      <3> QED
        BY <1>2, <2>1, <3>1, TakenMoves DEF Homes
    <2>3. occupied[cursor] # 1 => \A g \in Still : Homes[g] # cursor
      BY <1>2, <2>1
    <2> QED
      BY <1>0, <2>1, <2>2, <2>3, SweepTests DEF SlotLoads
  <1>4. CASE SweepLive
    <2>1. mpc = "sweep_live" /\ SweepCount(live_count[cursor])
      BY <1>4 DEF SweepLive
    <2>2. live_count[cursor] \in Nat
      BY <1>2, <2>1, InvParts, SlotArrayAssumption DEF SlotTypeOK
    <2>3. \A g \in Still : Homes[g] = cursor => live_count[cursor] = held[g]
      BY <1>2, <2>1
    <2> QED
      BY <1>0, <2>1, <2>2, <2>3, SweepCounts
  <1>5. CASE BeginQuery \/ SweepLoad
    BY <1>0, <1>5, SweepBegins
  <1>6. CASE SnapshotLoad \/ BeginReset \/ ResetCounter("reset_live") \/ EndQuery \/ SlotReset
    <2>1. mpc' \notin {"sweep", "sweep_done"} \cup SlotLoads
      BY <1>6, SlotResetFrame
      DEF SnapshotLoad, LoadCounter, BeginReset, ResetCounter, EndQuery, ResetLabels, SlotLoads
    <2> QED
      BY <2>1 DEF SweepInv, SlotLoads
  <1>7. CASE UNCHANGED profVars
    <2>1. UNCHANGED <<mpc, cursor, out, moved, phase, held>>
      BY <1>7 DEF profVars, apiVars, clientVars, bookVars, queryVars, historyVars
    <2> QED
      BY <1>0, <2>1, SweepBeside DEF Beside
  <1> QED
    BY <1>1, <1>3, <1>4, <1>5, <1>6, <1>7 DEF ProfilerNext, QueryStep, ApiMonitorStep, SlotReset

\* A sweep that races with any number of threads counts every granule left alone
\* exactly once, with its verdict.
THEOREM SweepsBounded ==
    ASSUME SoundIds, HomesDistinct, WideCounts PROVE ProfilerSpec => []SweepBounds
  <1>1. ProfilerInit => TakenInv /\ TransitInv /\ SweepInv(Homes)
    <2>1. ProfilerInit => TakenInv /\ SweepInv(Homes)
      BY DEF ProfilerInit, SlotInit, ApiInit, TakenInv, SweepInv, SlotLoads
    <2>2. ProfilerInit => TransitInv
      BY TransitInit DEF ProfilerInit
    <2> QED
      BY <2>1, <2>2
  <1>2. ProfilerInv /\ ArrayInv /\ HomesInv /\ TakenInv /\ [ProfilerNext]_profVars => TakenInv'
    BY TakenNext
  <1>3. ProfilerInv /\ TransitInv /\ [ProfilerNext]_profVars => TransitInv'
    BY TransitNext
  <1>4. /\ ProfilerInv /\ ProfilerInv' /\ HomesInv /\ TakenInv /\ TransitInv /\ SweepInv(Homes)
        /\ [ProfilerNext]_profVars
        => SweepInv(Homes)'
    BY SweepNext
  <1>5. ProfilerInv /\ SweepInv(Homes) => SweepBounds
    BY InvParts, HomesApart, SweptInTheEnd
  <1>6. ProfilerSpec => []ProfilerInv /\ []ArrayInv /\ []HomesInv
    BY ProfilerCorrect, ProfilerSlots, ProfilerHomes, PTL
  <1> QED
    BY <1>1, <1>2, <1>3, <1>4, <1>5, <1>6, PTL DEF ProfilerSpec
=============================================================================
