---------------------- MODULE DiagnosticProfiler_proofs ----------------------
(***************************************************************************)
(* Proofs about DiagnosticProfiler.  Until it is destroyed, the profiler   *)
(* does to its storage what module DiagSlots allows, and so all that was   *)
(* proved of the storage by itself holds in the profiler; the counters and *)
(* the queries are those of ProfilerApi_proofs.                            *)
(***************************************************************************)
EXTENDS DiagnosticProfiler, ProfilerApi_proofs, SequenceTheorems

-----------------------------------------------------------------------------
(* The profiler's storage                                                  *)

\* A call that counts itself first has, for the storage, just begun, and one that
\* counts afterwards has been answered.
StoragePc(t) ==
    CASE pc[t] \in {"count_alloc", "count_dealloc"} -> "find_occupied"
      [] pc[t] \in ApiLabels \ {"count_alloc", "count_dealloc"} -> "ret"
      [] OTHER -> pc[t]

Storage == INSTANCE DiagSlots_proofs WITH pc <- [t \in Threads |-> StoragePc(t)]

\* The cardinality that the storage's modules speak of is the usual one.
LEMMA StorageCounts == \A S : Storage!Cardinality(S) = Cardinality(S)
  BY DEF Cardinality, Storage!Cardinality

LEMMA StorageIs ==
    /\ \A t : pc[t] \notin ApiLabels => StoragePc(t) = pc[t]
    /\ \A t : StoragePc(t) = "idle" <=> pc[t] = "idle"
    /\ \A t : pc[t] \in {"count_alloc", "count_dealloc"} <=> StoragePc(t) # pc[t] /\ StoragePc(t) = "find_occupied"
    /\ \A t : pc[t] \in ApiLabels \ {"count_alloc", "count_dealloc"} => StoragePc(t) = "ret"
  BY DEF StoragePc, ApiLabels

LEMMA StorageIsNext ==
    /\ \A t : pc'[t] \notin ApiLabels => StoragePc(t)' = pc'[t]
    /\ \A t : StoragePc(t)' = "idle" <=> pc'[t] = "idle"
    /\ \A t : pc'[t] \in {"count_alloc", "count_dealloc"} => StoragePc(t)' = "find_occupied"
    /\ \A t : pc'[t] \in ApiLabels \ {"count_alloc", "count_dealloc"} => StoragePc(t)' = "ret"
    /\ \A t : pc'[t] = pc[t] => StoragePc(t)' = StoragePc(t)
  BY DEF StoragePc, ApiLabels

\* A step of one thread is a step of one thread for the storage.
LEMMA StorageGoto ==
    ASSUME PcIsFun, NEW t \in Threads, NEW l, pc' = [pc EXCEPT ![t] = l], NEW m, StoragePc(t)' = m
    PROVE  [u \in Threads |-> StoragePc(u)]' = [[u \in Threads |-> StoragePc(u)] EXCEPT ![t] = m]
  <1>1. \A u \in Threads \ {t} : pc'[u] = pc[u]
    BY DEF PcIsFun
  <1>2. \A u \in Threads \ {t} : StoragePc(u)' = StoragePc(u)
    BY <1>1, StorageIsNext
  <1> QED
    BY <1>2

LEMMA StorageMoves ==
    ASSUME PcIsFun, Storage!LabelInv, NEW t \in Threads, SlotStep(t)
    PROVE  Storage!SlotStep(t)
  <1>1. \A l : l \notin ApiLabels /\ pc' = [pc EXCEPT ![t] = l]
               => [u \in Threads |-> StoragePc(u)]' = [[u \in Threads |-> StoragePc(u)] EXCEPT ![t] = l]
    <2> SUFFICES ASSUME NEW l, l \notin ApiLabels, pc' = [pc EXCEPT ![t] = l]
                 PROVE  [u \in Threads |-> StoragePc(u)]' = [[u \in Threads |-> StoragePc(u)] EXCEPT ![t] = l]
      OBVIOUS
    <2>1. pc'[t] = l
      BY DEF PcIsFun
    <2>2. StoragePc(t)' = l
      BY <2>1, StorageIsNext
    <2> QED
      BY <2>2, StorageGoto
  <1>2. pc[t] \notin ApiLabels => [u \in Threads |-> StoragePc(u)][t] = pc[t]
    BY StorageIs
  <1> USE DEF Goto, Storage!Goto, Answer, Storage!Answer, ClientOnly, Storage!ClientOnly, Slot,
              Storage!Slot, MayFail, Storage!MayFail, Reread, Storage!Reread, slotVars,
              Storage!slotVars, bookVars, Storage!bookVars, ApiLabels
  <1>3. CASE OpenClaim(t)
    BY <1>1, <1>2, <1>3 DEF OpenClaim, Storage!OpenClaim, Storage!SlotStep
  <1>4. CASE OpenCreate(t)
    BY <1>1, <1>2, <1>4 DEF OpenCreate, Storage!OpenCreate, Storage!SlotStep, NewDiag, Storage!NewDiag
  <1>5. CASE OpenRelease(t)
    BY <1>1, <1>2, <1>5 DEF OpenRelease, Storage!OpenRelease, Storage!SlotStep
  <1>6. CASE FindOccupied(t)
    BY <1>1, <1>2, <1>6 DEF FindOccupied, Storage!FindOccupied, Storage!SlotStep
  <1>7. CASE FindDiag(t)
    BY <1>1, <1>2, <1>7 DEF FindDiag, Storage!FindDiag, Storage!SlotStep
  <1>8. CASE FindId(t)
    <2>1. call[t].fn \in {"close", "alloc", "dealloc"}
      BY <1>2, <1>8 DEF FindId, Storage!LabelInv
    <2>2. /\ AfterFind(call[t].fn) \in {"close_take", "add_alloc", "mark_freed"}
          /\ Storage!AfterFind(call[t].fn) = AfterFind(call[t].fn)
      BY <2>1 DEF AfterFind, Storage!AfterFind
    <2> QED
      BY <1>1, <1>2, <1>8, <2>2 DEF FindId, Storage!FindId, Storage!SlotStep
  <1>9. CASE AllocAdd(t)
    BY <1>1, <1>2, <1>9 DEF AllocAdd, Storage!AllocAdd, Storage!SlotStep, Update, Storage!Update,
       Full, Storage!Full, AddAlloc, Storage!AddAlloc
  <1>10. CASE DeallocMark(t)
    BY <1>1, <1>2, <1>10 DEF DeallocMark, Storage!DeallocMark, Storage!SlotStep, Update, Storage!Update,
       Matches, Storage!Matches, MarkFreed, Storage!MarkFreed, Mark, Storage!Mark, Found, Storage!Found, From, Storage!From
  <1>11. CASE CloseTake(t)
    BY <1>1, <1>2, <1>11 DEF CloseTake, Storage!CloseTake, Storage!SlotStep
  <1>12. CASE CloseRelease(t)
    BY <1>1, <1>2, <1>12 DEF CloseRelease, Storage!CloseRelease, Storage!SlotStep
  <1>13. CASE CloseLoad(t)
    BY <1>1, <1>2, <1>13 DEF CloseLoad, Storage!CloseLoad, Storage!SlotStep
  <1>14. CASE CloseReport(t)
    BY <1>1, <1>2, <1>14 DEF CloseReport, Storage!CloseReport, Storage!SlotStep, Report, Storage!Report,
       Unfreed, Storage!Unfreed
  <1>15. CASE ClosePush(t)
    BY <1>1, <1>2, <1>15 DEF ClosePush, Storage!ClosePush, Storage!SlotStep
  <1>16. CASE CloseDestroy(t)
    BY <1>1, <1>2, <1>16 DEF CloseDestroy, Storage!CloseDestroy, Storage!SlotStep
  <1> QED
    BY <1>3, <1>4, <1>5, <1>6, <1>7, <1>8, <1>9, <1>10, <1>11, <1>12, <1>13, <1>14, <1>15, <1>16
    DEF SlotStep

\* The storage takes a call for the one that the API has taken.
LEMMA StorageCalls ==
    ASSUME Typed, NEW t \in Threads, ProfilerCall(t)
    PROVE  Storage!Call(t)
  <1>0. /\ \A u \in Threads : [v \in Threads |-> StoragePc(v)][u] = "idle" <=> pc[u] = "idle"
        /\ held \in [Granules -> Nat] /\ DOMAIN call = Threads
    BY StorageIs DEF Typed, ClientTypeOK
  <1>1. \A l : l \in {"open_cas", "find_occupied", "count_alloc", "count_dealloc"} /\ pc' = [pc EXCEPT ![t] = l]
               => [u \in Threads |-> StoragePc(u)]' =
                    [[u \in Threads |-> StoragePc(u)] EXCEPT
                        ![t] = IF l = "open_cas" THEN "open_cas" ELSE "find_occupied"]
    <2> SUFFICES ASSUME NEW l \in {"open_cas", "find_occupied", "count_alloc", "count_dealloc"},
                        pc' = [pc EXCEPT ![t] = l]
                 PROVE  [u \in Threads |-> StoragePc(u)]' =
                          [[u \in Threads |-> StoragePc(u)] EXCEPT
                              ![t] = IF l = "open_cas" THEN "open_cas" ELSE "find_occupied"]
      OBVIOUS
    <2>1. pc'[t] = l /\ PcIsFun
      BY DEF Typed, PcIsFun
    <2>2. StoragePc(t)' = IF l = "open_cas" THEN "open_cas" ELSE "find_occupied"
      BY <2>1, StorageIsNext DEF ApiLabels
    <2> QED
      BY <2>1, <2>2, StorageGoto
  <1>2. PICK g \in Granules : ApiCall(t, g, "open_cas", "find_occupied") /\ ListCall(t, g)
    BY DEF ProfilerCall
  <1>3. UNCHANGED <<slotVars, heap, ptr, report, failures>>
    BY DEF ProfilerCall
  <1>4. /\ NoCallOn(g) => Storage!NoCallOn(g)
        /\ Storage!Registering(g) = Registering(g)
        /\ Storage!InUse = InUse /\ Storage!FreshIds = FreshIds
        /\ Storage!HeldIn(g) = HeldIn(g) /\ Storage!StaleIn(g) = StaleIn(g)
        /\ Storage!Records(g) = Records(g)
        /\ Storage!Cardinality(Storage!Registering(g)) = Cardinality(Registering(g))
        /\ Storage!Cardinality(Storage!InUse) = Cardinality(InUse)
    BY <1>0, StorageCounts DEF NoCallOn, Storage!NoCallOn, Registering, Storage!Registering, Active, Storage!Active,
       InUse, Storage!InUse, FreshIds, Storage!FreshIds, HeldIn, Storage!HeldIn, StaleIn,
       Storage!StaleIn, Records, Storage!Records
  <1>5. Storage!slotVars = slotVars /\ Storage!bookVars = bookVars
    BY DEF Storage!slotVars, slotVars, bookVars, Storage!bookVars
  <1> USE DEF bookVars, Storage!bookVars
  <1>51. /\ \A fn : Enter(t, fn, g, "open_cas") => Storage!Enter(t, fn, g, "open_cas")
         /\ \A fn : \A l \in {"find_occupied", "count_alloc", "count_dealloc"} :
              Enter(t, fn, g, l) => Storage!Enter(t, fn, g, "find_occupied")
    <2>1. ASSUME NEW fn, Enter(t, fn, g, "open_cas") PROVE Storage!Enter(t, fn, g, "open_cas")
      BY <1>0, <1>1, <2>1 DEF Enter, Storage!Enter
    <2>2. ASSUME NEW fn, NEW l \in {"find_occupied", "count_alloc", "count_dealloc"}, Enter(t, fn, g, l)
          PROVE  Storage!Enter(t, fn, g, "find_occupied")
      <3>1. [u \in Threads |-> StoragePc(u)]' =
                    [[u \in Threads |-> StoragePc(u)] EXCEPT ![t] = "find_occupied"]
        BY <1>1, <2>2 DEF Enter
      <3> QED
        BY <1>0, <2>2, <3>1 DEF Enter, Storage!Enter
    <2> QED
      BY <2>1, <2>2
  <1>6. CASE CallOpen(t, g, "open_cas")
    <2>1. call'[t].fn = "open"
      BY <1>0, <1>6 DEF CallOpen, Enter
    <2>2. UNCHANGED <<arg, owner, late>>
      BY <1>2, <2>1 DEF ListCall
    <2>3. Storage!CallOpen(t, g, "open_cas")
      BY <1>4, <1>51, <1>6 DEF CallOpen, Storage!CallOpen
    <2> QED
      BY <1>3, <2>2, <2>3 DEF Storage!Call, slotVars, Storage!slotVars
  <1>7. CASE CallClose(t, g, "find_occupied")
    <2>1. call'[t].fn = "close"
      BY <1>0, <1>7 DEF CallClose, Enter
    <2>2. UNCHANGED <<arg, owner, late>>
      BY <1>2, <2>1 DEF ListCall
    <2>3. Storage!CallClose(t, g, "find_occupied")
      BY <1>4, <1>51, <1>7 DEF CallClose, Storage!CallClose
    <2> QED
      BY <1>3, <2>2, <2>3 DEF Storage!Call, slotVars, Storage!slotVars
  <1>8. CASE CallAlloc(t, g, "count_alloc")
    <2>1. call'[t].fn = "alloc"
      BY <1>0, <1>8 DEF CallAlloc, Enter
    <2>2. /\ \A c \in Records(g) : Len(heap[c].allocs) + Cardinality(Registering(g)) < MaxRecords
          /\ \E a \in FreshIds : Pass(t, a)
          /\ UNCHANGED <<owner, late>>
      BY <1>2, <2>1 DEF ListCall
    <2>3. Storage!CallAlloc(t, g, "find_occupied")
      BY <1>4, <1>51, <1>8 DEF CallAlloc, Storage!CallAlloc
    <2>4. Storage!RegisterCall(t, g, "find_occupied")
      BY <1>4, <2>2, <2>3 DEF Storage!RegisterCall, Pass, Storage!Pass
    <2> QED
      BY <1>3, <2>4 DEF Storage!Call, slotVars, Storage!slotVars
  <1>9. CASE CallDealloc(t, g, "count_dealloc")
    <2>1. call'[t].fn = "dealloc" /\ held'[g] < held[g]
      BY <1>0, <1>9 DEF CallDealloc, Enter
    <2>2. PICK a \in HeldIn(g) :
            Pass(t, a) /\ owner' = [owner EXCEPT ![a] = Null] /\ late' = late \ {a}
      BY <1>2, <2>1 DEF ListCall
    <2>3. late' = late
      BY <2>2 DEF HeldIn
    <2>4. Storage!CallDealloc(t, g, "find_occupied")
      BY <1>51, <1>9 DEF CallDealloc, Storage!CallDealloc
    <2>5. Storage!DeregisterCall(t, g, "find_occupied")
      BY <1>4, <2>2, <2>3, <2>4 DEF Storage!DeregisterCall, Pass, Storage!Pass
    <2> QED
      BY <1>3, <2>5 DEF Storage!Call, slotVars, Storage!slotVars
  <1>10. CASE CallLateDealloc(t, g, "count_dealloc")
    <2>1. call'[t].fn = "dealloc" /\ ~(held'[g] < held[g])
      BY <1>0, <1>10 DEF CallLateDealloc, Enter
    <2>2. PICK a \in StaleIn(g) :
            Pass(t, a) /\ owner' = [owner EXCEPT ![a] = Null] /\ late' = late \ {a}
      BY <1>2, <2>1 DEF ListCall
    <2>3. Storage!CallLateDealloc(t, g, "find_occupied")
      BY <1>51, <1>10 DEF CallLateDealloc, Storage!CallLateDealloc
    <2>4. Storage!DeregisterCall(t, g, "find_occupied")
      BY <1>4, <2>2, <2>3 DEF Storage!DeregisterCall, Pass, Storage!Pass
    <2> QED
      BY <1>3, <2>4 DEF Storage!Call, slotVars, Storage!slotVars
  <1> QED
    BY <1>2, <1>6, <1>7, <1>8, <1>9, <1>10 DEF ApiCall

\* An answer of the API is an answer of the storage.
LEMMA StorageReturns ==
    ASSUME PcIsFun, NEW t \in Threads, ApiReturn(t), ListReturn(t)
    PROVE  Storage!Return(t)
  <1>1. [u \in Threads |-> StoragePc(u)][t] = "ret"
    BY StorageIs DEF ApiReturn, Finished, ApiLabels
  <1>2. [u \in Threads |-> StoragePc(u)]' = [[u \in Threads |-> StoragePc(u)] EXCEPT ![t] = "idle"]
    <2>1. pc' = [pc EXCEPT ![t] = "idle"]
      BY DEF ApiReturn, ClientReturn
    <2>2. StoragePc(t)' = "idle"
      BY <2>1, StorageIsNext DEF PcIsFun
    <2> QED
      BY <2>1, <2>2, StorageGoto
  <1>3. Storage!ClientReturn(t)
    BY <1>2 DEF ApiReturn, ClientReturn, Storage!ClientReturn, NoCall, Storage!NoCall, NoId, Storage!NoId
  <1>4. Storage!ListReturn(t)
    BY DEF ListReturn, Storage!ListReturn, HeldIn, Storage!HeldIn, slotVars, Storage!slotVars
  <1> QED
    BY <1>1, <1>3, <1>4 DEF Storage!Return

-----------------------------------------------------------------------------
(* The invariant of the profiler                                           *)

StorageInv == Storage!MemoryInv /\ Storage!RecordInv

\* The storage is kept until the profiler is destroyed.
DiagnosticInv ==
    /\ ApiInv /\ LifeInv
    /\ life # "destroyed" => StorageInv

LEMMA SameSound == SoundSlots <=> Storage!SoundSlots
  BY DEF SoundSlots, Storage!SoundSlots

\* What every operation of the slots leaves alone.
LEMMA SlotMove ==
    ASSUME PcIsFun, Storage!LabelInv, NEW t \in Threads, SlotStep(t),
           ret = [u \in Threads |-> ret[u]]
    PROVE  /\ pc[t] \notin ApiLabels \cup {"idle", "ret"}
           /\ pc'[t] \notin ApiLabels \cup {"idle"} /\ PcIsFun'
           /\ \A u \in Threads \ {t} : pc'[u] = pc[u] /\ ret'[u] = ret[u]
           /\ UNCHANGED <<call, bookVars, arg, owner, late>>
  <1> USE DEF Goto, Answer, ClientOnly, ApiLabels, PcIsFun
  <1>1. CASE OpenClaim(t)      BY <1>1 DEF OpenClaim
  <1>2. CASE OpenCreate(t)     BY <1>2 DEF OpenCreate
  <1>3. CASE OpenRelease(t)    BY <1>3 DEF OpenRelease
  <1>4. CASE FindOccupied(t)   BY <1>4 DEF FindOccupied
  <1>5. CASE FindDiag(t)       BY <1>5 DEF FindDiag
  <1>6. CASE FindId(t)
    <2>1. call[t].fn \in {"close", "alloc", "dealloc"}
      BY <1>6, StorageIs DEF FindId, Storage!LabelInv
    <2>2. AfterFind(call[t].fn) \in {"close_take", "add_alloc", "mark_freed"}
      BY <2>1 DEF AfterFind
    <2> QED
      BY <1>6, <2>2 DEF FindId
  <1>7. CASE AllocAdd(t)       BY <1>7 DEF AllocAdd
  <1>8. CASE DeallocMark(t)    BY <1>8 DEF DeallocMark
  <1>9. CASE CloseTake(t)      BY <1>9 DEF CloseTake
  <1>10. CASE CloseRelease(t)  BY <1>10 DEF CloseRelease
  <1>11. CASE CloseLoad(t)     BY <1>11 DEF CloseLoad
  <1>12. CASE CloseReport(t)   BY <1>12 DEF CloseReport
  <1>13. CASE ClosePush(t)     BY <1>13 DEF ClosePush
  <1>14. CASE CloseDestroy(t)  BY <1>14 DEF CloseDestroy
  <1> QED
    BY <1>1, <1>2, <1>3, <1>4, <1>5, <1>6, <1>7, <1>8, <1>9, <1>10, <1>11, <1>12, <1>13, <1>14
    DEF SlotStep

\* What both sides make of the client's variables.
LEMMA SameClientType ==
    /\ Storage!ClientTypeOK <=> ClientTypeOK
    /\ Storage!ClientTypeOK' <=> ClientTypeOK'
  <1>1. \A t \in Threads : /\ Storage!Active(t) <=> Active(t)
                           /\ Storage!Active(t)' <=> Active(t)'
    BY StorageIs, StorageIsNext DEF Storage!Active, Active
  <1> QED
    BY <1>1 DEF Storage!ClientTypeOK, ClientTypeOK, Calls, Storage!Calls, NoCall, Storage!NoCall,
                NoId, Storage!NoId

LEMMA InvParts ==
    ASSUME DiagnosticInv
    PROVE  /\ ApiInv /\ Typed /\ ClientTypeOK /\ PcIsFun /\ CountingInv /\ LifeInv
           /\ life # "destroyed" =>
                 /\ StorageInv /\ Storage!MemoryInv /\ Storage!RecordInv
                 /\ Storage!LabelInv /\ Storage!DiagTypeOK
  BY DEF DiagnosticInv, ApiInv, Typed, StorageInv, Storage!MemoryInv

\* Only a profiler that runs is called or queried.
LEMMA OnlyRunning ==
    ASSUME LifeInv
    PROVE  /\ \A t \in Threads : Active(t) => Running
           /\ mpc # "idle" => Running
           /\ Running => life = "running"
  BY DEF LifeInv, Running

\* What the storage's variables are.
LEMMA StorageFrame ==
    ASSUME UNCHANGED <<diagVars, clientVars>> PROVE UNCHANGED Storage!vars
  <1>1. UNCHANGED <<occupied, diag, heap, ptr, arg, report, failures, owner, late, pc, call, ret,
                    phase, opens, held, stale>>
    BY DEF diagVars, slotVars, localVars, clientVars, bookVars
  <1>2. \A t : StoragePc(t)' = StoragePc(t)
    BY <1>1, StorageIsNext
  <1> QED
    BY <1>1, <1>2 DEF Storage!vars, Storage!diagVars, Storage!slotVars, Storage!localVars,
                      Storage!clientVars, Storage!bookVars

\* The storage does not see the operations that count.
LEMMA CountHidden ==
    ASSUME DiagnosticInv, NEW t \in Threads, Count(t), UNCHANGED diagVars
    PROVE  UNCHANGED Storage!vars
  <1>1. /\ PcIsFun /\ PcIsFun' /\ pc'[t] \in {"find_occupied", "peak_load", "peak_cas", "done"} \cup Totalling
        /\ \A u \in Threads \ {t} : pc'[u] = pc[u]
        /\ UNCHANGED <<call, ret, bookVars>>
        /\ pc[t] \in {"count_alloc", "count_dealloc", "ret"} \cup Raising \cup Totalling
        /\ pc[t] \in {"count_alloc", "count_dealloc"} <=> pc'[t] = "find_occupied"
    BY InvParts, CountFrame
  <1>2. StoragePc(t)' = StoragePc(t)
    BY <1>1 DEF StoragePc, ApiLabels, Raising, Totalling
  <1>3. \A u \in Threads : StoragePc(u)' = StoragePc(u)
    BY <1>1, <1>2, StorageIsNext
  <1>4. UNCHANGED <<occupied, diag, heap, ptr, arg, report, failures, owner, late, call, ret,
                    phase, opens, held, stale>>
    BY <1>1 DEF diagVars, slotVars, localVars, bookVars
  <1> QED
    BY <1>3, <1>4 DEF Storage!vars, Storage!diagVars, Storage!slotVars, Storage!localVars,
                      Storage!clientVars, Storage!bookVars

\* A call, as the storage and the API see it.
LEMMA CallStep ==
    ASSUME DiagnosticInv, NEW t \in Threads, ProfilerCall(t)
    PROVE  /\ Storage!Call(t) /\ ApiInv' /\ Running
           /\ UNCHANGED <<slotVars, heap, ptr, report, failures, lifeVars, bufVars, swept, forgotten, mpc>>
  <1>1. Storage!Call(t)
    BY StorageCalls, InvParts
  <1>2. PICK g \in Granules : ApiCall(t, g, "open_cas", "find_occupied")
    BY DEF ProfilerCall
  <1>3. {"open_cas", "find_occupied"} \cap (ApiLabels \cup {"idle", "ret"}) = {}
    BY DEF ApiLabels
  <1>4. ApiInv'
    BY <1>2, <1>3, CallApi, InvParts
  <1>5. UNCHANGED mpc
    BY <1>2 DEF ApiCall, queryVars
  <1> QED
    BY <1>1, <1>4, <1>5 DEF ProfilerCall

\* An operation of the storage, as the API sees it.
LEMMA StorageStepMoves ==
    ASSUME DiagnosticInv, NEW t \in Threads, StorageStep(t)
    PROVE  /\ Storage!SlotStep(t) /\ SlotStep(t) /\ Running /\ PcIsFun'
           /\ pc[t] \notin ApiLabels \cup {"idle", "ret"} /\ pc'[t] \notin ApiLabels \cup {"idle"}
           /\ \A u \in Threads \ {t} : pc'[u] = pc[u] /\ ret'[u] = ret[u]
           /\ UNCHANGED <<call, bookVars, arg, owner, late>> /\ StorageOnly /\ StorageMove(t)
           /\ UNCHANGED <<lifeVars, swept, forgotten>>
  <1>1. SlotStep(t) /\ StorageOnly /\ UNCHANGED <<lifeVars, swept, forgotten>>
    BY DEF StorageStep
  <1>2. Active(t) /\ Running /\ life # "destroyed"
    <2>1. Active(t)
      BY <1>1 DEF SlotStep, OpenClaim, OpenCreate, OpenRelease, FindOccupied, FindDiag, FindId,
                  AllocAdd, DeallocMark, CloseTake, CloseRelease, CloseLoad, CloseReport, ClosePush,
                  CloseDestroy, Active
    <2> QED
      BY <2>1, OnlyRunning, InvParts
  <1>3. ret = [u \in Threads |-> ret[u]]
    BY InvParts DEF ClientTypeOK
  <1>4. /\ Storage!SlotStep(t) /\ PcIsFun'
        /\ pc[t] \notin ApiLabels \cup {"idle", "ret"} /\ pc'[t] \notin ApiLabels \cup {"idle"}
        /\ \A u \in Threads \ {t} : pc'[u] = pc[u] /\ ret'[u] = ret[u]
        /\ UNCHANGED <<call, bookVars, arg, owner, late>>
    BY <1>1, <1>2, <1>3, InvParts, SlotMove, StorageMoves
  <1> QED
    BY <1>1, <1>2, <1>4 DEF StorageMove

\* An answer, as both see it.
LEMMA AnswerStep ==
    ASSUME DiagnosticInv, NEW t \in Threads, CountStep(t), ApiReturn(t)
    PROVE  /\ Storage!Return(t) /\ ApiInv' /\ Running /\ ListReturn(t)
           /\ UNCHANGED <<lifeVars, bufVars, swept, forgotten, mpc>>
  <1>1. pc'[t] = "idle" /\ Active(t) /\ UNCHANGED queryVars
    BY AnswerFrame, InvParts
  <1>2. ListReturn(t) /\ UNCHANGED <<lifeVars, bufVars, swept, forgotten>>
    BY <1>1 DEF CountStep
  <1> QED
    BY <1>1, <1>2, StorageReturns, AnswerApi, OnlyRunning, InvParts DEF queryVars

LEMMA CountingStep ==
    ASSUME DiagnosticInv, NEW t \in Threads, CountStep(t), Count(t)
    PROVE  /\ UNCHANGED Storage!vars /\ ApiInv' /\ Running
           /\ UNCHANGED <<diagVars, lifeVars, bufVars, swept, forgotten, mpc>>
  <1>1. pc'[t] # "idle" /\ Active(t) /\ UNCHANGED queryVars
    BY CountFrame, InvParts DEF Totalling
  <1>2. UNCHANGED <<diagVars, lifeVars, bufVars, swept, forgotten>>
    BY <1>1 DEF CountStep
  <1> QED
    BY <1>1, <1>2, CountHidden, CountApi, OnlyRunning, InvParts DEF queryVars

\* The monitor leaves the storage alone.
LEMMA MonitorSteps ==
    ASSUME DiagnosticInv, MonitorStep
    PROVE  /\ ApiInv' /\ Running
           /\ UNCHANGED <<diagVars, clientVars, lifeVars, bufVars, peakVars>>
           /\ \/ ~Resetting /\ ~Resetting' /\ UNCHANGED <<counters, told, maxOpen>>
              \/ Resetting'
              \/ Resetting /\ mpc = "reset_counter" /\ mpc' = "idle"
  <1>0. ApiInv /\ LifeInv /\ UNCHANGED <<diagVars, lifeVars, bufVars>>
    BY InvParts DEF MonitorStep
  <1> USE DEF Resetting
  <1>1. CASE BeginQuery /\ Running
    <2>1. ~Resetting /\ ~Resetting' /\ UNCHANGED <<clientVars, counters, told, maxOpen, peakVars>>
      BY <1>1, ApiAssumption DEF BeginQuery
    <2> QED
      BY <1>0, <1>1, <2>1, BeginQueryApi
  <1>2. CASE BeginReset /\ Running
    BY <1>0, <1>2, BeginResetApi DEF BeginReset
  <1>3. CASE ResetCounter("idle")
    <2>1. ApiInv' /\ mpc = "reset_counter" /\ mpc' \in {"reset_counter", "idle"}
      BY <1>0, <1>3, ResetCounterApi DEF ResetCounter
    <2> QED
      BY <1>0, <1>3, <2>1, OnlyRunning DEF ResetCounter
  <1>4. CASE SnapshotLoad \/ SweepLoad
    <2>1. /\ mpc \in {"snapshot", "sweep"} /\ ~Resetting /\ ~Resetting'
          /\ UNCHANGED <<clientVars, counters, told, maxOpen, peakVars>>
      BY <1>4 DEF SnapshotLoad, SweepLoad, LoadCounter, MonitorOnly, historyVars
    <2> QED
      BY <1>0, <1>4, <2>1, LoadApi, OnlyRunning
  <1>5. CASE EndQuery
    <2>1. mpc # "idle" /\ ~Resetting /\ ~Resetting' /\ UNCHANGED <<clientVars, counters, told, maxOpen, peakVars>>
      BY <1>5 DEF EndQuery
    <2> QED
      BY <1>0, <1>5, <2>1, EndQueryApi, OnlyRunning
  <1>6. CASE SweepOccupied
    <2>1. mpc = "sweep_occupied" /\ ~Resetting
          /\ SweepTest("sweep_occupied", occupied[cursor] = 1, "sweep_diag")
          /\ UNCHANGED <<clientVars, counters, told, maxOpen, peakVars>>
      BY <1>6 DEF SweepOccupied, SweepTest, MonitorOnly, historyVars
    <2> QED
      BY <1>0, <2>1, SweepApi, OnlyRunning
  <1>7. CASE SweepDiag
    <2>1. mpc = "sweep_diag" /\ ~Resetting
          /\ SweepTest("sweep_diag", diag[cursor] # Null, "sweep_live")
          /\ UNCHANGED <<clientVars, counters, told, maxOpen, peakVars>>
      BY <1>7 DEF SweepDiag, SweepTest, MonitorOnly, historyVars
    <2> QED
      BY <1>0, <2>1, SweepApi, OnlyRunning
  <1>8. CASE SweepLive
    <2>1. PICK p : SweepCount(heap[p].live_count)
      BY <1>8 DEF SweepLive
    <2>2. mpc = "sweep_live" /\ ~Resetting
          /\ UNCHANGED <<clientVars, counters, told, maxOpen, peakVars>>
      BY <1>8, <2>1 DEF SweepLive, SweepCount, MonitorOnly, historyVars
    <2>3. ApiInv' /\ ~Resetting'
      BY <1>0, <2>1, <2>2, SweepApi
    <2> QED
      BY <1>0, <2>2, <2>3, OnlyRunning
  <1> QED
    BY <1>1, <1>2, <1>3, <1>4, <1>5, <1>6, <1>7, <1>8 DEF MonitorStep, Query, ResetAll, ApiMonitorStep

\* A profiler is created with nothing in it, and destroyed when nobody uses it.
LEMMA LifeSteps ==
    ASSUME DiagnosticInv, CreateProfiler \/ DestroyProfiler
    PROVE  /\ mpc = "idle" /\ \A t \in Threads : ~Active(t)
           /\ UNCHANGED <<apiVars, reports, count, head, tail, answer, swept, forgotten, config>>
           /\ \/ /\ life = "creating" /\ life' \in {"creating", "running", "failed"}
                 /\ UNCHANGED <<diagVars, bufVars>> /\ CreateProfiler
              \/ life = "running" /\ life' = "destroyed" /\ DestroyProfiler
  <1>1. CASE CreateProfiler
    <2>1. life = "creating" /\ life' \in {"creating", "running", "failed"} /\ UNCHANGED config
      BY <1>1 DEF CreateProfiler, CreatePart, CreateFail
    <2>2. UNCHANGED <<diagVars, apiVars, bufVars, swept, forgotten>>
      BY <1>1 DEF CreateProfiler
    <2>3. ~Running
      BY <2>1 DEF Running
    <2> QED
      BY <1>1, <2>1, <2>2, <2>3, InvParts DEF LifeInv, bufVars
  <1>2. CASE DestroyProfiler
    BY <1>2 DEF DestroyProfiler, Destroy
  <1> QED
    BY <1>1, <1>2

\* Nothing happens to a profiler that was destroyed.
LEMMA Destroyed ==
    ASSUME DiagnosticInv, life = "destroyed", [ProfilerNext]_profVars
    PROVE  UNCHANGED profVars
  <1>1. ~Running
    BY DEF Running
  <1>2. ASSUME NEW t \in Threads, ProfilerCall(t) \/ ProfilerStep(t)
        PROVE  FALSE
    BY <1>1, <1>2, StepKinds, CallStep, StorageStepMoves, AnswerStep, CountingStep
    DEF ProfilerStep, CountStep
  <1>3. ~MonitorStep /\ ~DrainReports
    BY <1>1, MonitorSteps DEF DrainReports
  <1>4. ~CreateProfiler /\ ~DestroyProfiler
    BY LifeSteps
  <1> QED
    BY <1>2, <1>3, <1>4 DEF ProfilerNext

\* Every step of a profiler that is not destroyed by it is one its storage allows.
LEMMA StorageNext ==
    ASSUME DiagnosticInv, [ProfilerNext]_profVars, life' # "destroyed"
    PROVE  [Storage!Next]_(Storage!vars)
  <1>1. ASSUME NEW t \in Threads, ProfilerCall(t) \/ ProfilerStep(t)
        PROVE  [Storage!Next]_(Storage!vars)
    BY <1>1, StepKinds, CallStep, StorageStepMoves, AnswerStep, CountingStep
    DEF ProfilerStep, CountStep, Storage!Next, Storage!Step
  <1>2. CASE MonitorStep
    BY <1>2, MonitorSteps, StorageFrame
  <1>3. CASE DrainReports
    BY <1>3, StorageFrame DEF DrainReports, apiVars
  <1>4. CASE CreateProfiler \/ DestroyProfiler
    BY <1>4, LifeSteps, StorageFrame DEF apiVars
  <1>5. CASE UNCHANGED profVars
    BY <1>5, StorageFrame DEF profVars, apiVars
  <1> QED
    BY <1>1, <1>2, <1>3, <1>4, <1>5 DEF ProfilerNext

\* and so the storage keeps what it keeps by itself.
LEMMA StorageKept ==
    ASSUME SoundSlots, DiagnosticInv, [ProfilerNext]_profVars, life' # "destroyed"
    PROVE  StorageInv'
  <1>1. [Storage!Next]_(Storage!vars)
    BY StorageNext
  <1>2. StorageInv
    BY Destroyed, InvParts DEF profVars, lifeVars
  <1>3. (Storage!MemoryInv /\ [Storage!Next]_(Storage!vars) => Storage!MemoryInv')
    BY SameSound, Storage!MemoryNext, ClientAssumption, DiagAssumption, DiagSlotsAssumption
    DEF DiagType, Storage!DiagType, Record, Storage!Record
  <1>4. (Storage!MemoryInv /\ Storage!RecordInv /\ [Storage!Next]_(Storage!vars) => Storage!RecordInv')
    BY SameSound, Storage!RecordsNext, ClientAssumption, DiagAssumption, DiagSlotsAssumption
    DEF DiagType, Storage!DiagType, Record, Storage!Record
  <1> QED
    BY <1>1, <1>2, <1>3, <1>4 DEF StorageInv

\* The profiler is empty when it is made, and when it is gone.
LEMMA LifeNext ==
    ASSUME SoundSlots, DiagnosticInv, [ProfilerNext]_profVars
    PROVE  LifeInv'
  <1>1. CASE Running /\ UNCHANGED lifeVars
    BY <1>1, InvParts DEF LifeInv, Running, lifeVars
  <1>2. CASE CreateProfiler
    <2>1. /\ mpc' = "idle" /\ \A t \in Threads : ~Active(t)'
          /\ config' \in Config /\ life' \in {"creating", "running", "failed"}
      BY <1>2, LifeSteps, InvParts DEF LifeInv, apiVars, queryVars, clientVars, Active, CreateProfiler, CreatePart, CreateFail
    <2>2. ~Running /\ InUseCells' = {}
      BY <1>2, LifeSteps, InvParts DEF LifeInv, Running, CreateProfiler, CreatePart, CreateFail,
                                       diagVars, InUseCells
    <2> QED
      BY <2>1, <2>2 DEF LifeInv
  <1>3. CASE DestroyProfiler
    <2>1. /\ mpc' = "idle" /\ \A t \in Threads : ~Active(t) /\ ~Active(t)'
          /\ config' \in Config /\ life = "running" /\ life' = "destroyed" /\ UNCHANGED config
      BY <1>3, LifeSteps, InvParts DEF LifeInv, apiVars, queryVars, clientVars, Active, DestroyProfiler, Destroy
    <2>2. InUseCells' = {}
      <3>1. CASE Running
        <4>1. heap' = [c \in Cells |-> IF c \in InSlots THEN Null ELSE heap[c]]
          BY <1>3, <3>1 DEF DestroyProfiler, FreeSlots, Running
        <4>2. InUseCells = InSlots
          <5>1. Storage!NoLeak
            BY <2>1, InvParts DEF Storage!MemoryInv
          <5>2. Storage!InHands = {}
            BY <2>1, StorageIs DEF Storage!InHands, Storage!Detached, Active
          <5> QED
            BY <5>1, <5>2 DEF Storage!NoLeak, Storage!InUseCells, Storage!InSlots, InUseCells, InSlots,
                              Slots, Storage!Slots
        <4> QED
          BY <4>1, <4>2 DEF InUseCells
      <3>2. CASE ~Running
        BY <1>3, <2>1, <3>2, InvParts DEF DestroyProfiler, Running, LifeInv, InUseCells
      <3> QED
        BY <3>1, <3>2
    <2> QED
      BY <2>1, <2>2 DEF LifeInv
  <1>4. CASE UNCHANGED profVars
    BY <1>4, InvParts DEF LifeInv, Running, lifeVars, profVars, diagVars, apiVars, queryVars,
                          clientVars, Active, InUseCells
  <1>5. ASSUME NEW t \in Threads, ProfilerCall(t) \/ ProfilerStep(t)
        PROVE  Running /\ UNCHANGED lifeVars
    BY <1>5, StepKinds, CallStep, StorageStepMoves, AnswerStep, CountingStep
    DEF ProfilerStep, CountStep
  <1>6. MonitorStep \/ DrainReports => Running /\ UNCHANGED lifeVars
    BY MonitorSteps DEF DrainReports
  <1> QED
    BY <1>1, <1>2, <1>3, <1>4, <1>5, <1>6 DEF ProfilerNext

LEMMA ApiNext ==
    ASSUME SoundSlots, DiagnosticInv, [ProfilerNext]_profVars
    PROVE  ApiInv'
  <1>1. ASSUME NEW t \in Threads, StorageStep(t)
        PROVE  ApiInv'
    <2>1. StorageMove(t) /\ PcIsFun' /\ life' # "destroyed"
      BY <1>1, StorageStepMoves DEF Running, lifeVars
    <2>2. ClientTypeOK'
      BY <2>1, StorageKept, SameClientType DEF StorageInv, Storage!MemoryInv, Storage!DiagTypeOK
    <2> QED
      BY <2>1, <2>2, StorageApi, InvParts
  <1>2. ASSUME NEW t \in Threads, ProfilerCall(t) \/ CountStep(t)
        PROVE  ApiInv'
    BY <1>2, StepKinds, CallStep, AnswerStep, CountingStep DEF CountStep
  <1>3. MonitorStep => ApiInv'
    BY MonitorSteps
  <1>4. ASSUME UNCHANGED apiVars PROVE ApiInv'
    <2>1. /\ UNCHANGED <<clientVars, counters, peakVars, queryVars, historyVars>> /\ ApiInv
      BY <1>4, InvParts DEF apiVars
    <2>2. ClientTypeOK' /\ PcIsFun' /\ CountingInv' /\ \A t \in Threads : Active(t)' = Active(t)
      BY <2>1, InvParts, SameClient
    <2> QED
      BY <2>1, <2>2 DEF ApiInv, Typed, ApiTypeOK, PeakInv, ResetInv, Resetting,
                        clientVars, peakVars, queryVars, historyVars
  <1>5. DrainReports \/ CreateProfiler \/ DestroyProfiler \/ UNCHANGED profVars => UNCHANGED apiVars
    BY LifeSteps DEF DrainReports, profVars
  <1> QED
    BY <1>1, <1>2, <1>3, <1>4, <1>5 DEF ProfilerNext, ProfilerStep

LEMMA DiagnosticInit == ProfilerInit => DiagnosticInv
  <1> SUFFICES ASSUME ProfilerInit PROVE DiagnosticInv
    OBVIOUS
  <1>1. ApiInv
    BY ApiInitInv DEF ProfilerInit
  <1>2. LifeInv
    BY DEF ProfilerInit, LifeInit, LifeInv, ApiInit, ClientInit, DiagSlotsInit, InUseCells, Active
  <1>3. Storage!Init
    BY DEF ProfilerInit, Storage!Init, Storage!DiagSlotsInit, DiagSlotsInit, Storage!ClientInit,
           ClientInit, StoragePc, ApiLabels, NoCall, Storage!NoCall, NoId, Storage!NoId, Slots,
           Storage!Slots
  <1>4. StorageInv
    BY <1>3, Storage!MemoryInit, Storage!RecordsInit, ClientAssumption, DiagAssumption, DiagSlotsAssumption
    DEF DiagType, Storage!DiagType, Record, Storage!Record, StorageInv
  <1> QED
    BY <1>1, <1>2, <1>4 DEF DiagnosticInv

LEMMA DiagnosticNext == ASSUME SoundSlots PROVE DiagnosticInv /\ [ProfilerNext]_profVars => DiagnosticInv'
  BY StorageKept, LifeNext, ApiNext DEF DiagnosticInv

\* DiagnosticInv, in every state of every instance in which ids have slots of their
\* own: whatever the profiler counts, shows, hands over and forgets, its storage
\* keeps what it keeps by itself.
THEOREM DiagnosticCorrect == ASSUME SoundSlots PROVE ProfilerSpec => []DiagnosticInv
  BY DiagnosticInit, DiagnosticNext, PTL DEF ProfilerSpec

-----------------------------------------------------------------------------
(* The storage inside the profiler                                         *)

\* Until it is destroyed, the profiler does to its storage what module DiagSlots
\* allows: every behaviour of the whole profiler, with its counters, its queries,
\* its resets and its report buffer, is one of the diagnostic slots;
THEOREM ProfilerUsesSlots ==
    ASSUME SoundSlots PROVE ProfilerSpec /\ [](life # "destroyed") => Storage!Spec
  <1>1. ProfilerInit => Storage!Init
    BY DEF ProfilerInit, Storage!Init, Storage!DiagSlotsInit, DiagSlotsInit, Storage!ClientInit,
           ClientInit, StoragePc, ApiLabels, NoCall, Storage!NoCall, NoId, Storage!NoId, Slots,
           Storage!Slots
  <1>2. DiagnosticInv /\ [ProfilerNext]_profVars /\ (life # "destroyed")' => [Storage!Next]_(Storage!vars)
    BY StorageNext
  <1> QED
    BY <1>1, <1>2, DiagnosticCorrect, PTL DEF ProfilerSpec, Storage!Spec

\* and so it looks to the client as if each call acted at once, or was refused.
THEOREM ProfilerImplementsLedger ==
    ASSUME SoundSlots PROVE ProfilerSpec /\ [](life # "destroyed") => Storage!ImplementsLedger
  <1>1. Storage!Spec => Storage!ImplementsLedger
    BY SameSound, Storage!SlotsImplementLedger, ClientAssumption, DiagAssumption, DiagSlotsAssumption
    DEF DiagType, Storage!DiagType, Record, Storage!Record
  <1> QED
    BY <1>1, ProfilerUsesSlots, PTL

\* The answer of a close is right at the API too, whatever the other threads do
\* between the close of the slot and the answer.
THEOREM DiagnosticAnswersExact == ASSUME SoundSlots PROVE ProfilerSpec => []DrainableExact
  <1>1. ASSUME DiagnosticInv PROVE DrainableExact
    <2> SUFFICES ASSUME NEW t \in At("done"), call[t].fn = "close"
                 PROVE  Drainable(t) <=> held[call[t].id] = 0
      BY DEF DrainableExact
    <2>1. t \in Threads /\ pc[t] = "done"
      BY DEF At
    <2>2. Storage!VerdictExact
      BY <1>1, <2>1, InvParts, OnlyRunning DEF Active, Storage!RecordInv
    <2>3. StoragePc(t) = "ret"
      BY <2>1, StorageIs DEF ApiLabels
    <2> QED
      BY <2>1, <2>2, <2>3 DEF Storage!VerdictExact, Drainable
  <1> QED
    BY <1>1, DiagnosticCorrect, PTL

-----------------------------------------------------------------------------
(* The counters                                                            *)

\* The compare-and-swap loop of granule_open loses no maximum.
THEOREM DiagnosticPeak == ASSUME SoundSlots PROVE ProfilerSpec => []PeakIsMaximum
  <1>1. DiagnosticInv => PeakIsMaximum
    BY DEF DiagnosticInv, ApiInv, PeakInv, PeakIsMaximum, At, Raising
  <1> QED
    BY <1>1, DiagnosticCorrect, PTL

\* A call, as the API sees it.
LEMMA CallOfApi ==
    ASSUME NEW t \in Threads, ProfilerCall(t)
    PROVE  \E g \in Granules : /\ ApiCall(t, g, "open_cas", "find_occupied")
                               /\ {"open_cas", "find_occupied"} \cap (ApiLabels \cup {"idle", "ret"}) = {}
  BY DEF ProfilerCall, ApiLabels

\* What is no call, no operation and no query leaves the API alone.
LEMMA ApiStays ==
    ASSUME DiagnosticInv, DrainReports \/ CreateProfiler \/ DestroyProfiler \/ UNCHANGED profVars
    PROVE  UNCHANGED apiVars
  BY LifeSteps DEF DrainReports, profVars

LEMMA VerdictsNext ==
    ASSUME DiagnosticInv, VerdictsCounted, FewCloses, IsFiniteSet(Threads), [ProfilerNext]_profVars
    PROVE  VerdictsCounted'
  <1>0. ApiInv
    BY InvParts
  <1>1. ASSUME NEW t \in Threads, ProfilerCall(t) PROVE VerdictsCounted'
    BY <1>0, <1>1, CallOfApi, CallVerdicts
  <1>2. ASSUME NEW t \in Threads, StorageStep(t) PROVE VerdictsCounted'
    BY <1>0, <1>2, StorageStepMoves, StorageVerdicts
  <1>3. ASSUME NEW t \in Threads, CountStep(t) PROVE VerdictsCounted'
    BY <1>0, <1>3, StepKinds, CountVerdicts, AnswerVerdicts DEF CountStep
  <1>4. CASE MonitorStep
    <2>1. CASE ~Resetting /\ UNCHANGED <<clientVars, counters, told>>
      BY <2>1, MonitorVerdicts
    <2>2. CASE Resetting'
      BY <2>2 DEF VerdictsCounted, Resetting
    <2>3. CASE Resetting /\ mpc = "reset_counter" /\ mpc' = "idle"
      <3>1. ResetCounter("idle")
        BY <1>4, <2>3 DEF MonitorStep, ResetAll, Query, BeginQuery, BeginReset, ApiMonitorStep,
                          SnapshotLoad, SweepLoad, LoadCounter, EndQuery, SweepOccupied, SweepDiag,
                          SweepLive, SweepTest
      <3>2. counters' = NoCounts /\ told' = [drainable |-> 0, pinned |-> 0]
        BY <1>0, <2>3, <3>1, ResetCounterApi
      <3>3. \A t \in Threads : pc'[t] = "idle"
        BY <1>0, <1>4, <2>3, MonitorSteps DEF ApiInv, ResetInv, Active, clientVars
      <3>4. Answered("drainable")' = {} /\ Answered("pinned")' = {} /\ At("count_verdict")' = {}
        BY <3>3 DEF Answered, At
      <3> QED
        BY <3>2, <3>4, FS_EmptySet DEF VerdictsCounted, NoCounts, CounterNames
    <2> QED
      BY <1>4, <2>1, <2>2, <2>3, MonitorSteps
  <1>5. CASE UNCHANGED apiVars
    <2>1. UNCHANGED <<clientVars, counters, told, mpc>>
      BY <1>5 DEF apiVars, queryVars, historyVars
    <2>2. CASE Resetting
      BY <2>1, <2>2 DEF VerdictsCounted, Resetting
    <2> QED
      BY <2>1, <2>2, MonitorVerdicts
  <1> QED
    BY <1>1, <1>2, <1>3, <1>4, <1>5, ApiStays DEF ProfilerNext, ProfilerStep

\* The counters are the answers the clients were given, with any number of
\* threads and any interleaving, as long as the counters of closes are not near
\* their largest value.
THEOREM DiagnosticVerdicts ==
    ASSUME SoundSlots, IsFiniteSet(Threads)
    PROVE  ProfilerSpec /\ []FewCloses => []VerdictsCounted
  <1>1. ProfilerInit => VerdictsCounted
    <2>1. ASSUME ProfilerInit
          PROVE  Answered("drainable") = {} /\ Answered("pinned") = {} /\ At("count_verdict") = {}
      BY <2>1 DEF ProfilerInit, ClientInit, Answered, At
    <2>2. ASSUME ProfilerInit
          PROVE  told.drainable = 0 /\ told.pinned = 0 /\ \A f \in CounterNames : counters[f] = 0
      BY <2>2 DEF ProfilerInit, ApiInit, CountersInit
    <2> QED
      BY <2>1, <2>2, FS_EmptySet DEF VerdictsCounted, CounterNames
  <1>2. DiagnosticInv /\ VerdictsCounted /\ FewCloses /\ [ProfilerNext]_profVars => VerdictsCounted'
    BY VerdictsNext
  <1> QED
    BY <1>1, <1>2, DiagnosticCorrect, PTL DEF ProfilerSpec

LEMMA SnapshotNext ==
    ASSUME DiagnosticInv, DiagnosticInv', VerdictsCounted, VerdictsCounted', SnapshotInv,
           IsFiniteSet(Threads), [ProfilerNext]_profVars
    PROVE  SnapshotInv'
  <1>0. ApiInv /\ ApiInv'
    BY DEF DiagnosticInv
  <1>1. ASSUME NEW t \in Threads, ProfilerCall(t) PROVE SnapshotInv'
    BY <1>0, <1>1, CallOfApi, CallSnapshot
  <1>2. ASSUME NEW t \in Threads, StorageStep(t) PROVE SnapshotInv'
    BY <1>0, <1>2, StorageStepMoves, StorageSnapshot
  <1>3. ASSUME NEW t \in Threads, CountStep(t) PROVE SnapshotInv'
    BY <1>0, <1>3, StepKinds, CountSnapshot, AnswerSnapshot DEF CountStep
  <1>4. CASE MonitorStep
    <2>1. CASE BeginQuery
      BY <1>0, <2>1, BeginQuerySnapshot
    <2>2. CASE SnapshotLoad
      BY <1>0, <2>2, LoadSnapshot
    <2>3. CASE BeginReset \/ ResetCounter("idle") \/ SweepLoad \/ EndQuery \/ SweepOccupied
               \/ SweepDiag \/ SweepLive
      <3>1. mpc' \notin {"snapshot", "snapshot_done"}
        BY <2>3 DEF BeginReset, ResetCounter, SweepLoad, LoadCounter, EndQuery, SweepOccupied,
                    SweepDiag, SweepTest, SweepLive, SweepCount, NextSlot
      <3> QED
        BY <3>1 DEF SnapshotInv
    <2> QED
      BY <1>4, <2>1, <2>2, <2>3 DEF MonitorStep, Query, ResetAll, ApiMonitorStep
  <1>5. CASE UNCHANGED apiVars
    BY <1>5, OtherSnapshot DEF apiVars, queryVars, historyVars
  <1> QED
    BY <1>1, <1>2, <1>3, <1>4, <1>5, ApiStays DEF ProfilerNext, ProfilerStep

\* A snapshot is off by no more than the closes that overlapped it, with any
\* number of threads and any interleaving.
THEOREM DiagnosticSnapshots ==
    ASSUME SoundSlots, IsFiniteSet(Threads)
    PROVE  ProfilerSpec /\ []FewCloses => []SnapshotDrift
  <1>1. ProfilerInit => SnapshotInv
    BY DEF ProfilerInit, ApiInit, SnapshotInv
  <1>2. /\ DiagnosticInv /\ DiagnosticInv' /\ VerdictsCounted /\ VerdictsCounted' /\ SnapshotInv
        /\ [ProfilerNext]_profVars
        => SnapshotInv'
    BY SnapshotNext
  <1>3. SnapshotInv => SnapshotDrift
    BY SnapshotAgrees
  <1>4. ProfilerSpec => []DiagnosticInv
    BY DiagnosticCorrect
  <1>5. ProfilerSpec /\ []FewCloses => []VerdictsCounted
    BY DiagnosticVerdicts
  <1> QED
    BY <1>1, <1>2, <1>3, <1>4, <1>5, PTL DEF ProfilerSpec

-----------------------------------------------------------------------------
(* The profiler's own memory                                               *)

\* What is allocated while the profiler is being created, and when it is complete.
Halfway ==
    IF config.storage = "hash_map" THEN {{}, {"prof"}}
    ELSE {{}, {"prof"}, {"prof", "array"}}
         \cup IF Buffered THEN { {"prof", "array", "slots"}, {"prof", "array", "slots", "buffer"},
                                 {"prof", "array", "slots", "buffer", "reports"} }
              ELSE {}
Complete == {"prof", "array", "slots"} \cup IF Buffered THEN {"buffer", "reports", "lock"} ELSE {}

BlocksInv ==
    /\ life = "creating" => blocks \in Halfway
    /\ life = "running"  => blocks = Complete
    /\ BlocksFreed

\* The number of parts tells which is next.
LEMMA Sizes ==
    /\ Cardinality({}) = 0 /\ Cardinality({"prof"}) = 1 /\ Cardinality({"prof", "array"}) = 2
    /\ Cardinality({"prof", "array", "slots"}) = 3
    /\ Cardinality({"prof", "array", "slots", "buffer"}) = 4
    /\ Cardinality({"prof", "array", "slots", "buffer", "reports"}) = 5
    /\ Cardinality({"prof", "array", "slots", "buffer", "reports", "lock"}) = 6
  <1>1. IsFiniteSet({}) /\ Cardinality({}) = 0
    BY FS_EmptySet
  <1>2. IsFiniteSet({"prof"}) /\ Cardinality({"prof"}) = 1
    BY FS_Singleton
  <1>3. /\ IsFiniteSet({"prof"} \cup {"array"}) /\ Cardinality({"prof"} \cup {"array"}) = 2
    BY <1>2, FS_AddElement
  <1>4. {"prof"} \cup {"array"} = {"prof", "array"}
    OBVIOUS
  <1>5. IsFiniteSet({"prof", "array"} \cup {"slots"}) /\ Cardinality({"prof", "array"} \cup {"slots"}) = 3
    BY <1>3, <1>4, FS_AddElement
  <1>6. {"prof", "array"} \cup {"slots"} = {"prof", "array", "slots"}
    OBVIOUS
  <1>7. /\ IsFiniteSet({"prof", "array", "slots"} \cup {"buffer"})
        /\ Cardinality({"prof", "array", "slots"} \cup {"buffer"}) = 4
    BY <1>5, <1>6, FS_AddElement
  <1>8. {"prof", "array", "slots"} \cup {"buffer"} = {"prof", "array", "slots", "buffer"}
    OBVIOUS
  <1>9. /\ IsFiniteSet({"prof", "array", "slots", "buffer"} \cup {"reports"})
        /\ Cardinality({"prof", "array", "slots", "buffer"} \cup {"reports"}) = 5
    BY <1>7, <1>8, FS_AddElement
  <1>10. {"prof", "array", "slots", "buffer"} \cup {"reports"} = {"prof", "array", "slots", "buffer", "reports"}
    OBVIOUS
  <1>11. Cardinality({"prof", "array", "slots", "buffer", "reports"} \cup {"lock"}) = 6
    BY <1>9, <1>10, FS_AddElement
  <1>12. {"prof", "array", "slots", "buffer", "reports"} \cup {"lock"}
            = {"prof", "array", "slots", "buffer", "reports", "lock"}
    OBVIOUS
  <1> QED
    BY <1>1, <1>2, <1>3, <1>4, <1>5, <1>6, <1>7, <1>8, <1>9, <1>10, <1>11, <1>12

LEMMA PartsAre ==
    /\ config.storage = "hash_map" => Len(Parts) = 2 /\ Parts[1] = "prof" /\ Parts[2] = "hash_map"
    /\ config.storage # "hash_map" =>
          /\ Len(Parts) = IF Buffered THEN 6 ELSE 3
          /\ Parts[1] = "prof" /\ Parts[2] = "array" /\ Parts[3] = "slots"
          /\ Buffered => Parts[4] = "buffer" /\ Parts[5] = "reports" /\ Parts[6] = "lock"
  <1>1. CASE config.storage = "hash_map"
    BY <1>1 DEF Parts
  <1>2. CASE config.storage # "hash_map"
    <2> DEFINE names == {"prof", "array", "slots", "buffer", "reports", "lock"}
               tail3 == IF Buffered THEN <<"buffer", "reports", "lock">> ELSE <<>>
               front == <<"prof">> \o <<"array", "slots">>
    <2>1. /\ front \in Seq(names) /\ Len(front) = 3
          /\ front[1] = "prof" /\ front[2] = "array" /\ front[3] = "slots"
      <3>1. <<"prof">> \in Seq(names) /\ <<"array", "slots">> \in Seq(names)
        BY SMT
      <3>2. /\ front \in Seq(names)
            /\ Len(front) = Len(<<"prof">>) + Len(<<"array", "slots">>)
            /\ \A i \in 1 .. Len(<<"prof">>) + Len(<<"array", "slots">>) :
                  front[i] = IF i <= Len(<<"prof">>) THEN <<"prof">>[i]
                             ELSE <<"array", "slots">>[i - Len(<<"prof">>)]
        BY <3>1, ConcatProperties, Zenon
      <3> HIDE DEF front, names
      <3> QED
        BY <3>2
    <2>2. /\ tail3 \in Seq(names) /\ Len(tail3) = IF Buffered THEN 3 ELSE 0
          /\ Buffered => tail3[1] = "buffer" /\ tail3[2] = "reports" /\ tail3[3] = "lock"
      <3>1. CASE Buffered
        BY <3>1
      <3>2. CASE ~Buffered
        BY <3>2
      <3> QED
        BY <3>1, <3>2
    <2>3. Parts = front \o tail3
      BY <1>2 DEF Parts, ArrayParts, BufferParts
    <2> HIDE DEF front, tail3, names
    <2>4. /\ Len(front \o tail3) = Len(front) + Len(tail3)
          /\ \A i \in 1 .. Len(front) + Len(tail3) :
                (front \o tail3)[i] = IF i <= Len(front) THEN front[i] ELSE tail3[i - Len(front)]
      BY <2>1, <2>2, ConcatProperties, Zenon
    <2> QED
      BY <1>2, <2>1, <2>2, <2>3, <2>4
  <1> QED
    BY <1>1, <1>2

\* The next part, and what its error path has to free.
LEMMA NextPartIs ==
    ASSUME blocks \in Halfway
    PROVE  /\ Cleanup(NextPart) = blocks
           /\ NextPart # "hash_map" =>
                IF Cardinality(blocks \cup {NextPart}) = Len(Parts)
                THEN blocks \cup {NextPart} = Complete
                ELSE blocks \cup {NextPart} \in Halfway
  <1>1. CASE config.storage = "hash_map"
    <2>1. CASE blocks = {}
      <3>1. NextPart = "prof" /\ blocks \cup {NextPart} = {"prof"} /\ Len(Parts) = 2
        BY <1>1, <2>1, Sizes, PartsAre DEF NextPart
      <3> QED
        BY <1>1, <2>1, <3>1, Sizes DEF Cleanup, Halfway
    <2>2. CASE blocks = {"prof"}
      <3>1. NextPart = "hash_map"
        BY <1>1, <2>2, Sizes, PartsAre DEF NextPart
      <3> QED
        BY <2>2, <3>1 DEF Cleanup
    <2> QED
      BY <1>1, <2>1, <2>2 DEF Halfway
  <1>2. CASE config.storage # "hash_map"
    <2>0. Len(Parts) = IF Buffered THEN 6 ELSE 3
      BY <1>2, PartsAre
    <2>1. CASE blocks = {}
      <3>1. NextPart = "prof" /\ blocks \cup {NextPart} = {"prof"}
        BY <1>2, <2>1, Sizes, PartsAre DEF NextPart
      <3> QED
        BY <1>2, <2>0, <2>1, <3>1, Sizes DEF Cleanup, Halfway
    <2>2. CASE blocks = {"prof"}
      <3>1. NextPart = "array" /\ blocks \cup {NextPart} = {"prof", "array"}
        BY <1>2, <2>2, Sizes, PartsAre DEF NextPart
      <3> QED
        BY <1>2, <2>0, <2>2, <3>1, Sizes DEF Cleanup, Halfway
    <2>3. CASE blocks = {"prof", "array"}
      <3>1. NextPart = "slots" /\ blocks \cup {NextPart} = {"prof", "array", "slots"}
        BY <1>2, <2>3, Sizes, PartsAre DEF NextPart
      <3> QED
        BY <1>2, <2>0, <2>3, <3>1, Sizes DEF Cleanup, Halfway, Complete
    <2>4. CASE blocks = {"prof", "array", "slots"} /\ Buffered
      <3>1. NextPart = "buffer" /\ blocks \cup {NextPart} = {"prof", "array", "slots", "buffer"}
        BY <1>2, <2>4, Sizes, PartsAre DEF NextPart
      <3> QED
        BY <1>2, <2>0, <2>4, <3>1, Sizes DEF Cleanup, Halfway
    <2>5. CASE blocks = {"prof", "array", "slots", "buffer"} /\ Buffered
      <3>1. NextPart = "reports" /\ blocks \cup {NextPart} = {"prof", "array", "slots", "buffer", "reports"}
        BY <1>2, <2>5, Sizes, PartsAre DEF NextPart
      <3> QED
        BY <1>2, <2>0, <2>5, <3>1, Sizes DEF Cleanup, Halfway
    <2>6. CASE blocks = {"prof", "array", "slots", "buffer", "reports"} /\ Buffered
      <3>1. /\ NextPart = "lock"
            /\ blocks \cup {NextPart} = {"prof", "array", "slots", "buffer", "reports", "lock"}
        BY <1>2, <2>6, Sizes, PartsAre DEF NextPart
      <3> QED
        BY <1>2, <2>0, <2>6, <3>1, Sizes DEF Cleanup, Complete
    <2> QED
      BY <1>2, <2>1, <2>2, <2>3, <2>4, <2>5, <2>6 DEF Halfway
  <1> QED
    BY <1>1, <1>2

LEMMA BlocksNext ==
    ASSUME BlocksInv, CreatePart \/ CreateFail \/ Destroy \/ UNCHANGED lifeVars
    PROVE  BlocksInv'
  <1>0. UNCHANGED config
    BY DEF CreatePart, CreateFail, Destroy, lifeVars
  <1>1. Halfway' = Halfway /\ Complete' = Complete /\ Parts' = Parts
    BY <1>0 DEF Halfway, Complete, Parts, Buffered
  <1>2. CASE CreatePart
    BY <1>1, <1>2, NextPartIs DEF CreatePart, BlocksInv, BlocksFreed
  <1>3. CASE CreateFail
    BY <1>1, <1>3, NextPartIs DEF CreateFail, BlocksInv, BlocksFreed
  <1>4. CASE Destroy
    BY <1>1, <1>4 DEF Destroy, BlocksInv, BlocksFreed, Complete
  <1>5. CASE UNCHANGED lifeVars
    BY <1>1, <1>5 DEF lifeVars, BlocksInv, BlocksFreed
  <1> QED
    BY <1>2, <1>3, <1>4, <1>5

\* Which steps make and unmake the profiler.
LEMMA LifeMoves ==
    [ProfilerNext]_profVars => CreatePart \/ CreateFail \/ Destroy \/ UNCHANGED lifeVars
  BY DEF ProfilerNext, ProfilerCall, ProfilerStep, StorageStep, CountStep, MonitorStep, DrainReports,
         CreateProfiler, DestroyProfiler, profVars, lifeVars

\* Whichever allocation fails, and when the profiler is destroyed, every block of
\* the profiler is given back.
THEOREM BlocksAllFreed == ProfilerSpec => []BlocksFreed
  <1>1. ProfilerInit => BlocksInv
    <2> SUFFICES ASSUME ProfilerInit PROVE BlocksInv
      OBVIOUS
    <2>1. life = "creating" /\ blocks = {}
      BY DEF ProfilerInit, LifeInit
    <2>2. {} \in Halfway
      BY DEF Halfway
    <2> QED
      BY <2>1, <2>2 DEF BlocksInv, BlocksFreed
  <1>2. BlocksInv /\ [ProfilerNext]_profVars => BlocksInv'
    BY LifeMoves, BlocksNext
  <1>3. BlocksInv => BlocksFreed
    BY DEF BlocksInv
  <1> QED
    BY <1>1, <1>2, <1>3, PTL DEF ProfilerSpec

-----------------------------------------------------------------------------
(* The reports                                                             *)

\* For the ring, a report that never got there is new for good: it is lost, or it
\* is freed when the callback has seen it.
RingFate ==
    [r \in Reports |->
        IF fate[r] = "lost" \/ (config.on_pinning /\ fate[r] = "freed") THEN "new" ELSE fate[r]]

Kept == INSTANCE ReportBuffer_proofs WITH alive <- life # "destroyed", fate <- RingFate

ReportsInv == FateInv /\ BufferInv /\ Kept!RingInv

LEMMA RingAssumption ==
    /\ Null \notin Reports /\ Limit \in Nat \ {0} /\ MaxDrain \in Nat
  BY DiagnosticAssumption

\* The ring and the profiler settle the fate of reports alike.
LEMMA SameSettle ==
    ASSUME ~config.on_pinning, NEW s, NEW f \in {"freed", "taken"},
           fate' = Buffer!Settle(s, f), UNCHANGED config
    PROVE  RingFate' = Kept!Settle(s, f)
  <1>1. \A r \in Reports : fate'[r] = IF \E i \in DOMAIN s : s[i] = r
                                      THEN IF fate[r] = "queued" THEN f ELSE "broken"
                                      ELSE fate[r]
    BY DEF Buffer!Settle
  <1>2. ASSUME NEW r \in Reports
        PROVE  (IF fate'[r] = "lost" \/ (config'.on_pinning /\ fate'[r] = "freed") THEN "new" ELSE fate'[r])
                 = IF \E i \in DOMAIN s : s[i] = r
                   THEN IF RingFate[r] = "queued" THEN f ELSE "broken" ELSE RingFate[r]
    BY <1>1 DEF RingFate
  <1> QED
    BY <1>2 DEF RingFate, Kept!Settle

LEMMA RingStart == ProfilerInit => Kept!RingInv /\ Kept!Init
  <1> SUFFICES ASSUME ProfilerInit PROVE Kept!RingInv /\ Kept!Init
    OBVIOUS
  <1>1. RingFate = [r \in Reports |-> "new"]
    BY DEF ProfilerInit, RingFate
  <1>2. Kept!Init
    BY <1>1 DEF ProfilerInit, LifeInit, Kept!Init, Kept!Ring
  <1> QED
    BY <1>2, RingAssumption, Kept!RingInit

\* A close has a report of its own to make.
LEMMA CloserReport ==
    ASSUME DiagnosticInv, NEW t \in Threads, Calling(t, "close")
    PROVE  /\ Running /\ life # "destroyed"
           /\ ReportOf(t) \in Reports /\ phase[call[t].id] = "closing"
           /\ call[t].id \in Granules /\ opens[call[t].id] \in 1 .. MaxOpens
           /\ \A u \in Threads \ {t} : Active(u) => call[u].id # call[t].id
           /\ \A u \in Threads \ {t} : Calling(u, "close") => ReportOf(u) # ReportOf(t)
  <1>1. Running /\ life # "destroyed"
    BY OnlyRunning, InvParts DEF Calling, Running
  <1>2. Storage!PhaseInv /\ Storage!AloneInv /\ Storage!UnopenedInv /\ ClientTypeOK
    BY <1>1, InvParts DEF Storage!MemoryInv, Storage!ContractInv
  <1>3. \A u \in Threads : Storage!Active(u) <=> Active(u)
    BY StorageIs DEF Storage!Active, Active
  <1>4. call[t].id \in Granules /\ phase[call[t].id] = "closing"
    BY <1>2, <1>3 DEF Storage!PhaseInv, Storage!Calling, Calling, ClientTypeOK, Calls
  <1>5. opens[call[t].id] \in 0 .. MaxOpens /\ opens[call[t].id] # 0
    BY <1>2, <1>4 DEF ClientTypeOK, Storage!UnopenedInv
  <1>6. opens[call[t].id] \in 1 .. MaxOpens
    BY <1>5, ClientAssumption
  <1>7. \A u \in Threads \ {t} : Active(u) => call[u].id # call[t].id
    BY <1>2, <1>3 DEF Storage!AloneInv, Calling
  <1> QED
    BY <1>1, <1>4, <1>6, <1>7 DEF ReportOf, Reports, Calling

\* What a close that has its granule's state reads there.
LEMMA CloserReads ==
    ASSUME SoundSlots, DiagnosticInv, NEW t \in Threads, pc[t] \in {"close_report", "close_push"},
           ret[t] # 0
    PROVE  heap[ptr[t]].live_count > 0
  <1>1. Active(t) /\ StoragePc(t) = pc[t]
    BY StorageIs DEF Active, ApiLabels
  <1>2. life # "destroyed"
    BY <1>1, OnlyRunning, InvParts DEF Running
  <1>3. StorageInv /\ Storage!MemoryInv /\ Storage!RecordInv
    BY <1>2, InvParts
  <1>4. [u \in Threads |-> StoragePc(u)][t] \in Storage!Detached
    BY <1>1 DEF Storage!Detached
  <1>5. /\ heap[ptr[t]].live_count = Storage!Cardinality(Storage!HeldIn(call[t].id))
        /\ held[call[t].id] = Storage!Cardinality(Storage!HeldIn(call[t].id))
    BY <1>3, <1>4, SameSound, Storage!CloserCounts, ClientAssumption, DiagAssumption, DiagSlotsAssumption
    DEF Storage!RecordInv, DiagType, Storage!DiagType, Record, Storage!Record
  <1>6. call[t].fn = "close"
    BY <1>1, <1>3, <1>4 DEF Storage!MemoryInv, Storage!LabelInv, Storage!Detached
  <1>7. ret[t] = held[call[t].id]
    BY <1>1, <1>3, <1>6 DEF Storage!RecordInv, Storage!VerdictExact
  <1>8. held[call[t].id] \in Nat
    BY <1>1, <1>6, CloserReport, InvParts DEF Calling, ClientTypeOK
  <1> QED
    BY <1>5, <1>7, <1>8

\* How an operation of a close moves it, and what it makes of the report.
LEMMA CloserMoves ==
    ASSUME SoundSlots, DiagnosticInv, NEW t \in Threads, StorageStep(t), call[t].fn = "close",
           pc[t] \in {"close_report", "close_push"} => ret[t] # 0
    PROVE  \/ /\ pc[t] = "close_push" /\ pc'[t] = "close_destroy" /\ UNCHANGED ret /\ failures' = failures
           \/ /\ pc[t] = "close_report" /\ pc'[t] = "close_destroy" /\ UNCHANGED ret
              /\ failures' = failures + 1
           \/ /\ pc[t] \notin Handed \cup {"close_push"} /\ pc'[t] \notin Handed
              /\ pc'[t] \in {"close_report", "close_push"} => ret'[t] # 0
           \/ pc[t] \notin Handed \cup {"close_report", "close_push"} /\ pc'[t] = "close_destroy" /\ ret'[t] = 0
           \/ pc[t] = "close_destroy" /\ pc'[t] = "ret" /\ UNCHANGED ret
  <1>1. /\ SlotStep(t) /\ Storage!SlotStep(t) /\ Running /\ PcIsFun /\ PcIsFun'
        /\ pc[t] \notin ApiLabels \cup {"idle", "ret"} /\ pc'[t] \notin ApiLabels \cup {"idle"}
    BY StorageStepMoves, InvParts
  <1>2. StorageInv /\ Storage!MemoryInv /\ Storage!LabelInv /\ StoragePc(t) = pc[t] /\ ClientTypeOK
    BY <1>1, InvParts, StorageIs DEF Running
  <1>3. ASSUME pc'[t] = "ret" PROVE pc[t] = "close_destroy"
    <2>1. [u \in Threads |-> StoragePc(u)]'[t] = "ret"
      BY <1>3, StorageIsNext DEF ApiLabels
    <2>2. Storage!CloseDestroy(t)
      BY <1>1, <1>2, <2>1, SameSound, Storage!CloserReturns, ClientAssumption, DiagAssumption, DiagSlotsAssumption
      DEF DiagType, Storage!DiagType, Record, Storage!Record
    <2> QED
      BY <1>2, <2>2 DEF Storage!CloseDestroy
  <1> USE <1>1, <1>2, <1>3 DEF PcIsFun, Goto, Answer, Handed, Counted, ApiLabels, ClientTypeOK
  <1>4. CASE OpenClaim(t) \/ OpenCreate(t) \/ OpenRelease(t)
    <2>1. pc[t] \in {"open_cas", "open_create", "open_release"}
      BY <1>4 DEF OpenClaim, OpenCreate, OpenRelease
    <2> QED
      BY <2>1 DEF Storage!LabelInv
  <1>5. CASE FindOccupied(t)  BY <1>5 DEF FindOccupied
  <1>6. CASE FindDiag(t)      BY <1>6 DEF FindDiag
  <1>7. CASE FindId(t)        BY <1>7 DEF FindId, AfterFind
  <1>8. CASE AllocAdd(t) \/ DeallocMark(t)
    <2>1. pc[t] \in {"add_alloc", "mark_freed"}
      BY <1>8 DEF AllocAdd, DeallocMark
    <2> QED
      BY <2>1 DEF Storage!LabelInv
  <1>9. CASE CloseTake(t)      BY <1>9 DEF CloseTake
  <1>10. CASE CloseRelease(t)  BY <1>10 DEF CloseRelease
  <1>11. CASE CloseLoad(t)     BY <1>11 DEF CloseLoad
  <1>12. CASE CloseReport(t)
    <2>1. heap[ptr[t]].live_count > 0
      BY <1>12, CloserReads DEF CloseReport
    <2> QED
      BY <1>12, <2>1 DEF CloseReport, MayFail
  <1>13. CASE ClosePush(t)     BY <1>13 DEF ClosePush
  <1>14. CASE CloseDestroy(t)  BY <1>14 DEF CloseDestroy
  <1> QED
    BY <1>4, <1>5, <1>6, <1>7, <1>8, <1>9, <1>10, <1>11, <1>12, <1>13, <1>14 DEF SlotStep

\* Only reports that are in the ring are settled.
LEMMA Settling ==
    ASSUME Kept!RingInv, FateInv, life # "destroyed", NEW n \in 0 .. count,
           NEW f \in {"freed", "taken"}
    PROVE  LET s == Buffer!Settle(Buffer!Oldest(n), f)
           IN  /\ s \in [Reports -> {"new", "queued", "taken", "freed", "lost"}]
               /\ \A r \in Reports : s[r] = fate[r] \/ (fate[r] = "queued" /\ s[r] = f)
  <1> DEFINE s == Buffer!Settle(Buffer!Oldest(n), f)
  <1>1. ASSUME NEW r \in Reports, NEW i \in DOMAIN Buffer!Oldest(n), Buffer!Oldest(n)[i] = r
        PROVE  fate[r] = "queued"
    <2>1. i \in 1 .. n /\ reports[Kept!At(i - 1)] = r
      BY <1>1 DEF Buffer!Oldest, Buffer!At, Kept!At
    <2>2. count \in Nat
      BY RingAssumption DEF Kept!RingInv
    <2>3. i - 1 \in 0 .. count - 1
      BY <2>1, <2>2
    <2>4. RingFate[r] = "queued"
      BY <2>1, <2>3 DEF Kept!RingInv
    <2> QED
      BY <2>4 DEF RingFate
  <1>2. \A r \in Reports : s[r] = IF \E i \in DOMAIN Buffer!Oldest(n) : Buffer!Oldest(n)[i] = r
                                  THEN IF fate[r] = "queued" THEN f ELSE "broken" ELSE fate[r]
    BY DEF Buffer!Settle
  <1>3. \A r \in Reports : s[r] = fate[r] \/ (fate[r] = "queued" /\ s[r] = f)
    BY <1>1, <1>2
  <1>4. fate \in [Reports -> {"new", "queued", "taken", "freed", "lost"}]
    BY DEF FateInv
  <1>5. \A r \in Reports : s[r] \in {"new", "queued", "taken", "freed", "lost"}
    BY <1>3, <1>4
  <1>6. s = [r \in Reports |-> s[r]]
    BY DEF Buffer!Settle
  <1> QED
    BY <1>3, <1>5, <1>6

\* The profiler's use of the ring is the ring's own.
LEMMA RingPush ==
    ASSUME ~config.on_pinning, life # "destroyed", UNCHANGED lifeVars, NEW r \in Reports, Buffer!Push(r)
    PROVE  Kept!Push(r)
  <1> DEFINE drop == IF count = Limit THEN 1 ELSE 0
             s    == Buffer!Settle(Buffer!Oldest(drop), "freed")
             k    == Kept!Settle(Kept!Oldest(drop), "freed")
  <1>1. /\ fate[r] = "new" /\ fate' = [s EXCEPT ![r] = "queued"] /\ UNCHANGED config
        /\ tail' = (tail + drop) % Limit /\ count' = count - drop + 1
        /\ reports' = [reports EXCEPT ![head] = r] /\ head' = (head + 1) % Limit
        /\ UNCHANGED <<answer, life>>
    BY DEF Buffer!Push, lifeVars
  <1>2. Buffer!Oldest(drop) = Kept!Oldest(drop)
    BY DEF Buffer!Oldest, Kept!Oldest, Buffer!At, Kept!At
  <1>3. \A q \in Reports : s[q] = IF \E i \in DOMAIN Kept!Oldest(drop) : Kept!Oldest(drop)[i] = q
                                  THEN IF fate[q] = "queued" THEN "freed" ELSE "broken" ELSE fate[q]
    BY <1>2 DEF Buffer!Settle
  <1>4. \A q \in Reports : k[q] = IF \E i \in DOMAIN Kept!Oldest(drop) : Kept!Oldest(drop)[i] = q
                                  THEN IF RingFate[q] = "queued" THEN "freed" ELSE "broken" ELSE RingFate[q]
    BY DEF Kept!Settle
  <1>5. DOMAIN s = Reports /\ DOMAIN k = Reports /\ k = [q \in Reports |-> k[q]]
    BY DEF Buffer!Settle, Kept!Settle
  <1> HIDE DEF s, k, drop
  <1>6. \A q \in Reports : fate'[q] = IF q = r THEN "queued" ELSE s[q]
    BY <1>1, <1>5
  <1>7. \A q \in Reports : RingFate'[q] = IF q = r THEN "queued" ELSE k[q]
    BY <1>1, <1>3, <1>4, <1>6 DEF RingFate
  <1>8. RingFate' = [q \in Reports |-> RingFate'[q]]
    BY DEF RingFate
  <1>9. RingFate' = [k EXCEPT ![r] = "queued"]
    BY <1>5, <1>7, <1>8
  <1>10. RingFate[r] = "new"
    BY <1>1 DEF RingFate
  <1> QED
    BY <1>1, <1>9, <1>10 DEF Kept!Push, drop, k

LEMMA RingDrain ==
    ASSUME ~config.on_pinning, life # "destroyed", UNCHANGED lifeVars, NEW max, Buffer!Drain(max)
    PROVE  Kept!Drain(max)
  <1> DEFINE n == IF count < max THEN count ELSE max
  <1>1. /\ max > 0 /\ answer' = Buffer!Oldest(n) /\ fate' = Buffer!Settle(Buffer!Oldest(n), "taken")
        /\ reports' = [j \in Buffer!Ring |-> IF \E i \in 0 .. n - 1 : Buffer!At(i) = j
                                             THEN Null ELSE reports[j]]
        /\ tail' = Buffer!At(n) /\ count' = count - n
        /\ UNCHANGED <<head, life, config>>
    BY DEF Buffer!Drain, lifeVars
  <1>2. /\ Buffer!Oldest(n) = Kept!Oldest(n) /\ Buffer!Ring = Kept!Ring
        /\ \A i : Buffer!At(i) = Kept!At(i)
    BY DEF Buffer!Oldest, Kept!Oldest, Buffer!At, Kept!At, Buffer!Ring, Kept!Ring
  <1>3. RingFate' = Kept!Settle(Buffer!Oldest(n), "taken")
    BY <1>1, SameSettle
  <1> QED
    BY <1>1, <1>2, <1>3 DEF Kept!Drain

\* What becomes of the reports when one close moves: the others' stay what they are,
\* up to what the ring does with those that are in it.
OthersKept(t) ==
    /\ fate' \in [Reports -> {"new", "queued", "taken", "freed", "lost"}]
    /\ \A r \in Reports \ {ReportOf(t)} :
          fate'[r] = fate[r] \/ (fate[r] = "queued" /\ fate'[r] \in {"freed", "taken"})

\* A close hands its report over once, when it goes from making it to destroying
\* the granule's state.
LEMMA Handing ==
    ASSUME SoundSlots, DiagnosticInv, ReportsInv, NEW t \in Threads, StorageStep(t),
           Calling(t, "close")
    PROVE  /\ OthersKept(t)
           /\ (~Drainable(t) /\ pc[t] \in {"close_report", "close_push"}) \/ fate' = fate
           /\ pc[t] = "close_push" => fate'[ReportOf(t)] \in {"queued", "freed"}
           /\ pc[t] = "close_report" /\ pc'[t] = "close_destroy" =>
                 fate'[ReportOf(t)] = "lost" /\ failures' > 0
           /\ pc[t] = "close_report" /\ pc'[t] # "close_destroy" => fate' = fate
           /\ [Kept!Next]_(Kept!vars)
           /\ config.on_pinning => UNCHANGED count
  <1> DEFINE r == ReportOf(t)
  <1>1. /\ r \in Reports /\ Running /\ life # "destroyed" /\ life = "running"
        /\ HandOver(t) /\ UNCHANGED <<config, life>> /\ UNCHANGED lifeVars
        /\ PcIsFun /\ call[t].fn = "close"
    BY CloserReport, StorageStepMoves, InvParts DEF StorageStep, lifeVars, Running, Calling
  <1>2. /\ FateInv /\ Kept!RingInv /\ fate \in [Reports -> {"new", "queued", "taken", "freed", "lost"}]
        /\ failures \in Nat
    BY <1>1, InvParts DEF ReportsInv, FateInv, Storage!DiagTypeOK
  <1>3. pc[t] \in {"close_report", "close_push"} => ret[t] # 0 /\ fate[r] = "new"
    BY <1>2 DEF FateInv, Drainable, Handed, Counted
  <1>4. ASSUME UNCHANGED <<reports, count, head, tail, answer>>, fate' = [fate EXCEPT ![r] = "freed"],
               config.on_pinning, fate[r] = "new"
        PROVE  UNCHANGED Kept!vars
    <2>1. \A q \in Reports : (IF fate'[q] = "lost" \/ (config'.on_pinning /\ fate'[q] = "freed") THEN "new" ELSE fate'[q])
                              = (IF fate[q] = "lost" \/ (config.on_pinning /\ fate[q] = "freed") THEN "new" ELSE fate[q])
      BY <1>1, <1>2, <1>4
    <2>2. RingFate' = RingFate
      BY <2>1 DEF RingFate
    <2> QED
      BY <1>1, <1>4, <2>2 DEF Kept!vars, Kept!ringVars
  <1>5. ASSUME UNCHANGED <<reports, count, head, tail, answer>>, fate' = [fate EXCEPT ![r] = "lost"],
               fate[r] = "new"
        PROVE  UNCHANGED Kept!vars
    <2>1. \A q \in Reports : (IF fate'[q] = "lost" \/ (config'.on_pinning /\ fate'[q] = "freed") THEN "new" ELSE fate'[q])
                              = (IF fate[q] = "lost" \/ (config.on_pinning /\ fate[q] = "freed") THEN "new" ELSE fate[q])
      BY <1>1, <1>2, <1>5
    <2>2. RingFate' = RingFate
      BY <2>1 DEF RingFate
    <2> QED
      BY <1>1, <1>5, <2>2 DEF Kept!vars, Kept!ringVars
  <1>6. CASE pc[t] = "close_push" /\ config.on_pinning
    <2>1. fate' = [fate EXCEPT ![r] = "freed"] /\ UNCHANGED <<reports, count, head, tail, answer>>
      BY <1>1, <1>6 DEF HandOver, ReportOf
    <2>2. OthersKept(t) /\ fate'[r] = "freed"
      BY <1>1, <1>2, <2>1 DEF OthersKept
    <2> QED
      BY <1>3, <1>4, <1>6, <2>1, <2>2 DEF Drainable
  <1>7. CASE pc[t] = "close_push" /\ ~config.on_pinning
    <2>1. Buffer!Push(r)
      BY <1>1, <1>7 DEF HandOver, ReportOf
    <2>2. Kept!Push(r)
      BY <1>1, <1>7, <2>1, RingPush
    <2> DEFINE drop == IF count = Limit THEN 1 ELSE 0
               s    == Buffer!Settle(Buffer!Oldest(drop), "freed")
    <2>3. fate' = [s EXCEPT ![r] = "queued"]
      BY <2>1 DEF Buffer!Push
    <2>4. drop \in 0 .. count
      BY <1>2, RingAssumption DEF Kept!RingInv
    <2>5. /\ s \in [Reports -> {"new", "queued", "taken", "freed", "lost"}]
          /\ \A q \in Reports : s[q] = fate[q] \/ (fate[q] = "queued" /\ s[q] = "freed")
      BY <1>1, <1>2, <2>4, Settling
    <2> HIDE DEF s, drop
    <2>6. OthersKept(t) /\ fate'[r] = "queued"
      BY <1>1, <2>3, <2>5 DEF OthersKept
    <2> QED
      BY <1>1, <1>3, <1>7, <2>2, <2>6 DEF Kept!Next, Drainable
  <1>8. CASE pc[t] = "close_report" /\ pc'[t] = "close_destroy"
    <2>1. fate' = [fate EXCEPT ![r] = "lost"] /\ UNCHANGED <<reports, count, head, tail, answer>>
      BY <1>1, <1>8 DEF HandOver, ReportOf
    <2>2. OthersKept(t) /\ fate'[r] = "lost"
      BY <1>1, <1>2, <2>1 DEF OthersKept
    <2>3. failures' = failures + 1
      BY <1>1, <1>3, <1>8, CloserMoves DEF Handed
    <2> QED
      BY <1>2, <1>3, <1>5, <1>8, <2>1, <2>2, <2>3 DEF Drainable
  <1>9. CASE pc[t] # "close_push" /\ ~(pc[t] = "close_report" /\ pc'[t] = "close_destroy")
    <2>1. UNCHANGED bufVars
      BY <1>1, <1>9 DEF HandOver
    <2>2. OthersKept(t) /\ fate' = fate
      BY <1>2, <2>1 DEF OthersKept, bufVars
    <2>3. UNCHANGED Kept!vars
      BY <1>1, <2>1 DEF bufVars, RingFate, Kept!vars, Kept!ringVars
    <2> QED
      BY <1>9, <2>1, <2>2, <2>3 DEF bufVars
  <1> QED
    BY <1>6, <1>7, <1>8, <1>9

\* Any other operation of the storage leaves the reports alone.
LEMMA NotHanding ==
    ASSUME DiagnosticInv, NEW t \in Threads, StorageStep(t), ~Calling(t, "close")
    PROVE  UNCHANGED bufVars /\ UNCHANGED Kept!vars
  <1>1. /\ Running /\ HandOver(t) /\ UNCHANGED <<config, life>> /\ Active(t) /\ life # "destroyed"
        /\ StoragePc(t) = pc[t]
    BY StorageStepMoves, StorageIs DEF StorageStep, StorageMove, lifeVars, Running
  <1>2. Storage!LabelInv
    BY <1>1, InvParts
  <1>3. pc[t] \notin {"close_push", "close_report"}
    BY <1>1, <1>2 DEF Storage!LabelInv, Storage!Detached, Calling
  <1>4. UNCHANGED bufVars
    BY <1>1, <1>3 DEF HandOver
  <1> QED
    BY <1>1, <1>4 DEF bufVars, RingFate, Kept!vars, Kept!ringVars

LEMMA RingKept ==
    ASSUME Kept!RingInv, [Kept!Next]_(Kept!vars) PROVE Kept!RingInv'
  BY RingAssumption, Kept!RingStep

LEMMA FailuresGrow ==
    ASSUME NEW t \in Threads, SlotStep(t), failures \in Nat
    PROVE  failures' \in Nat /\ failures' >= failures
  <1> USE DEF MayFail
  <1>1. failures' = failures \/ failures' = failures + 1
    BY DEF SlotStep, OpenClaim, OpenCreate, OpenRelease, FindOccupied, FindDiag, FindId,
           AllocAdd, DeallocMark, CloseTake, CloseRelease, CloseLoad, CloseReport, ClosePush,
           CloseDestroy
  <1> QED
    BY <1>1

\* The invariant of the fates, report by report and close by close.
FateOf(g, n) ==
    /\ (n > opens[g] \/ (n = opens[g] /\ phase[g] \in {"opening", "open"})) => fate[<<g, n>>] = "new"
    /\ fate[<<g, n>>] = "lost" => failures > 0

FateAt(t) ==
    Calling(t, "close") =>
        /\ fate[ReportOf(t)] = "new" <=> (pc[t] \notin Handed \/ Drainable(t))
        /\ pc[t] \in {"close_report", "close_push"} => ~Drainable(t)

LEMMA FateInvIs ==
    FateInv <=> /\ fate \in [Reports -> {"new", "queued", "taken", "freed", "lost"}]
                /\ \A g \in Granules, n \in 1 .. MaxOpens : FateOf(g, n)
                /\ \A t \in Threads : FateAt(t)
  BY DEF FateInv, FateOf, FateAt

LEMMA FateInvIsNext ==
    (FateInv <=> /\ fate \in [Reports -> {"new", "queued", "taken", "freed", "lost"}]
                 /\ \A g \in Granules, n \in 1 .. MaxOpens : FateOf(g, n)
                 /\ \A t \in Threads : FateAt(t))'
  BY FateInvIs, PTL

LEMMA FateStorage ==
    ASSUME SoundSlots, DiagnosticInv, ReportsInv, NEW t \in Threads, StorageStep(t)
    PROVE  FateInv'
  <1>1. /\ UNCHANGED <<call, opens, phase>>
        /\ \A u \in Threads \ {t} : pc'[u] = pc[u] /\ ret'[u] = ret[u]
        /\ SlotStep(t) /\ life # "destroyed" /\ pc[t] # "idle" /\ pc'[t] # "idle"
    BY StorageStepMoves DEF bookVars, Running
  <1>2. failures \in Nat /\ failures' \in Nat /\ failures' >= failures
    BY <1>1, InvParts, FailuresGrow DEF Storage!DiagTypeOK
  <1>3. /\ fate \in [Reports -> {"new", "queued", "taken", "freed", "lost"}]
        /\ \A g \in Granules, n \in 1 .. MaxOpens : FateOf(g, n)
        /\ \A u \in Threads : FateAt(u)
    BY FateInvIs DEF ReportsInv
  <1>4. \A u \in Threads : /\ ReportOf(u)' = ReportOf(u) /\ Calling(u, "close")' = Calling(u, "close")
    BY <1>1 DEF ReportOf, Calling, Active
  <1>5. \A g \in Granules, n \in 1 .. MaxOpens : <<g, n>> \in Reports
    BY DEF Reports
  <1>6. CASE Calling(t, "close")
    <2>1. /\ OthersKept(t)
          /\ (~Drainable(t) /\ pc[t] \in {"close_report", "close_push"}) \/ fate' = fate
          /\ pc[t] = "close_push" => fate'[ReportOf(t)] \in {"queued", "freed"}
          /\ pc[t] = "close_report" /\ pc'[t] = "close_destroy" =>
                fate'[ReportOf(t)] = "lost" /\ failures' > 0
          /\ pc[t] = "close_report" /\ pc'[t] # "close_destroy" => fate' = fate
      BY <1>6, Handing
    <2>2. /\ phase[call[t].id] = "closing" /\ ReportOf(t) \in Reports
          /\ \A u \in Threads \ {t} : Calling(u, "close") => ReportOf(u) # ReportOf(t)
      BY <1>6, CloserReport
    <2>3. fate' \in [Reports -> {"new", "queued", "taken", "freed", "lost"}]
      BY <2>1 DEF OthersKept
    <2>4. \A r \in Reports \ {ReportOf(t)} : /\ fate'[r] = "new" <=> fate[r] = "new"
                                             /\ fate'[r] = "lost" <=> fate[r] = "lost"
      BY <2>1 DEF OthersKept
    <2>5. fate'[ReportOf(t)] = "lost" => fate[ReportOf(t)] = "lost" \/ failures' > 0
      BY <2>1
    <2>6. ASSUME NEW g \in Granules, NEW n \in 1 .. MaxOpens PROVE FateOf(g, n)'
      <3>1. FateOf(g, n) /\ <<g, n>> \in Reports
        BY <1>3, <1>5
      <3>2. CASE <<g, n>> = ReportOf(t)
        <4>1. g = call[t].id /\ n = opens[g]
          BY <3>2 DEF ReportOf
        <4>2. ~(n > opens[g])
          <5>1. opens[g] \in 0 .. MaxOpens
            BY InvParts DEF ClientTypeOK
          <5> QED
            BY <4>1, <5>1
        <4> QED
          BY <1>1, <1>2, <2>2, <2>5, <3>1, <3>2, <4>1, <4>2 DEF FateOf
      <3>3. CASE <<g, n>> # ReportOf(t)
        BY <1>1, <1>2, <2>4, <3>1, <3>3 DEF FateOf
      <3> QED
        BY <3>2, <3>3
    <2>7. ASSUME NEW u \in Threads PROVE FateAt(u)'
      <3>1. CASE u = t
        <4>1. FateAt(t)
          BY <1>3
        <4>2. pc[t] \in {"close_report", "close_push"} => ret[t] # 0
          BY <1>6, <4>1 DEF FateAt, Drainable
        <4>3. call[t].fn = "close"
          BY <1>6 DEF Calling
        <4>4. CASE pc[t] = "close_push" /\ pc'[t] = "close_destroy" /\ UNCHANGED ret
          BY <1>4, <1>6, <2>1, <3>1, <4>2, <4>4 DEF FateAt, Drainable, Handed
        <4>5. CASE pc[t] = "close_report" /\ pc'[t] = "close_destroy" /\ UNCHANGED ret
          BY <1>4, <1>6, <2>1, <3>1, <4>2, <4>5 DEF FateAt, Drainable, Handed
        <4>6. CASE /\ pc[t] \notin Handed \cup {"close_push"} /\ pc'[t] \notin Handed
                   /\ pc'[t] \in {"close_report", "close_push"} => ret'[t] # 0
          <5>1. fate' = fate
            BY <2>1, <4>6 DEF Handed
          <5> QED
            BY <1>4, <1>6, <3>1, <4>1, <4>6, <5>1 DEF FateAt, Drainable
        <4>7. CASE /\ pc[t] \notin Handed \cup {"close_report", "close_push"} /\ pc'[t] = "close_destroy"
                   /\ ret'[t] = 0
          <5>1. fate' = fate
            BY <2>1, <4>7
          <5> QED
            BY <1>4, <1>6, <3>1, <4>1, <4>7, <5>1 DEF FateAt, Drainable
        <4>8. CASE pc[t] = "close_destroy" /\ pc'[t] = "ret" /\ UNCHANGED ret
          <5>1. fate' = fate
            BY <2>1, <4>8
          <5> QED
            BY <1>4, <1>6, <3>1, <4>1, <4>8, <5>1 DEF FateAt, Drainable, Handed
        <4> QED
          BY <4>2, <4>3, <4>4, <4>5, <4>6, <4>7, <4>8, CloserMoves
      <3>2. CASE u # t
        <4>1. FateAt(u) /\ pc'[u] = pc[u] /\ ret'[u] = ret[u]
          BY <1>1, <1>3, <3>2
        <4>2. ASSUME Calling(u, "close") PROVE fate'[ReportOf(u)] = "new" <=> fate[ReportOf(u)] = "new"
          BY <2>2, <2>4, <3>2, <4>2, CloserReport
        <4> QED
          BY <1>4, <4>1, <4>2 DEF FateAt, Drainable
      <3> QED
        BY <3>1, <3>2
    <2> QED
      BY <2>3, <2>6, <2>7, FateInvIsNext
  <1>7. CASE ~Calling(t, "close")
    <2>1. fate' = fate
      BY <1>7, NotHanding DEF bufVars
    <2>2. ASSUME NEW g \in Granules, NEW n \in 1 .. MaxOpens PROVE FateOf(g, n)'
      <3>1. failures > 0 => failures' > 0
        BY <1>2
      <3>2. FateOf(g, n) /\ phase' = phase /\ opens' = opens
        BY <1>1, <1>3
      <3> QED
        BY <2>1, <3>1, <3>2, Zenon DEF FateOf
    <2>3. ASSUME NEW u \in Threads PROVE FateAt(u)'
      <3>1. Calling(u, "close") => pc'[u] = pc[u] /\ ret'[u] = ret[u]
        BY <1>1, <1>7
      <3> QED
        BY <1>3, <1>4, <2>1, <3>1 DEF FateAt, Drainable
    <2> QED
      BY <1>3, <2>1, <2>2, <2>3, FateInvIsNext
  <1> QED
    BY <1>6, <1>7

\* What a step makes of the reports when it moves no close: those in the ring may
\* be freed or taken.
AllKept ==
    /\ fate' \in [Reports -> {"new", "queued", "taken", "freed", "lost"}]
    /\ \A r \in Reports : fate'[r] = fate[r] \/ (fate[r] = "queued" /\ fate'[r] \in {"freed", "taken"})
    /\ failures' = failures

LEMMA FateStays ==
    ASSUME DiagnosticInv, FateInv, AllKept, UNCHANGED clientVars
    PROVE  FateInv'
  <1>1. /\ fate \in [Reports -> {"new", "queued", "taken", "freed", "lost"}]
        /\ \A g \in Granules, n \in 1 .. MaxOpens : FateOf(g, n)
        /\ \A u \in Threads : FateAt(u)
    BY FateInvIs
  <1>2. UNCHANGED <<pc, call, ret, phase, opens, failures>>
    BY DEF clientVars, bookVars, AllKept
  <1>3. \A r \in Reports : /\ fate'[r] = "new" <=> fate[r] = "new"
                           /\ fate'[r] = "lost" <=> fate[r] = "lost"
    BY DEF AllKept
  <1>4. ASSUME NEW g \in Granules, NEW n \in 1 .. MaxOpens PROVE FateOf(g, n)'
    <2>1. <<g, n>> \in Reports /\ FateOf(g, n)
      BY <1>1 DEF Reports
    <2> QED
      BY <1>2, <1>3, <2>1 DEF FateOf
  <1>5. ASSUME NEW t \in Threads PROVE FateAt(t)'
    <2>1. /\ Calling(t, "close")' = Calling(t, "close") /\ ReportOf(t)' = ReportOf(t)
          /\ Drainable(t)' = Drainable(t)
      BY <1>2 DEF Calling, Active, ReportOf, Drainable
    <2>2. Calling(t, "close") => ReportOf(t) \in Reports
      BY CloserReport
    <2> QED
      BY <1>1, <1>2, <1>3, <2>1, <2>2 DEF FateAt
  <1> QED
    BY <1>4, <1>5, FateInvIsNext DEF AllKept

\* A call that opens starts the story of a new report, one that closes makes it due.
LEMMA FateCall ==
    ASSUME DiagnosticInv, FateInv, NEW t \in Threads, ProfilerCall(t)
    PROVE  FateInv'
  <1>1. /\ fate \in [Reports -> {"new", "queued", "taken", "freed", "lost"}]
        /\ \A g \in Granules, n \in 1 .. MaxOpens : FateOf(g, n)
        /\ \A u \in Threads : FateAt(u)
    BY FateInvIs
  <1>2. PICK g \in Granules : ApiCall(t, g, "open_cas", "find_occupied")
    BY DEF ProfilerCall
  <1>3. UNCHANGED <<fate, failures>> /\ Running /\ life # "destroyed"
    BY DEF ProfilerCall, bufVars, Running
  <1>4. /\ PcIsFun /\ DOMAIN call = Threads /\ phase \in [Granules -> {"closed", "opening", "open", "closing"}]
        /\ opens \in [Granules -> 0 .. MaxOpens]
    BY InvParts DEF ClientTypeOK
  <1>5. Storage!UnopenedInv
    BY <1>3, InvParts DEF Storage!MemoryInv, Storage!ContractInv
  <1>6. \A u \in Threads : Calling(u, "close") => phase[call[u].id] = "closing" /\ call[u].id \in Granules
    BY CloserReport
  <1>7. ASSUME NEW fn, NEW l, Enter(t, fn, g, l), l # "idle"
        PROVE  /\ pc'[t] = l /\ call'[t] = [fn |-> fn, id |-> g] /\ pc[t] = "idle" /\ UNCHANGED ret
               /\ \A u \in Threads \ {t} : pc'[u] = pc[u] /\ call'[u] = call[u]
    BY <1>4, <1>7 DEF Enter, PcIsFun
  <1>8. CASE CallOpen(t, g, "open_cas")
    <2>1. /\ phase[g] = "closed" /\ phase' = [phase EXCEPT ![g] = "opening"]
          /\ opens' = [opens EXCEPT ![g] = @ + 1] /\ Enter(t, "open", g, "open_cas")
      BY <1>8 DEF CallOpen
    <2>2. ASSUME NEW h \in Granules, NEW n \in 1 .. MaxOpens PROVE FateOf(h, n)'
      <3>1. CASE h = g
        <4>1. phase'[h] = "opening" /\ opens'[h] = opens[h] + 1 /\ opens[h] \in Nat
          BY <1>4, <2>1, <3>1, ClientAssumption
        <4>2. n >= opens'[h] => n > opens[h]
          BY <4>1
        <4>3. n > opens'[h] \/ n = opens'[h] => n > opens[h]
          BY <4>1, <4>2
        <4>4. n > opens[h] => fate[<<h, n>>] = "new"
          BY <1>1 DEF FateOf
        <4>5. fate[<<h, n>>] = "lost" => failures > 0
          BY <1>1 DEF FateOf
        <4> QED
          BY <1>3, <4>3, <4>4, <4>5, Zenon DEF FateOf
      <3>2. CASE h # g
        <4>1. phase'[h] = phase[h] /\ opens'[h] = opens[h]
          BY <1>4, <2>1, <3>2
        <4> QED
          BY <1>1, <1>3, <4>1 DEF FateOf
      <3> QED
        BY <3>1, <3>2
    <2>3. ASSUME NEW u \in Threads PROVE FateAt(u)'
      <3>1. CASE u = t
        <4>1. call'[t].fn = "open"
          BY <1>4, <2>1 DEF Enter
        <4> QED
          BY <3>1, <4>1 DEF FateAt, Calling
      <3>2. CASE u # t
        <4>1. pc'[u] = pc[u] /\ call'[u] = call[u] /\ ret' = ret
          BY <1>7, <2>1, <3>2
        <4>2. Calling(u, "close") => opens'[call[u].id] = opens[call[u].id]
          BY <1>4, <1>6, <2>1
        <4>3. FateAt(u)
          BY <1>1
        <4> QED
          BY <1>3, <4>1, <4>2, <4>3 DEF FateAt, Calling, Active, ReportOf, Drainable
      <3> QED
        BY <3>1, <3>2
    <2> QED
      BY <1>1, <1>3, <2>2, <2>3, FateInvIsNext
  <1>9. CASE CallClose(t, g, "find_occupied")
    <2>1. /\ phase[g] = "open" /\ phase' = [phase EXCEPT ![g] = "closing"]
          /\ UNCHANGED opens /\ Enter(t, "close", g, "find_occupied")
      BY <1>9 DEF CallClose
    <2>2. ASSUME NEW h \in Granules, NEW n \in 1 .. MaxOpens PROVE FateOf(h, n)'
      <3>1. phase'[h] \in {"opening", "open"} => phase[h] \in {"opening", "open"}
        BY <1>4, <2>1
      <3>2. FateOf(h, n)
        BY <1>1
      <3> QED
        BY <1>3, <2>1, <3>1, <3>2, Zenon DEF FateOf
    <2>3. opens[g] \in 1 .. MaxOpens
      <3>1. opens[g] \in 0 .. MaxOpens /\ opens[g] # 0
        BY <1>4, <1>5, <2>1 DEF Storage!UnopenedInv
      <3> QED
        BY <3>1, ClientAssumption
    <2>4. fate[<<g, opens[g]>>] = "new"
      BY <1>1, <2>1, <2>3 DEF FateOf
    <2>5. ASSUME NEW u \in Threads PROVE FateAt(u)'
      <3>1. CASE u = t
        <4>1. pc'[t] = "find_occupied" /\ call'[t].id = g
          BY <1>4, <2>1 DEF Enter, PcIsFun
        <4>2. ReportOf(t)' = <<g, opens[g]>>
          BY <2>1, <4>1 DEF ReportOf
        <4>3. fate'[ReportOf(t)'] = "new" /\ pc'[t] \notin Handed
          BY <1>3, <2>4, <4>1, <4>2 DEF Handed, Counted
        <4> QED
          BY <3>1, <4>1, <4>3 DEF FateAt
      <3>2. CASE u # t
        <4>1. pc'[u] = pc[u] /\ call'[u] = call[u] /\ ret' = ret
          BY <1>7, <2>1, <3>2
        <4>2. FateAt(u)
          BY <1>1
        <4> QED
          BY <1>3, <2>1, <4>1, <4>2 DEF FateAt, Calling, Active, ReportOf, Drainable
      <3> QED
        BY <3>1, <3>2
    <2> QED
      BY <1>1, <1>3, <2>2, <2>5, FateInvIsNext
  <1>10. ASSUME UNCHANGED <<phase, opens>>, NEW fn \in {"alloc", "dealloc"}, NEW l, l # "idle",
                Enter(t, fn, g, l)
         PROVE  FateInv'
    <2>1. ASSUME NEW h \in Granules, NEW n \in 1 .. MaxOpens PROVE FateOf(h, n)'
      BY <1>1, <1>3, <1>10, Zenon DEF FateOf
    <2>2. ASSUME NEW u \in Threads PROVE FateAt(u)'
      <3>1. CASE u = t
        <4>1. call'[t].fn = fn
          BY <1>4, <1>10 DEF Enter
        <4> QED
          BY <3>1, <4>1 DEF FateAt, Calling
      <3>2. CASE u # t
        <4>1. pc'[u] = pc[u] /\ call'[u] = call[u] /\ ret' = ret
          BY <1>7, <1>10, <3>2
        <4>2. FateAt(u)
          BY <1>1
        <4> QED
          BY <1>3, <1>10, <4>1, <4>2 DEF FateAt, Calling, Active, ReportOf, Drainable
      <3> QED
        BY <3>1, <3>2
    <2> QED
      BY <1>1, <1>3, <2>1, <2>2, FateInvIsNext
  <1>11. CASE CallAlloc(t, g, "count_alloc")
    BY <1>10, <1>11 DEF CallAlloc, bookVars
  <1>12. CASE CallDealloc(t, g, "count_dealloc")
    BY <1>10, <1>12 DEF CallDealloc
  <1>13. CASE CallLateDealloc(t, g, "count_dealloc")
    BY <1>10, <1>13 DEF CallLateDealloc
  <1> QED
    BY <1>2, <1>8, <1>9, <1>11, <1>12, <1>13 DEF ApiCall

\* An answer, and the operations that count, come after the report.
LEMMA FateAnswer ==
    ASSUME DiagnosticInv, FateInv, NEW t \in Threads, CountStep(t)
    PROVE  FateInv'
  <1>1. /\ fate \in [Reports -> {"new", "queued", "taken", "freed", "lost"}]
        /\ \A g \in Granules, n \in 1 .. MaxOpens : FateOf(g, n)
        /\ \A u \in Threads : FateAt(u)
    BY FateInvIs
  <1>2. /\ Typed /\ CountingInv /\ PcIsFun
        /\ phase \in [Granules -> {"closed", "opening", "open", "closing"}]
    BY InvParts DEF ClientTypeOK
  <1>3. CASE Count(t)
    <2>1. /\ UNCHANGED <<call, ret, bookVars>> /\ \A u \in Threads \ {t} : pc'[u] = pc[u]
          /\ Active(t) /\ pc'[t] # "idle"
          /\ pc'[t] \in {"find_occupied", "peak_load", "peak_cas", "done"} \cup Totalling
          /\ pc[t] \in {"count_alloc", "count_dealloc", "ret"} \cup Raising \cup Totalling
          /\ pc[t] \in {"count_alloc", "count_dealloc"} <=> pc'[t] = "find_occupied"
          /\ pc[t] = "ret" => pc'[t] \in {"peak_load", "count_total"}
          /\ CountingInv'
      BY <1>2, <1>3, CountFrame DEF Totalling
    <2>2. UNCHANGED <<fate, failures>>
      BY <1>3, CountingStep DEF bufVars, diagVars
    <2>3. \A h \in Granules, n \in 1 .. MaxOpens : FateOf(h, n)'
      BY <1>1, <2>1, <2>2 DEF FateOf, bookVars
    <2>4. ASSUME NEW u \in Threads PROVE FateAt(u)'
      <3>1. /\ Calling(u, "close")' = Calling(u, "close") /\ ReportOf(u)' = ReportOf(u)
            /\ Drainable(u)' = Drainable(u)
        BY <2>1 DEF Calling, Active, ReportOf, Drainable, bookVars
      <3>2. ASSUME Calling(u, "close")
            PROVE  /\ pc'[u] \in Handed <=> pc[u] \in Handed
                   /\ pc'[u] \in {"close_report", "close_push"} => pc[u] = pc'[u]
        <4>1. CASE u = t
          <5>1. call'[t].fn = "close" /\ call[t].fn = "close"
            BY <2>1, <3>2, <4>1 DEF Calling
          <5>2. pc[t] \in {"ret"} \cup Totalling /\ pc'[t] \in {"done"} \cup Totalling
            BY <1>2, <2>1, <5>1 DEF CountingInv, Raising, Totalling
          <5> QED
            BY <4>1, <5>2 DEF Handed, Counted, Totalling
        <4>2. CASE u # t
          BY <2>1, <4>2
        <4> QED
          BY <4>1, <4>2
      <3> QED
        BY <1>1, <2>2, <3>1, <3>2 DEF FateAt
    <2> QED
      BY <1>1, <2>2, <2>3, <2>4, FateInvIsNext
  <1>4. CASE ApiReturn(t)
    <2>1. /\ pc'[t] = "idle" /\ ClientReturn(t) /\ Active(t)
          /\ \A u \in Threads \ {t} : pc'[u] = pc[u] /\ call'[u] = call[u] /\ ret'[u] = ret[u]
      BY <1>2, <1>4, AnswerFrame
    <2>2. UNCHANGED <<fate, failures>>
      BY <1>4, AnswerStep DEF bufVars, ListReturn
    <2>3. /\ UNCHANGED opens
          /\ \/ UNCHANGED phase
             \/ phase' = [phase EXCEPT ![call[t].id] = "closed"]
             \/ phase' = [phase EXCEPT ![call[t].id] = "open"] /\ call[t].fn = "open"
      BY <2>1 DEF ClientReturn
    <2>4. ASSUME call[t].fn = "open" PROVE phase[call[t].id] = "opening"
      <3>1. Storage!PhaseInv
        BY <2>1, OnlyRunning, InvParts DEF Storage!MemoryInv, Storage!ContractInv, Running
      <3>2. Storage!Active(t)
        BY <2>1, StorageIs DEF Storage!Active, Active
      <3> QED
        BY <2>4, <3>1, <3>2 DEF Storage!PhaseInv, Storage!Calling
    <2>5. ASSUME NEW h \in Granules, NEW n \in 1 .. MaxOpens PROVE FateOf(h, n)'
      <3>1. phase'[h] \in {"opening", "open"} => phase[h] \in {"opening", "open"}
        BY <1>2, <2>3, <2>4
      <3> QED
        BY <1>1, <2>2, <2>3, <3>1 DEF FateOf
    <2>6. ASSUME NEW u \in Threads PROVE FateAt(u)'
      BY <1>1, <2>1, <2>2, <2>3 DEF FateAt, Calling, Active, ReportOf, Drainable
    <2> QED
      BY <1>1, <2>2, <2>5, <2>6, FateInvIsNext
  <1> QED
    BY <1>3, <1>4, StepKinds DEF CountStep

\* The end of the profiler: what is still in the ring is freed.
LEMMA RingDestroy ==
    ASSUME DiagnosticInv, ReportsInv, DestroyProfiler
    PROVE  Kept!Destroy /\ AllKept /\ \A r \in Reports : fate'[r] # "queued"
  <1>1. /\ life = "running" /\ life' = "destroyed" /\ UNCHANGED config
        /\ UNCHANGED <<reports, count, head, tail, answer>> /\ failures' = failures
    BY DEF DestroyProfiler, Destroy
  <1>2. Kept!RingInv /\ FateInv /\ BufferInv
    BY DEF ReportsInv
  <1>3. count \in Nat /\ count \in 0 .. count /\ 0 \in 0 .. count
    BY <1>2, RingAssumption DEF Kept!RingInv
  <1>4. fate \in [Reports -> {"new", "queued", "taken", "freed", "lost"}]
    BY <1>2 DEF FateInv
  <1>5. CASE Running /\ ~config.on_pinning
    <2>1. fate' = Buffer!Settle(Buffer!Oldest(count), "freed")
      BY <1>5 DEF DestroyProfiler
    <2>2. Buffer!Oldest(count) = Kept!Oldest(count)
      BY DEF Buffer!Oldest, Kept!Oldest, Buffer!At, Kept!At
    <2>3. RingFate' = Kept!Settle(Kept!Oldest(count), "freed")
      BY <1>1, <1>5, <2>1, <2>2, SameSettle
    <2>4. /\ fate' \in [Reports -> {"new", "queued", "taken", "freed", "lost"}]
          /\ \A r \in Reports : fate'[r] = fate[r] \/ (fate[r] = "queued" /\ fate'[r] = "freed")
      BY <1>1, <1>2, <1>3, <2>1, Settling
    <2>5. ASSUME NEW r \in Reports PROVE fate'[r] # "queued"
      <3>1. CASE fate[r] = "queued"
        <4>1. RingFate[r] = "queued"
          BY <3>1 DEF RingFate
        <4>2. PICK i \in 0 .. count - 1 : reports[Kept!At(i)] = r
          BY <1>1, <1>2, <4>1 DEF Kept!RingInv
        <4>3. i + 1 \in 1 .. count /\ (i + 1) - 1 = i
          BY <1>3
        <4>4. i + 1 \in DOMAIN Buffer!Oldest(count) /\ Buffer!Oldest(count)[i + 1] = r
          BY <4>2, <4>3 DEF Buffer!Oldest, Buffer!At, Kept!At
        <4> QED
          BY <2>1, <3>1, <4>4 DEF Buffer!Settle
      <3>2. CASE fate[r] # "queued"
        BY <2>4, <3>2
      <3> QED
        BY <3>1, <3>2
    <2> QED
      BY <1>1, <2>3, <2>4, <2>5 DEF Kept!Destroy, Kept!ringVars, AllKept
  <1>6. CASE ~(Running /\ ~config.on_pinning)
    <2>1. fate' = fate
      BY <1>6 DEF DestroyProfiler
    <2>2. count = 0
      BY <1>1, <1>2, <1>6 DEF BufferInv, Buffered
    <2>3. ASSUME NEW r \in Reports PROVE fate[r] # "queued"
      <3>1. RingFate[r] # "queued"
        BY <1>1, <1>2, <2>2 DEF Kept!RingInv
      <3> QED
        BY <3>1 DEF RingFate
    <2>4. RingFate' = Kept!Settle(Kept!Oldest(count), "freed")
      <3>1. \A i : i \notin DOMAIN Kept!Oldest(count)
        BY <2>2 DEF Kept!Oldest
      <3>2. RingFate' = RingFate /\ RingFate = [r \in Reports |-> RingFate[r]]
        BY <1>1, <2>1 DEF RingFate
      <3>3. Kept!Settle(Kept!Oldest(count), "freed") = [r \in Reports |-> RingFate[r]]
        BY <3>1 DEF Kept!Settle
      <3> QED
        BY <3>2, <3>3
    <2> QED
      BY <1>1, <1>4, <2>1, <2>3, <2>4 DEF Kept!Destroy, Kept!ringVars, AllKept
  <1> QED
    BY <1>5, <1>6

\* A step that touches neither the reports nor the life of the profiler.
LEMMA RingStutters ==
    ASSUME BufferInv, UNCHANGED bufVars, UNCHANGED lifeVars
    PROVE  UNCHANGED Kept!vars /\ BufferInv'
  BY DEF bufVars, lifeVars, RingFate, Kept!vars, Kept!ringVars, BufferInv, Running, Buffered

\* Every step of the profiler is one of the ring, or none.
LEMMA ReportsNext ==
    ASSUME SoundSlots, DiagnosticInv, ReportsInv, [ProfilerNext]_profVars
    PROVE  ReportsInv' /\ [Kept!Next]_(Kept!vars)
  <1>1. FateInv /\ BufferInv /\ Kept!RingInv
        /\ fate \in [Reports -> {"new", "queued", "taken", "freed", "lost"}]
    BY DEF ReportsInv, FateInv
  <1>2. ASSUME FateInv', BufferInv', [Kept!Next]_(Kept!vars)
        PROVE  ReportsInv' /\ [Kept!Next]_(Kept!vars)
    BY <1>1, <1>2, RingKept DEF ReportsInv
  <1>3. ASSUME NEW t \in Threads, ProfilerCall(t)
        PROVE  FateInv' /\ BufferInv' /\ [Kept!Next]_(Kept!vars)
    BY <1>1, <1>3, FateCall, CallStep, RingStutters
  <1>4. ASSUME NEW t \in Threads, CountStep(t)
        PROVE  FateInv' /\ BufferInv' /\ [Kept!Next]_(Kept!vars)
    <2>1. UNCHANGED bufVars /\ UNCHANGED lifeVars
      BY <1>4, StepKinds, AnswerStep, CountingStep DEF CountStep
    <2> QED
      BY <1>1, <1>4, <2>1, FateAnswer, RingStutters
  <1>5. ASSUME NEW t \in Threads, StorageStep(t)
        PROVE  FateInv' /\ BufferInv' /\ [Kept!Next]_(Kept!vars)
    <2>1. FateInv'
      BY <1>5, FateStorage
    <2>2. Running /\ UNCHANGED lifeVars
      BY <1>5, StorageStepMoves
    <2>3. CASE Calling(t, "close")
      <3>1. [Kept!Next]_(Kept!vars) /\ (config.on_pinning => UNCHANGED count)
        BY <1>5, <2>3, Handing
      <3>2. BufferInv'
        BY <1>1, <2>2, <3>1 DEF BufferInv, Running, Buffered, lifeVars
      <3> QED
        BY <2>1, <3>1, <3>2
    <2>4. CASE ~Calling(t, "close")
      BY <1>1, <1>5, <2>1, <2>2, <2>4, NotHanding, RingStutters
    <2> QED
      BY <2>3, <2>4
  <1>6. CASE MonitorStep
    <2>1. UNCHANGED <<bufVars, clientVars, diagVars>> /\ UNCHANGED lifeVars
      BY <1>6, MonitorSteps
    <2>2. AllKept
      BY <1>1, <2>1 DEF AllKept, bufVars, diagVars
    <2> QED
      BY <1>1, <1>2, <2>1, <2>2, FateStays, RingStutters
  <1>7. CASE DrainReports
    <2>1. /\ Running /\ ~config.on_pinning /\ UNCHANGED <<diagVars, apiVars>> /\ UNCHANGED lifeVars
          /\ life # "destroyed"
      BY <1>7 DEF DrainReports, Running
    <2>2. PICK max \in 1 .. MaxDrain : Buffer!Drain(max)
      BY <1>7 DEF DrainReports
    <2>3. Kept!Drain(max)
      BY <2>1, <2>2, RingDrain
    <2> DEFINE n == IF count < max THEN count ELSE max
    <2>4. n \in 0 .. count
      BY <1>1, RingAssumption DEF Kept!RingInv
    <2>5. fate' = Buffer!Settle(Buffer!Oldest(n), "taken")
      BY <2>2 DEF Buffer!Drain
    <2> HIDE DEF n
    <2>6. AllKept /\ UNCHANGED clientVars
      BY <1>1, <2>1, <2>4, <2>5, Settling DEF AllKept, diagVars, apiVars
    <2>7. BufferInv'
      BY <1>1, <2>1 DEF BufferInv, Running, Buffered, lifeVars
    <2> QED
      BY <1>1, <1>2, <2>3, <2>6, <2>7, FateStays DEF Kept!Next
  <1>8. CASE CreateProfiler
    <2>1. /\ life = "creating" /\ life' \in {"creating", "running", "failed"} /\ UNCHANGED config
          /\ UNCHANGED <<diagVars, bufVars, apiVars>>
      BY <1>8, LifeSteps DEF DestroyProfiler, Destroy, CreateProfiler, CreatePart, CreateFail
    <2>2. AllKept /\ UNCHANGED clientVars
      BY <1>1, <2>1 DEF AllKept, bufVars, diagVars, apiVars
    <2>3. UNCHANGED Kept!vars
      BY <2>1 DEF bufVars, RingFate, Kept!vars, Kept!ringVars
    <2>4. BufferInv'
      BY <1>1, <2>1 DEF BufferInv, Running, bufVars
    <2> QED
      BY <1>1, <1>2, <2>2, <2>3, <2>4, FateStays
  <1>9. CASE DestroyProfiler
    <2>1. UNCHANGED apiVars /\ life' = "destroyed"
      BY <1>9 DEF DestroyProfiler, Destroy
    <2>2. Kept!Destroy /\ AllKept /\ \A r \in Reports : fate'[r] # "queued"
      BY <1>9, RingDestroy
    <2>3. BufferInv' /\ UNCHANGED clientVars
      BY <2>1, <2>2 DEF BufferInv, apiVars
    <2> QED
      BY <1>1, <1>2, <2>2, <2>3, FateStays DEF Kept!Next
  <1>10. CASE UNCHANGED profVars
    <2>1. UNCHANGED bufVars /\ UNCHANGED lifeVars /\ UNCHANGED clientVars /\ UNCHANGED diagVars
      BY <1>10 DEF profVars, apiVars
    <2>2. AllKept
      BY <1>1, <2>1 DEF AllKept, bufVars, diagVars
    <2> QED
      BY <1>1, <1>2, <2>1, <2>2, FateStays, RingStutters
  <1> QED
    BY <1>2, <1>3, <1>4, <1>5, <1>6, <1>7, <1>8, <1>9, <1>10 DEF ProfilerNext, ProfilerStep

LEMMA ReportsInit == ProfilerInit => ReportsInv
  <1> SUFFICES ASSUME ProfilerInit PROVE ReportsInv
    OBVIOUS
  <1>1. /\ fate = [r \in Reports |-> "new"] /\ count = 0 /\ life = "creating"
        /\ \A t \in Threads : pc[t] = "idle"
    BY DEF ProfilerInit, LifeInit, ClientInit
  <1>2. Kept!RingInv
    BY RingStart
  <1>3. FateInv
    BY <1>1 DEF FateInv, Reports, Calling, Active
  <1>4. BufferInv
    BY <1>1 DEF BufferInv
  <1> QED
    BY <1>2, <1>3, <1>4 DEF ReportsInv

\* The invariant of the reports: each is new until its close hands it over, and in
\* the ring exactly while nobody else has it.
THEOREM ReportsCorrect == ASSUME SoundSlots PROVE ProfilerSpec => []ReportsInv
  <1>1. DiagnosticInv /\ ReportsInv /\ [ProfilerNext]_profVars => ReportsInv'
    BY ReportsNext
  <1>2. ProfilerSpec => []DiagnosticInv
    BY DiagnosticCorrect
  <1> QED
    BY <1>1, <1>2, ReportsInit, PTL DEF ProfilerSpec

\* Nothing of the profiler outlives it, and every report has one owner at a time.
THEOREM DeliveryCorrect == ASSUME SoundSlots PROVE ProfilerSpec => []DeliveryInv
  <1>1. DiagnosticInv /\ ReportsInv => DeliveryInv
    BY DEF DiagnosticInv, ReportsInv, DeliveryInv
  <1> QED
    BY <1>1, DiagnosticCorrect, ReportsCorrect, PTL

\* A close that answers "pinned" has made its report, unless memory ran out, and one
\* that answers "drainable" has made none.
THEOREM PinnedReported == ASSUME SoundSlots PROVE ProfilerSpec => []ReportIfPinned
  <1>1. ReportsInv /\ DiagnosticInv => ReportIfPinned
    <2> SUFFICES ASSUME ReportsInv, DiagnosticInv, NEW t \in Threads,
                        call[t].fn = "close", pc[t] \in Counted
                 PROVE  /\ Drainable(t) => fate[ReportOf(t)] = "new"
                        /\ ~Drainable(t) => fate[ReportOf(t)] # "new"
                        /\ fate[ReportOf(t)] = "lost" => failures > 0
      BY DEF ReportIfPinned
    <2>1. Calling(t, "close") /\ pc[t] \in Handed
      BY DEF Calling, Active, Counted, Handed
    <2>2. call[t].id \in Granules /\ opens[call[t].id] \in 1 .. MaxOpens
      BY <2>1, CloserReport
    <2> QED
      BY <2>1, <2>2 DEF ReportsInv, FateInv, ReportOf
  <1>2. ProfilerSpec => []DiagnosticInv
    BY DiagnosticCorrect
  <1> QED
    BY <1>1, <1>2, ReportsCorrect, PTL

\* No profiler, no memory: its blocks, the granules that were still open and the
\* reports nobody took are all freed, whether its creation failed or it was destroyed.
THEOREM NothingIsLeft == ASSUME SoundSlots PROVE ProfilerSpec => []NothingLeft
  <1>1. ReportsInv /\ DiagnosticInv /\ BlocksFreed => NothingLeft
    <2> SUFFICES ASSUME ReportsInv, DiagnosticInv, life \in {"failed", "destroyed"}
                 PROVE  InUseCells = {} /\ \A r \in Reports : fate[r] # "queued"
      BY DEF NothingLeft
    <2>1. InUseCells = {}
      BY InvParts DEF LifeInv, Running
    <2>2. ASSUME NEW r \in Reports PROVE fate[r] # "queued"
      <3>1. CASE life = "destroyed"
        BY <3>1 DEF ReportsInv, BufferInv
      <3>2. CASE life = "failed"
        <4>1. count = 0
          BY <3>2 DEF ReportsInv, BufferInv, Running
        <4>2. RingFate[r] # "queued"
          BY <3>2, <4>1 DEF ReportsInv, Kept!RingInv
        <4> QED
          BY <4>2 DEF RingFate
      <3> QED
        BY <3>1, <3>2
    <2> QED
      BY <2>1, <2>2
  <1>2. ProfilerSpec => []DiagnosticInv
    BY DiagnosticCorrect
  <1> QED
    BY <1>1, <1>2, BlocksAllFreed, ReportsCorrect, PTL

\* The closes, the drains and the end of the profiler do to the ring only what its
\* own module lets them, and so the reports pass through a queue that drops its
\* oldest: none is handed out twice, freed twice or leaked.
THEOREM ReportsQueue == ASSUME SoundSlots PROVE ProfilerSpec => Kept!ImplementsQueue
  <1>1. ProfilerSpec => Kept!Spec
    <2>1. DiagnosticInv /\ ReportsInv /\ [ProfilerNext]_profVars => [Kept!Next]_(Kept!vars)
      BY ReportsNext
    <2>2. ProfilerInit => Kept!Init
      BY RingStart
    <2>3. ProfilerSpec => []DiagnosticInv
      BY DiagnosticCorrect
    <2> QED
      BY <2>1, <2>2, <2>3, ReportsCorrect, PTL DEF ProfilerSpec, Kept!Spec
  <1>2. Kept!Spec => Kept!ImplementsQueue
    BY RingAssumption, Kept!RingIsQueue
  <1> QED
    BY <1>1, <1>2

-----------------------------------------------------------------------------
(* Sweeps that no close runs beside                                        *)

SweepSafe ==
    Sweeping =>
        /\ \A t \in Threads : ~Calling(t, "close")
        /\ mpc = "sweep_live" => swept # Null /\ swept = diag[cursor]

\* Only a close takes a state out of its slot.
LEMMA StateStays ==
    ASSUME DiagnosticInv, NEW t \in Threads, StorageStep(t), ~Calling(t, "close"),
           NEW s, diag[s] # Null
    PROVE  diag'[s] = diag[s]
  <1>1. SlotStep(t) /\ Active(t) /\ life # "destroyed" /\ StoragePc(t) = pc[t]
    BY StorageStepMoves, StorageIs DEF StorageMove, Running
  <1>2. Storage!LabelInv /\ Storage!PlaceInv /\ diag \in [Slots -> Cells \cup {Null}]
    BY <1>1, InvParts DEF Storage!MemoryInv, Storage!DiagTypeOK, Storage!Slots, Slots
  <1>3. CASE pc[t] = "open_create"
    <2>1. diag[Slot(t)] = Null
      BY <1>1, <1>2, <1>3 DEF Storage!PlaceInv, Storage!Slot, Slot
    <2>2. OpenCreate(t)
      BY <1>1, <1>3 DEF SlotStep, OpenClaim, OpenCreate, OpenRelease, FindOccupied, FindDiag, FindId,
                        AllocAdd, DeallocMark, CloseTake, CloseRelease, CloseLoad, CloseReport,
                        ClosePush, CloseDestroy
    <2>3. \E c : diag' = [diag EXCEPT ![Slot(t)] = c]
      BY <2>2 DEF OpenCreate
    <2> QED
      BY <1>2, <2>1, <2>3
  <1>4. CASE pc[t] # "open_create"
    <2>1. pc[t] # "close_take"
      BY <1>1, <1>2 DEF Storage!LabelInv, Calling
    <2>2. UNCHANGED diag
      BY <1>1, <1>4, <2>1
      DEF SlotStep, OpenClaim, OpenCreate, OpenRelease, FindOccupied, FindDiag, FindId, AllocAdd,
          DeallocMark, CloseTake, CloseRelease, CloseLoad, CloseReport, ClosePush, CloseDestroy, slotVars
    <2> QED
      BY <2>2
  <1> QED
    BY <1>3, <1>4

\* When no sweep begins beside a close, and no close beside a sweep, the state that
\* a sweep points to stays in its slot.
LEMMA SweepSafeNext ==
    ASSUME ~RacingSweeps, DiagnosticInv, SweepSafe, [ProfilerNext]_profVars
    PROVE  SweepSafe'
  <1> USE DEF Sweeping
  <1>1. ASSUME NEW t \in Threads, ProfilerCall(t) PROVE SweepSafe'
    <2>1. /\ UNCHANGED <<diag, swept, mpc, cursor>>
          /\ Sweeping => call'[t].fn # "close"
      BY <1>1 DEF ProfilerCall, slotVars, ApiCall, queryVars
    <2>2. \A u \in Threads \ {t} : Calling(u, "close")' = Calling(u, "close")
      <3>1. \A u \in Threads \ {t} : pc'[u] = pc[u] /\ call'[u] = call[u]
        <4>1. PICK g \in Granules : ApiCall(t, g, "open_cas", "find_occupied")
          BY <1>1 DEF ProfilerCall
        <4>2. {"open_cas", "find_occupied"} \cap (ApiLabels \cup {"idle", "ret"}) = {}
          BY DEF ApiLabels
        <4> QED
          BY <4>1, <4>2, ApiCallFrame, InvParts
      <3> QED
        BY <3>1 DEF Calling, Active
    <2>3. Sweeping => ~Calling(t, "close")'
      BY <2>1 DEF Calling
    <2> QED
      BY <2>1, <2>2, <2>3 DEF SweepSafe
  <1>2. ASSUME NEW t \in Threads, StorageStep(t) PROVE SweepSafe'
    <2>1. /\ UNCHANGED <<swept, mpc, cursor, call>> /\ Active(t)
          /\ \A u \in Threads \ {t} : pc'[u] = pc[u]
      BY <1>2, StorageStepMoves DEF StorageOnly, queryVars, StorageMove
    <2>2. \A u \in Threads : Calling(u, "close")' => Calling(u, "close")
      BY <2>1 DEF Calling, Active
    <2>3. Sweeping /\ diag[cursor] # Null => diag'[cursor] = diag[cursor]
      BY <1>2, StateStays DEF SweepSafe
    <2> QED
      BY <2>1, <2>2, <2>3 DEF SweepSafe
  <1>3. ASSUME NEW t \in Threads, CountStep(t) PROVE SweepSafe'
    <2>1. UNCHANGED <<swept, mpc, cursor>> /\ UNCHANGED diag
      BY <1>3, StepKinds, AnswerStep, CountingStep, AnswerFrame, CountFrame, InvParts
      DEF CountStep, queryVars, diagVars, slotVars, ListReturn
    <2>2. \A u \in Threads : Calling(u, "close")' => Calling(u, "close")
      <3>1. CASE Count(t)
        BY <3>1, CountFrame, InvParts DEF Calling, Active
      <3>2. CASE ApiReturn(t)
        BY <3>2, AnswerFrame, InvParts DEF Calling, Active
      <3> QED
        BY <1>3, <3>1, <3>2, StepKinds DEF CountStep
    <2> QED
      BY <2>1, <2>2 DEF SweepSafe
  <1>4. CASE MonitorStep
    <2>1. UNCHANGED <<diag, pc, call>>
      BY <1>4, MonitorSteps DEF diagVars, slotVars, clientVars
    <2>2. \A u \in Threads : Calling(u, "close")' = Calling(u, "close")
      BY <2>1 DEF Calling, Active
    <2>3. CASE BeginQuery /\ (CloseRunning => RacingSweeps)
      <3>1. \A t \in Threads : ~Calling(t, "close")
        BY <2>3 DEF CloseRunning, Calling
      <3>2. mpc' # "sweep_live"
        BY <2>3, ApiAssumption DEF BeginQuery
      <3> QED
        BY <2>2, <3>1, <3>2 DEF SweepSafe
    <2>4. CASE SweepDiag
      <3>1. mpc = "sweep_diag" /\ swept' = diag[cursor]
            /\ (mpc' = "sweep_live" => diag[cursor] # Null /\ cursor' = cursor)
        BY <2>4 DEF SweepDiag, SweepTest, NextSlot
      <3> QED
        BY <2>1, <2>2, <3>1 DEF SweepSafe
    <2>5. CASE SweepLoad \/ SweepOccupied \/ SweepLive
      <3>1. Sweeping /\ mpc' # "sweep_live"
        BY <2>5 DEF SweepLoad, LoadCounter, SweepOccupied, SweepTest, SweepLive, SweepCount, NextSlot
      <3> QED
        BY <2>2, <3>1 DEF SweepSafe
    <2>6. CASE BeginReset \/ ResetCounter("idle") \/ SnapshotLoad \/ EndQuery
      <3>1. ~Sweeping'
        BY <2>6 DEF BeginReset, ResetCounter, SnapshotLoad, LoadCounter, EndQuery
      <3> QED
        BY <3>1 DEF SweepSafe
    <2> QED
      BY <1>4, <2>3, <2>4, <2>5, <2>6 DEF MonitorStep, Query, ResetAll, ApiMonitorStep
  <1>5. CASE UNCHANGED <<apiVars, swept, diag>>
    BY <1>5 DEF apiVars, queryVars, clientVars, SweepSafe, Calling, Active
  <1>6. DrainReports \/ CreateProfiler \/ DestroyProfiler \/ UNCHANGED profVars => UNCHANGED <<apiVars, swept, diag>>
    BY DEF DrainReports, CreateProfiler, DestroyProfiler, profVars, diagVars, slotVars
  <1> QED
    BY <1>1, <1>2, <1>3, <1>4, <1>5, <1>6 DEF ProfilerNext, ProfilerStep

\* A sweep that no close runs beside reads the live count of a state that exists.
THEOREM SweepsSafe ==
    ASSUME SoundSlots, ~RacingSweeps PROVE ProfilerSpec => []SafeSweep
  <1>1. ProfilerInit => SweepSafe
    BY DEF ProfilerInit, ApiInit, SweepSafe, Sweeping
  <1>2. DiagnosticInv /\ SweepSafe /\ [ProfilerNext]_profVars => SweepSafe'
    BY SweepSafeNext
  <1>3. DiagnosticInv /\ SweepSafe => SafeSweep
    <2> SUFFICES ASSUME DiagnosticInv, SweepSafe, mpc = "sweep_live"
                 PROVE  swept # Null /\ heap[swept] # Null
      BY DEF SafeSweep
    <2>1. swept # Null /\ swept = diag[cursor] /\ life # "destroyed"
      BY OnlyRunning, InvParts DEF SweepSafe, Sweeping, Running
    <2>2. cursor \in 0 .. Capacity - 1
      BY InvParts DEF Typed, ApiTypeOK
    <2>3. Storage!StateInv
      BY <2>1, InvParts DEF Storage!MemoryInv
    <2> QED
      BY <2>1, <2>2, <2>3 DEF Storage!StateInv, Storage!Slots
  <1>4. ProfilerSpec => []DiagnosticInv
    BY DiagnosticCorrect
  <1> QED
    BY <1>1, <1>2, <1>3, <1>4, PTL DEF ProfilerSpec

-----------------------------------------------------------------------------
(* What such a sweep counts                                                *)

SlotHomes == [g \in Granules |-> g % Capacity]

LEMMA SlotsApart == ASSUME SoundSlots PROVE Apart(SlotHomes)
  <1>1. \A g \in Granules : g % Capacity \in 0 .. Capacity - 1
    BY ClientAssumption
  <1> QED
    BY <1>1 DEF SoundSlots, SlotHomes, Apart

\* What moves during a query.
LEMMA ThreadTransit ==
    ASSUME DiagnosticInv, TransitInv, NEW t \in Threads, ProfilerCall(t) \/ ProfilerStep(t)
    PROVE  TransitInv' /\ UNCHANGED mpc /\ (mpc # "idle" /\ ~Resetting => Beside)
  <1>0. Typed /\ CountingInv
    BY InvParts
  <1>1. CASE ProfilerCall(t)
    <2>1. PICK g \in Granules : ApiCall(t, g, "open_cas", "find_occupied")
      BY <1>1 DEF ProfilerCall
    <2>2. {"open_cas", "find_occupied"} \cap (ApiLabels \cup {"idle", "ret"}) = {}
      BY DEF ApiLabels
    <2> QED
      BY <1>0, <2>1, <2>2, CallBeside DEF Beside
  <1>2. CASE StorageStep(t)
    BY <1>0, <1>2, StorageStepMoves, StorageBeside DEF Beside
  <1>3. CASE CountStep(t)
    BY <1>0, <1>3, StepKinds, CountBeside, AnswerBeside DEF CountStep, Beside
  <1> QED
    BY <1>1, <1>2, <1>3 DEF ProfilerStep

LEMMA TransitNext ==
    ASSUME DiagnosticInv, TransitInv, [ProfilerNext]_profVars
    PROVE  TransitInv'
  <1>1. CASE MonitorStep
    <2>1. UNCHANGED clientVars
      BY <1>1, MonitorSteps
    <2>2. CASE BeginQuery
      BY <2>2, InvParts, BeginQueryTransit
    <2>3. CASE SnapshotLoad \/ SweepLoad \/ SweepOccupied \/ SweepDiag \/ SweepLive
      <3>1. UNCHANGED moved /\ mpc # "idle" /\ ~Resetting
        BY <2>3 DEF SnapshotLoad, SweepLoad, LoadCounter, SweepOccupied, SweepDiag, SweepTest, SweepLive,
                    SweepCount, MonitorOnly, historyVars, Resetting
      <3> QED
        BY <2>1, <3>1 DEF TransitInv, Active, clientVars, bookVars
    <2>4. CASE BeginReset \/ ResetCounter("idle") \/ EndQuery
      <3>1. mpc' = "idle" \/ Resetting'
        BY <2>4 DEF BeginReset, ResetCounter, EndQuery, Resetting
      <3> QED
        BY <2>1, <3>1 DEF TransitInv, Active, clientVars, bookVars
    <2> QED
      BY <1>1, <2>2, <2>3, <2>4 DEF MonitorStep, Query, ResetAll, ApiMonitorStep
  <1>2. CASE UNCHANGED apiVars
    BY <1>2 DEF TransitInv, Active, Resetting, apiVars, clientVars, bookVars, queryVars, historyVars
  <1>3. DrainReports \/ CreateProfiler \/ DestroyProfiler \/ UNCHANGED profVars => UNCHANGED apiVars
    BY DEF DrainReports, CreateProfiler, DestroyProfiler, profVars
  <1> QED
    BY <1>1, <1>2, <1>3, ThreadTransit DEF ProfilerNext

\* The slots as a sweep meets them: a granule that does not move is in its slot with
\* its count, and a state belongs to a granule that is open or moves.
LEMMA SweptSlots ==
    ASSUME SoundSlots, DiagnosticInv, TransitInv, mpc # "idle", ~Resetting
    PROVE  /\ \A g \in Still : LET s == SlotHomes[g]
                               IN  /\ occupied[s] = 1 /\ diag[s] # Null
                                   /\ heap[diag[s]].live_count = held[g]
           /\ \A s \in Slots : diag[s] # Null => \E g \in Sweepable : SlotHomes[g] = s
  <1>1. life # "destroyed" /\ ClientTypeOK
    BY OnlyRunning, InvParts DEF Running
  <1>2. StorageInv /\ Storage!MemoryInv /\ Storage!RecordInv /\ Storage!SoundSlots
    BY <1>1, InvParts, SameSound
  <1>3. ASSUME NEW g \in Still
        PROVE  /\ occupied[g % Capacity] = 1 /\ diag[g % Capacity] # Null
               /\ heap[diag[g % Capacity]].live_count = held[g]
    <2>1. g \in Granules /\ g \notin moved /\ phase[g] = "open"
      BY <1>3 DEF Still
    <2>2. \A t \in Threads : ~Storage!On(t, g)
      BY <2>1, StorageIs DEF TransitInv, Active, Storage!On, Storage!Active
    <2> QED
      BY <1>2, <2>1, <2>2, Storage!QuietCounts, ClientAssumption, DiagAssumption, DiagSlotsAssumption
      DEF Storage!RecordInv, DiagType, Storage!DiagType, Record, Storage!Record
  <1>4. ASSUME NEW s \in Slots, diag[s] # Null
        PROVE  \E g \in Sweepable : g \in Granules /\ g % Capacity = s
    <2>1. PICK g \in Granules : g % Capacity = s /\ phase[g] # "closed"
      BY <1>2, <1>4, Storage!StatesInUse, ClientAssumption, DiagAssumption, DiagSlotsAssumption
      DEF Storage!RecordInv, DiagType, Storage!DiagType, Record, Storage!Record, Slots, Storage!Slots
    <2>2. CASE phase[g] = "open"
      BY <2>1, <2>2 DEF Sweepable
    <2>3. CASE phase[g] \in {"opening", "closing"}
      BY <2>1, <2>3 DEF TransitInv, Sweepable
    <2> QED
      BY <1>1, <2>1, <2>2, <2>3 DEF ClientTypeOK
  <1> QED
    BY <1>3, <1>4 DEF SlotHomes, Still

LEMMA SweepNext ==
    ASSUME SoundSlots, ~RacingSweeps, DiagnosticInv, DiagnosticInv', SweepSafe, TransitInv,
           SweepInv(SlotHomes), [ProfilerNext]_profVars
    PROVE  SweepInv(SlotHomes)'
  <1>0. Typed /\ Typed' /\ Apart(SlotHomes)
    BY SlotsApart DEF DiagnosticInv, ApiInv
  <1>1. ASSUME NEW t \in Threads, ProfilerCall(t) \/ ProfilerStep(t) PROVE SweepInv(SlotHomes)'
    BY <1>0, <1>1, ThreadTransit, SweepBeside
  <1>2. ASSUME mpc \in SlotLoads
        PROVE  /\ \A g \in Still : LET s == SlotHomes[g]
                                   IN  /\ occupied[s] = 1 /\ diag[s] # Null
                                       /\ heap[diag[s]].live_count = held[g]
               /\ diag[cursor] # Null => \E g \in Sweepable : SlotHomes[g] = cursor
    <2>1. mpc # "idle" /\ ~Resetting /\ cursor \in Slots
      BY <1>0, <1>2 DEF SlotLoads, Resetting, Typed, ApiTypeOK, Slots
    <2> QED
      BY <2>1, SweptSlots
  <1>3. CASE SweepOccupied
    <2>1. SweepTest("sweep_occupied", occupied[cursor] = 1, "sweep_diag") /\ mpc = "sweep_occupied"
      BY <1>3 DEF SweepOccupied, SweepTest
    <2>2. occupied[cursor] # 1 => \A g \in Still : SlotHomes[g] # cursor
      BY <1>2, <2>1 DEF SlotLoads
    <2> QED
      BY <1>0, <2>1, <2>2, SweepTests DEF SlotLoads
  <1>4. CASE SweepDiag
    <2>1. SweepTest("sweep_diag", diag[cursor] # Null, "sweep_live") /\ mpc = "sweep_diag"
      BY <1>4 DEF SweepDiag, SweepTest
    <2>2. /\ ~(diag[cursor] # Null) => \A g \in Still : SlotHomes[g] # cursor
          /\ diag[cursor] # Null => \E g \in Sweepable : SlotHomes[g] = cursor
      BY <1>2, <2>1 DEF SlotLoads
    <2> QED
      BY <1>0, <2>1, <2>2, SweepTests DEF SlotLoads
  <1>5. CASE SweepLive
    <2>1. mpc = "sweep_live" /\ SweepCount(heap[diag[cursor]].live_count)
      BY <1>5 DEF SweepLive, SweepSafe, Sweeping
    <2>2. \A g \in Still : SlotHomes[g] = cursor => heap[diag[cursor]].live_count = held[g]
      BY <1>2, <2>1 DEF SlotLoads
    <2> QED
      BY <1>0, <2>1, <2>2, SweepCounts
  <1>6. CASE BeginQuery \/ SweepLoad
    BY <1>0, <1>6, SweepBegins
  <1>7. CASE SnapshotLoad \/ BeginReset \/ ResetCounter("idle") \/ EndQuery
    <2>1. mpc' \notin {"sweep", "sweep_done"} \cup SlotLoads
      BY <1>7 DEF SnapshotLoad, LoadCounter, BeginReset, ResetCounter, EndQuery, SlotLoads
    <2> QED
      BY <2>1 DEF SweepInv, SlotLoads
  <1>8. MonitorStep => SweepInv(SlotHomes)'
    BY <1>3, <1>4, <1>5, <1>6, <1>7 DEF MonitorStep, Query, ResetAll, ApiMonitorStep
  <1>9. CASE UNCHANGED apiVars
    <2>1. UNCHANGED <<mpc, cursor, out, moved, phase, held>>
      BY <1>9 DEF apiVars, clientVars, bookVars, queryVars, historyVars
    <2> QED
      BY <1>0, <2>1, SweepBeside DEF Beside
  <1>10. DrainReports \/ CreateProfiler \/ DestroyProfiler \/ UNCHANGED profVars => UNCHANGED apiVars
    BY DEF DrainReports, CreateProfiler, DestroyProfiler, profVars
  <1> QED
    BY <1>1, <1>8, <1>9, <1>10 DEF ProfilerNext

\* A sweep that no close runs beside counts every granule left alone exactly once,
\* with its verdict, whatever the opens and the allocations do meanwhile.
THEOREM DiagnosticSweeps ==
    ASSUME SoundSlots, ~RacingSweeps PROVE ProfilerSpec => []SweepBounds
  <1>1. ProfilerInit => SweepSafe /\ TransitInv /\ SweepInv(SlotHomes)
    <2>1. ProfilerInit => SweepSafe /\ SweepInv(SlotHomes)
      BY DEF ProfilerInit, ApiInit, SweepSafe, Sweeping, SweepInv, SlotLoads
    <2>2. ProfilerInit => TransitInv
      BY TransitInit DEF ProfilerInit
    <2> QED
      BY <2>1, <2>2
  <1>2. DiagnosticInv /\ SweepSafe /\ [ProfilerNext]_profVars => SweepSafe'
    BY SweepSafeNext
  <1>3. DiagnosticInv /\ TransitInv /\ [ProfilerNext]_profVars => TransitInv'
    BY TransitNext
  <1>4. /\ DiagnosticInv /\ DiagnosticInv' /\ SweepSafe /\ TransitInv /\ SweepInv(SlotHomes)
        /\ [ProfilerNext]_profVars
        => SweepInv(SlotHomes)'
    BY SweepNext
  <1>5. DiagnosticInv /\ SweepInv(SlotHomes) => SweepBounds
    BY InvParts, SlotsApart, SweptInTheEnd
  <1>6. ProfilerSpec => []DiagnosticInv
    BY DiagnosticCorrect
  <1> QED
    BY <1>1, <1>2, <1>3, <1>4, <1>5, <1>6, PTL DEF ProfilerSpec

-----------------------------------------------------------------------------
(* open_granules                                                           *)

Taken == {s \in Slots : occupied[s] = 1}

\* The slots are finitely many.
LEMMA TakenFinite ==
    IsFiniteSet(Taken) /\ Cardinality(Taken) \in 0 .. Capacity
  <1>1. Capacity \in Nat \ {0}
    BY ClientAssumption
  <1>2. IsFiniteSet(Slots) /\ Cardinality(Slots) = Capacity
    BY <1>1, FS_Interval DEF Slots
  <1>3. Taken \subseteq Slots
    BY DEF Taken
  <1>4. IsFiniteSet(Taken) /\ Cardinality(Taken) <= Cardinality(Slots)
    BY <1>2, <1>3, FS_Subset
  <1> QED
    BY <1>1, <1>2, <1>4, FS_CardinalityType

\* A step of thread t moves no other thread in or out.
LEMMA OneClaims ==
    ASSUME IsFiniteSet(Threads), NEW t \in Threads,
           \A u \in Threads \ {t} : pc'[u] = pc[u] /\ call'[u] = call[u] /\ ret'[u] = ret[u]
    PROVE  /\ Cardinality(Claimed) \in Nat /\ Cardinality(Claimed') \in Nat
           /\ t \in Claimed <=> t \in Claimed' => Cardinality(Claimed') = Cardinality(Claimed)
           /\ t \in Claimed' /\ t \notin Claimed => Cardinality(Claimed') = Cardinality(Claimed) + 1
           /\ t \in Claimed /\ t \notin Claimed' => Cardinality(Claimed') = Cardinality(Claimed) - 1
           /\ Cardinality(Released) \in Nat /\ Cardinality(Released') \in Nat
           /\ t \in Released <=> t \in Released' => Cardinality(Released') = Cardinality(Released)
           /\ t \in Released' /\ t \notin Released => Cardinality(Released') = Cardinality(Released) + 1
           /\ t \in Released /\ t \notin Released' => Cardinality(Released') = Cardinality(Released) - 1
  <1>1. Claimed \subseteq Threads /\ Claimed' \subseteq Threads /\ Claimed \ {t} = Claimed' \ {t}
    BY DEF Claimed
  <1>2. Released \subseteq Threads /\ Released' \subseteq Threads /\ Released \ {t} = Released' \ {t}
    BY DEF Released, Closed
  <1>3. IsFiniteSet(Claimed) /\ IsFiniteSet(Claimed')
    BY <1>1, FS_Subset
  <1>4. IsFiniteSet(Released) /\ IsFiniteSet(Released')
    BY <1>2, FS_Subset
  <1> QED
    BY <1>1, <1>2, <1>3, <1>4, MovedOne

\* What is known of the slot of a thread that is inside a call.
LEMMA AtItsSlot ==
    ASSUME DiagnosticInv, NEW t \in Threads, Active(t)
    PROVE  /\ Running /\ life # "destroyed" /\ StorageInv
           /\ call[t] \in Calls /\ call[t].id \in Granules /\ Slot(t) \in Slots
           /\ occupied \in [Slots -> {0, 1}]
           /\ pc[t] \in {"open_create", "open_release", "close_release"} => occupied[Slot(t)] = 1
           /\ pc[t] \in Detached => ptr[t] # Null
           /\ call[t].fn = "open" /\ pc[t] = "ret" /\ ret[t] = 0 => occupied[Slot(t)] = 1
  <1>1. Running /\ life # "destroyed" /\ StorageInv /\ Storage!Active(t)
    BY OnlyRunning, InvParts, StorageIs DEF Running, Storage!Active, Active
  <1>2. /\ Storage!DiagTypeOK /\ Storage!PlaceInv /\ Storage!OpenInv /\ Storage!StateInv
    BY <1>1 DEF StorageInv, Storage!MemoryInv
  <1>3. /\ call[t] \in Storage!Calls /\ call[t].id \in Granules /\ Storage!Slot(t) \in Storage!Slots
    BY <1>1, <1>2, Storage!SlotOfCall, ClientAssumption, DiagAssumption, DiagSlotsAssumption
    DEF DiagType, Storage!DiagType, Record, Storage!Record
  <1>4. /\ Storage!Slot(t) = Slot(t) /\ Storage!Slots = Slots /\ Storage!Calls = Calls
        /\ Storage!Detached = Detached
        /\ occupied \in [Slots -> {0, 1}]
    BY <1>2 DEF Storage!Slot, Slot, Storage!Slots, Slots, Storage!DiagTypeOK, Storage!Calls, Calls,
                Storage!Detached, Detached
  <1>5. /\ pc[t] \in {"open_create", "open_release", "close_release"} => occupied[Slot(t)] = 1
        /\ pc[t] \in Detached => ptr[t] # Null
    BY <1>2, <1>4, StorageIs DEF Storage!PlaceInv, Detached, ApiLabels
  <1>6. ASSUME call[t].fn = "open", pc[t] = "ret", ret[t] = 0 PROVE occupied[Slot(t)] = 1
    <2>1. StoragePc(t) = "ret"
      BY <1>6, StorageIs DEF ApiLabels
    <2>2. diag[Slot(t)] # Null
      BY <1>1, <1>2, <1>4, <1>6, <2>1 DEF Storage!OpenInv, Storage!Calling
    <2> QED
      BY <1>2, <1>3, <1>4, <2>2 DEF Storage!StateInv
  <1> QED
    BY <1>1, <1>3, <1>4, <1>5, <1>6

\* Every open that has claimed a slot has one of its own.
LEMMA ClaimsTake ==
    ASSUME SoundSlots, DiagnosticInv
    PROVE  Cardinality(Claimed) <= Cardinality(Taken)
  <1> DEFINE f == [t \in Claimed |-> Slot(t)]
  <1>1. ASSUME NEW t \in Claimed
        PROVE  /\ t \in Threads /\ Active(t) /\ call[t].fn = "open" /\ call[t].id \in Granules
               /\ f[t] \in Taken /\ Storage!AloneInv
    <2>1. t \in Threads /\ Active(t)
      BY DEF Claimed, Active
    <2>2. StorageInv /\ Storage!LabelInv /\ Storage!AloneInv
      BY <2>1, AtItsSlot DEF StorageInv, Storage!MemoryInv, Storage!ContractInv
    <2>3. call[t].fn = "open"
      BY <2>1, <2>2, StorageIs DEF Claimed, Storage!LabelInv, ApiLabels
    <2>4. Slot(t) \in Slots /\ occupied[Slot(t)] = 1 /\ call[t].id \in Granules
      BY <2>1, <2>3, AtItsSlot DEF Claimed
    <2> QED
      BY <2>1, <2>2, <2>3, <2>4 DEF Taken
  <1>2. \A t, u \in Claimed : f[t] = f[u] => t = u
    <2> SUFFICES ASSUME NEW t \in Claimed, NEW u \in Claimed, f[t] = f[u] PROVE t = u
      OBVIOUS
    <2>1. call[t].id = call[u].id
      BY <1>1 DEF SoundSlots, Slot
    <2>2. Storage!Active(t) /\ Storage!Active(u)
      BY <1>1, StorageIs DEF Storage!Active, Active
    <2> QED
      BY <1>1, <2>1, <2>2 DEF Storage!AloneInv
  <1>3. f \in Injection(Claimed, Taken)
    BY <1>1, <1>2 DEF Injection, IsInjective
  <1> QED
    BY <1>3, TakenFinite, FS_Injection

\* An operation of the slots takes a slot for an open, gives back one for an open
\* that failed or for a close, or changes neither the slots taken nor who has
\* taken and given back.
LEMMA StorageTakes ==
    ASSUME SoundSlots, DiagnosticInv, NEW t \in Threads, StorageStep(t)
    PROVE  \/ /\ Taken' = Taken
              /\ t \in Claimed' <=> t \in Claimed
              /\ t \in Released' <=> t \in Released
           \/ /\ \E s \in Slots \ Taken : Taken' = Taken \cup {s}
              /\ t \in Claimed' /\ t \notin Claimed
              /\ t \in Released' <=> t \in Released
           \/ /\ \E s \in Taken : Taken' = Taken \ {s}
              /\ t \notin Claimed' /\ t \in Claimed
              /\ t \in Released' <=> t \in Released
           \/ /\ \E s \in Taken : Taken' = Taken \ {s}
              /\ t \in Released' /\ t \notin Released
              /\ t \in Claimed' <=> t \in Claimed
  <1>1. /\ SlotStep(t) /\ call' = call /\ Active(t) /\ PcIsFun
        /\ pc[t] \notin ApiLabels \cup {"idle", "ret"}
        /\ ret \in [Threads -> Int] /\ StoragePc(t) = pc[t]
    BY StorageStepMoves, InvParts, StorageIs DEF StorageMove, ClientTypeOK
  <1>2. /\ StorageInv /\ Storage!LabelInv
        /\ Slot(t) \in Slots /\ occupied \in [Slots -> {0, 1}] /\ call[t] \in Calls
        /\ pc[t] \in {"open_create", "open_release", "close_release"} => occupied[Slot(t)] = 1
        /\ pc[t] \in Detached => ptr[t] # Null
    BY <1>1, AtItsSlot DEF StorageInv, Storage!MemoryInv
  <1>3. /\ pc[t] \in {"open_cas", "open_create", "open_release"} => call[t].fn = "open"
        /\ pc[t] \in {"find_occupied", "find_diag", "find_id"} => call[t].fn # "open"
        /\ pc[t] \in {"add_alloc", "mark_freed"} => call[t].fn \notin {"open", "close"}
        /\ pc[t] \in Detached \cup {"close_take"} => call[t].fn = "close"
    BY <1>1, <1>2 DEF Storage!LabelInv, Detached, Storage!Detached
  <1> USE <1>1, <1>2, <1>3, DiagnosticAssumption
      DEF PcIsFun, Goto, Answer, Claimed, Released, Closed, Detached
  <1>4. CASE OpenClaim(t)
    <2>1. CASE occupied[Slot(t)] = 0
      <3>1. pc[t] = "open_cas" /\ pc'[t] = "open_create" /\ occupied' = [occupied EXCEPT ![Slot(t)] = 1]
        BY <1>4, <2>1 DEF OpenClaim
      <3>2. Slot(t) \in Slots \ Taken /\ Taken' = Taken \cup {Slot(t)}
        BY <2>1, <3>1 DEF Taken
      <3> QED
        BY <3>1, <3>2
    <2>2. CASE occupied[Slot(t)] # 0
      <3>1. pc[t] = "open_cas" /\ pc'[t] = "ret" /\ ret'[t] = -1 /\ UNCHANGED occupied
        BY <1>4, <2>2 DEF OpenClaim
      <3> QED
        BY <3>1 DEF Taken
    <2> QED
      BY <2>1, <2>2
  <1>5. CASE OpenCreate(t)
    <2>1. /\ pc[t] = "open_create" /\ UNCHANGED occupied
          /\ (pc'[t] = "ret" /\ ret'[t] = 0) \/ pc'[t] = "open_release"
      BY <1>5 DEF OpenCreate
    <2> QED
      BY <2>1 DEF Taken
  <1>6. CASE OpenRelease(t)
    <2>1. /\ pc[t] = "open_release" /\ pc'[t] = "ret" /\ ret'[t] = -1
          /\ occupied' = [occupied EXCEPT ![Slot(t)] = 0]
      BY <1>6 DEF OpenRelease
    <2>2. Slot(t) \in Taken /\ Taken' = Taken \ {Slot(t)}
      BY <2>1 DEF Taken
    <2> QED
      BY <2>1, <2>2
  <1>7. CASE FindOccupied(t) \/ FindDiag(t) \/ FindId(t)
    <2>1. /\ pc[t] \in {"find_occupied", "find_diag", "find_id"} /\ UNCHANGED occupied
          /\ \/ pc'[t] \in {"find_diag", "find_id", "add_alloc", "mark_freed", "close_take"}
             \/ pc'[t] = "ret" /\ ret'[t] = -1
      <3>1. CASE FindOccupied(t)
        BY <3>1 DEF FindOccupied, slotVars
      <3>2. CASE FindDiag(t)
        BY <3>2 DEF FindDiag, slotVars
      <3>3. CASE FindId(t)
        <4>1. pc[t] = "find_id" /\ call[t].fn \in {"close", "alloc", "dealloc"}
          BY <3>3 DEF FindId, Storage!LabelInv
        <4>2. AfterFind(call[t].fn) \in {"close_take", "add_alloc", "mark_freed"}
          BY <4>1 DEF AfterFind
        <4> QED
          BY <3>3, <4>1, <4>2 DEF FindId, slotVars
      <3> QED
        BY <1>7, <3>1, <3>2, <3>3
    <2> QED
      BY <2>1 DEF Taken
  <1>8. CASE AllocAdd(t) \/ DeallocMark(t)
    <2>1. pc[t] \in {"add_alloc", "mark_freed"} /\ pc'[t] = "ret" /\ UNCHANGED occupied
      BY <1>8 DEF AllocAdd, DeallocMark, slotVars
    <2> QED
      BY <2>1 DEF Taken
  <1>9. CASE CloseTake(t)
    <2>1. pc[t] = "close_take" /\ pc'[t] = "close_release" /\ UNCHANGED occupied
      BY <1>9 DEF CloseTake
    <2> QED
      BY <2>1 DEF Taken
  <1>10. CASE CloseRelease(t)
    <2>1. /\ pc[t] = "close_release" /\ pc'[t] = "close_load"
          /\ occupied' = [occupied EXCEPT ![Slot(t)] = 0]
      BY <1>10 DEF CloseRelease
    <2>2. Slot(t) \in Taken /\ Taken' = Taken \ {Slot(t)}
      BY <2>1 DEF Taken
    <2> QED
      BY <2>1, <2>2
  <1>11. CASE CloseLoad(t) \/ CloseReport(t) \/ ClosePush(t)
    <2>1. /\ pc[t] \in {"close_load", "close_report", "close_push"} /\ UNCHANGED occupied
          /\ pc'[t] \in {"close_report", "close_push", "close_destroy"}
      BY <1>11 DEF CloseLoad, CloseReport, ClosePush, slotVars
    <2> QED
      BY <2>1 DEF Taken
  <1>12. CASE CloseDestroy(t)
    <2>1. pc[t] = "close_destroy" /\ pc'[t] = "ret" /\ ret' = ret /\ UNCHANGED occupied
      BY <1>12 DEF CloseDestroy, slotVars
    <2>2. ret[t] = held[call[t].id]
      BY <2>1 DEF StorageInv, Storage!RecordInv, Storage!VerdictExact
    <2>3. held[call[t].id] \in Nat
      BY AtItsSlot, InvParts DEF ClientTypeOK
    <2>4. ret[t] # CloseError
      BY <2>2, <2>3
    <2> QED
      BY <2>1, <2>4 DEF Taken
  <1> QED
    BY <1>4, <1>5, <1>6, <1>7, <1>8, <1>9, <1>10, <1>11, <1>12 DEF SlotStep

\* Counting an open or a close gives up one claim or one release for one in
\* open_granules.
LEMMA CountClaims ==
    ASSUME DiagnosticInv, NEW t \in Threads, Count(t)
    PROVE  LET n == counters["open_granules"]
               m == counters'["open_granules"]
           IN  \/ /\ t \in Claimed /\ t \notin Claimed' /\ m = (n + 1) % CounterMod
                  /\ t \in Released' <=> t \in Released
               \/ /\ t \in Released /\ t \notin Released' /\ m = (n + (-1)) % CounterMod
                  /\ t \in Claimed' <=> t \in Claimed
               \/ /\ t \in Claimed' <=> t \in Claimed
                  /\ t \in Released' <=> t \in Released
                  /\ m = n
  <1>0. /\ Typed /\ CountingInv /\ counters \in [CounterNames -> 0 .. CounterMod - 1]
        /\ PcIsFun /\ "open_granules" \in CounterNames
        /\ call[t].fn \in {"open", "close"} => call[t].fn # "alloc" /\ call[t].fn # "dealloc"
    BY InvParts DEF ApiInv, Typed, ApiTypeOK, CounterNames
  <1>1. /\ pc'[t] \in {"find_occupied", "peak_load", "peak_cas", "done"} \cup Totalling
        /\ UNCHANGED <<call, ret>>
    BY InvParts, CountFrame
  <1>2. t \notin Claimed' /\ t \notin Released'
    BY <1>1 DEF Claimed, Released, Closed, Totalling, Detached
  <1>3. CASE CountOpen(t)
    <2>1. t \in Claimed /\ t \notin Released
      BY <1>3 DEF CountOpen, Claimed, Released, Closed, Detached
    <2>2. counters' = [counters EXCEPT !["open_granules"] = (@ + 1) % CounterMod]
      BY <1>3 DEF CountOpen, FetchAdd
    <2> QED
      BY <1>0, <1>2, <2>1, <2>2
  <1>4. CASE CountClose(t)
    <2>1. t \in Released /\ t \notin Claimed
      BY <1>4 DEF CountClose, Claimed, Released, Closed
    <2>2. counters' = [counters EXCEPT !["open_granules"] = (@ + (-1)) % CounterMod]
      BY <1>4 DEF CountClose, FetchAdd
    <2> QED
      BY <1>0, <1>2, <2>1, <2>2
  <1>5. CASE CountCall(t) \/ PeakLoad(t) \/ PeakSwap(t) \/ CountTotal(t) \/ CountVerdict(t)
    <2>1. pc[t] \in {"count_alloc", "count_dealloc", "peak_load", "peak_cas", "count_total",
                     "count_verdict"}
      BY <1>5 DEF CountCall, PeakLoad, PeakSwap, CountTotal, CountVerdict
    <2>2. t \notin Claimed /\ t \notin Released
      BY <2>1 DEF Claimed, Released, Closed, Detached
    <2>3. counters'["open_granules"] = counters["open_granules"]
      <3>1. CASE CountCall(t)
        BY <1>0, <3>1 DEF CountCall, FetchAdd
      <3>2. CASE PeakLoad(t)
        BY <3>2 DEF PeakLoad
      <3>3. CASE PeakSwap(t)
        BY <1>0, <3>3 DEF PeakSwap, Store
      <3>4. CASE CountTotal(t)
        BY <1>0, <3>4 DEF CountTotal, FetchAdd
      <3>5. CASE CountVerdict(t)
        BY <1>0, <3>5 DEF CountVerdict, FetchAdd
      <3> QED
        BY <1>5, <3>1, <3>2, <3>3, <3>4, <3>5
    <2> QED
      BY <1>2, <2>2, <2>3
  <1> QED
    BY <1>3, <1>4, <1>5 DEF Count

\* Counting up or down, and forgetting some, in either order.
LEMMA CountsUp ==
    ASSUME NEW n \in 0 .. CounterMod - 1, NEW k \in 0 .. CounterMod - 1
    PROVE  (((n + 1) % CounterMod) + k) % CounterMod = (((n + k) % CounterMod) + 1) % CounterMod
  <1> USE CountersAssumption
  <1>1. CASE n + 1 < CounterMod /\ n + k + 1 < CounterMod
    BY <1>1
  <1>2. CASE n + 1 < CounterMod /\ n + k + 1 = CounterMod
    BY <1>2
  <1>3. CASE n + 1 < CounterMod /\ n + k + 1 > CounterMod
    BY <1>3
  <1>4. CASE n + 1 = CounterMod
    BY <1>4
  <1> QED
    BY <1>1, <1>2, <1>3, <1>4

LEMMA CountsDown ==
    ASSUME NEW n \in 0 .. CounterMod - 1, NEW k \in 0 .. CounterMod - 1
    PROVE  (((n + (-1)) % CounterMod) + k) % CounterMod = (((n + k) % CounterMod) + (-1)) % CounterMod
  <1> USE CountersAssumption
  <1>1. CASE n = 0 /\ k = 0
    BY <1>1
  <1>2. CASE n = 0 /\ k > 0
    BY <1>2
  <1>3. CASE n > 0 /\ n + k < CounterMod
    BY <1>3
  <1>4. CASE n > 0 /\ n + k = CounterMod
    BY <1>4
  <1>5. CASE n > 0 /\ n + k > CounterMod
    BY <1>5
  <1> QED
    BY <1>1, <1>2, <1>3, <1>4, <1>5

\* forgotten is a number of slots, and open_granules drifts by no more.
DriftInv == forgotten \in 0 .. Capacity /\ OpenDrift

\* open_granules goes up and down with the slots, around the end of its range too.
LEMMA DriftNext ==
    ASSUME SoundSlots, WideCounters, DiagnosticInv, DiagnosticInv', DriftInv, [ProfilerNext]_profVars
    PROVE  DriftInv'
  <1> USE DEF WideCounters
  <1>0. /\ counters["open_granules"] \in 0 .. CounterMod - 1
        /\ counters'["open_granules"] \in 0 .. CounterMod - 1
        /\ Capacity \in Nat /\ CounterMod \in Nat \ {0, 1} /\ Cardinality(Threads) \in Nat
        /\ forgotten \in 0 .. CounterMod - 1
    <2>1. /\ counters \in [CounterNames -> 0 .. CounterMod - 1]
          /\ counters' \in [CounterNames -> 0 .. CounterMod - 1]
      BY DEF DiagnosticInv, ApiInv, Typed, ApiTypeOK
    <2>2. "open_granules" \in CounterNames
      BY DEF CounterNames
    <2>3. Capacity \in Nat /\ CounterMod \in Nat \ {0, 1} /\ Cardinality(Threads) \in Nat
      BY ClientAssumption, CountersAssumption, FS_CardinalityType
    <2>4. Capacity < CounterMod /\ forgotten \in 0 .. Capacity
      BY <2>3 DEF DriftInv
    <2> QED
      BY <2>1, <2>2, <2>3, <2>4
  <1>1. ~Resetting => (counters["open_granules"] + forgotten) % CounterMod =
                          Cardinality(Taken) - Cardinality(Claimed) + Cardinality(Released)
    BY DEF DriftInv, OpenDrift, Taken
  <1>2. /\ forgotten' \in 0 .. Capacity
        /\ (counters'["open_granules"] + forgotten') % CounterMod =
              Cardinality(Taken') - Cardinality(Claimed') + Cardinality(Released')
        => DriftInv'
    BY DEF DriftInv, OpenDrift, Taken
  <1>3. ASSUME ~Resetting, UNCHANGED <<pc, call, ret, occupied, forgotten>>,
               counters'["open_granules"] = counters["open_granules"]
        PROVE  DriftInv'
    <2>1. Claimed' = Claimed /\ Released' = Released /\ Taken' = Taken
      BY <1>3 DEF Claimed, Released, Closed, Taken
    <2> QED
      BY <1>1, <1>2, <1>3, <2>1 DEF DriftInv
  <1>4. ASSUME NEW t \in Threads, ProfilerCall(t) PROVE DriftInv'
    <2>1. /\ UNCHANGED <<occupied, ret, counters, forgotten>> /\ pc[t] = "idle" /\ ~Resetting
          /\ pc'[t] \in {"open_cas", "find_occupied", "count_alloc", "count_dealloc"}
          /\ \A u \in Threads \ {t} : pc'[u] = pc[u] /\ call'[u] = call[u]
      BY <1>4, CallOfApi, ApiCallFrame, InvParts DEF ProfilerCall, slotVars
    <2>2. Claimed' = Claimed /\ Released' = Released /\ Taken' = Taken
      BY <2>1 DEF Claimed, Released, Closed, Taken, Detached
    <2> QED
      BY <1>1, <1>2, <2>1, <2>2 DEF DriftInv
  <1>5. ASSUME NEW t \in Threads, StorageStep(t) PROVE DriftInv'
    <2>1. /\ Active(t) /\ UNCHANGED <<call, counters, forgotten>>
          /\ \A u \in Threads \ {t} : pc'[u] = pc[u] /\ ret'[u] = ret[u]
      BY <1>5, StorageStepMoves DEF StorageOnly, StorageMove
    <2>2. ~Resetting
      BY <2>1, ActiveRuns, InvParts DEF ApiInv
    <2>3. /\ Cardinality(Claimed) \in Nat /\ Cardinality(Claimed') \in Nat
          /\ t \in Claimed <=> t \in Claimed' => Cardinality(Claimed') = Cardinality(Claimed)
          /\ t \in Claimed' /\ t \notin Claimed => Cardinality(Claimed') = Cardinality(Claimed) + 1
          /\ t \in Claimed /\ t \notin Claimed' => Cardinality(Claimed') = Cardinality(Claimed) - 1
          /\ Cardinality(Released) \in Nat /\ Cardinality(Released') \in Nat
          /\ t \in Released <=> t \in Released' => Cardinality(Released') = Cardinality(Released)
          /\ t \in Released' /\ t \notin Released => Cardinality(Released') = Cardinality(Released) + 1
      BY <2>1, OneClaims
    <2>4. IsFiniteSet(Taken) /\ Cardinality(Taken) \in Nat
      BY <1>0, TakenFinite
    <2>5. \A s \in Slots \ Taken : Cardinality(Taken \cup {s}) = Cardinality(Taken) + 1
      BY <2>4, FS_AddElement
    <2>6. \A s \in Taken : Cardinality(Taken \ {s}) = Cardinality(Taken) - 1
      BY <2>4, FS_RemoveElement
    <2>7. Cardinality(Taken') - Cardinality(Claimed') + Cardinality(Released') =
          Cardinality(Taken) - Cardinality(Claimed) + Cardinality(Released)
      <3>1. CASE /\ Taken' = Taken
                 /\ t \in Claimed' <=> t \in Claimed
                 /\ t \in Released' <=> t \in Released
        BY <2>3, <3>1
      <3>2. CASE /\ \E s \in Slots \ Taken : Taken' = Taken \cup {s}
                 /\ t \in Claimed' /\ t \notin Claimed
                 /\ t \in Released' <=> t \in Released
        BY <2>3, <2>4, <2>5, <3>2
      <3>3. CASE /\ \E s \in Taken : Taken' = Taken \ {s}
                 /\ t \notin Claimed' /\ t \in Claimed
                 /\ t \in Released' <=> t \in Released
        BY <2>3, <2>4, <2>6, <3>3
      <3>4. CASE /\ \E s \in Taken : Taken' = Taken \ {s}
                 /\ t \in Released' /\ t \notin Released
                 /\ t \in Claimed' <=> t \in Claimed
        BY <2>3, <2>4, <2>6, <3>4
      <3> QED
        BY <1>5, <3>1, <3>2, <3>3, <3>4, StorageTakes
    <2> QED
      BY <1>1, <1>2, <2>1, <2>2, <2>7 DEF DriftInv
  <1>6. ASSUME NEW t \in Threads, CountStep(t), Count(t) PROVE DriftInv'
    <2> DEFINE n == counters["open_granules"]
               x == Cardinality(Taken) - Cardinality(Claimed) + Cardinality(Released)
    <2>1. /\ Active(t) /\ UNCHANGED <<occupied, forgotten>> /\ Taken' = Taken
          /\ \A u \in Threads \ {t} : pc'[u] = pc[u] /\ call'[u] = call[u] /\ ret'[u] = ret[u]
      BY <1>6, CountingStep, CountFrame, InvParts DEF diagVars, slotVars, Taken
    <2>2. ~Resetting
      BY <2>1, ActiveRuns, InvParts DEF ApiInv
    <2>3. /\ Cardinality(Claimed) \in Nat /\ Cardinality(Claimed') \in Nat
          /\ t \in Claimed <=> t \in Claimed' => Cardinality(Claimed') = Cardinality(Claimed)
          /\ t \in Claimed /\ t \notin Claimed' => Cardinality(Claimed') = Cardinality(Claimed) - 1
          /\ Cardinality(Released) \in Nat /\ Cardinality(Released') \in Nat
          /\ t \in Released <=> t \in Released' => Cardinality(Released') = Cardinality(Released)
          /\ t \in Released /\ t \notin Released' => Cardinality(Released') = Cardinality(Released) - 1
      BY <2>1, OneClaims
    <2>4. /\ Cardinality(Taken) \in 0 .. Capacity /\ Cardinality(Claimed) <= Cardinality(Taken)
          /\ Cardinality(Released) <= Cardinality(Threads)
      <3>1. Cardinality(Released) <= Cardinality(Threads)
        BY FS_Subset DEF Released
      <3> QED
        BY <3>1, TakenFinite, ClaimsTake
    <2>5. (n + forgotten) % CounterMod = x /\ x \in 0 .. CounterMod - 1
      BY <1>0, <1>1, <2>2, <2>3, <2>4
    <2>6. CASE t \in Claimed /\ t \notin Claimed'
      <3>1. /\ counters'["open_granules"] = (n + 1) % CounterMod
            /\ t \in Released' <=> t \in Released
        BY <1>6, <2>6, CountClaims
      <3>2. Cardinality(Claimed') = Cardinality(Claimed) - 1 /\ Cardinality(Released') = Cardinality(Released)
        BY <2>3, <2>6, <3>1
      <3>3. (counters'["open_granules"] + forgotten) % CounterMod = (x + 1) % CounterMod
        BY <1>0, <2>5, <3>1, CountsUp
      <3>4. x + 1 < CounterMod
        BY <1>0, <2>3, <2>4, <3>2
      <3>5. (x + 1) % CounterMod = x + 1
        BY <2>5, <3>4, CountsOne
      <3> QED
        BY <1>2, <2>1, <2>3, <2>4, <3>2, <3>3, <3>5 DEF DriftInv
    <2>7. CASE t \in Released /\ t \notin Released'
      <3>1. /\ counters'["open_granules"] = (n + (-1)) % CounterMod
            /\ t \in Claimed' <=> t \in Claimed
        BY <1>6, <2>7, CountClaims
      <3>2. Cardinality(Released') = Cardinality(Released) - 1 /\ Cardinality(Claimed') = Cardinality(Claimed)
        BY <2>3, <2>7, <3>1
      <3>3. (counters'["open_granules"] + forgotten) % CounterMod = (x + (-1)) % CounterMod
        BY <1>0, <2>5, <3>1, CountsDown
      <3>4. x > 0
        BY <1>0, <2>3, <2>4, <3>2
      <3>5. (x + (-1)) % CounterMod = x - 1
        BY <2>5, <3>4, CountsOne
      <3> QED
        BY <1>2, <2>1, <2>3, <2>4, <3>2, <3>3, <3>5 DEF DriftInv
    <2>8. CASE /\ counters'["open_granules"] = n
               /\ t \in Claimed' <=> t \in Claimed
               /\ t \in Released' <=> t \in Released
      BY <1>2, <2>1, <2>3, <2>5, <2>8 DEF DriftInv
    <2> QED
      BY <1>6, <2>6, <2>7, <2>8, CountClaims
  <1>7. ASSUME NEW t \in Threads, CountStep(t), ApiReturn(t) PROVE DriftInv'
    <2>1. /\ UNCHANGED <<counters, forgotten, occupied>> /\ pc'[t] = "idle" /\ Active(t)
          /\ \A u \in Threads \ {t} : pc'[u] = pc[u] /\ call'[u] = call[u] /\ ret'[u] = ret[u]
      BY <1>7, AnswerStep, AnswerFrame, InvParts DEF ListReturn, slotVars
    <2>2. ~Resetting
      BY <2>1, ActiveRuns, InvParts DEF ApiInv
    <2>3. t \notin Claimed /\ t \notin Released
      BY <1>7 DEF ApiReturn, Finished, Claimed, Released, Closed, Detached
    <2>4. t \notin Claimed' /\ t \notin Released'
      BY <2>1 DEF Claimed, Released, Closed, Detached
    <2>5. Claimed' = Claimed /\ Released' = Released /\ Taken' = Taken
      BY <2>1, <2>3, <2>4 DEF Claimed, Released, Closed, Taken
    <2> QED
      BY <1>1, <1>2, <2>1, <2>2, <2>5 DEF DriftInv
  <1>8. CASE MonitorStep
    <2>1. UNCHANGED <<pc, call, ret, occupied>>
      BY <1>8, MonitorSteps DEF clientVars, diagVars, slotVars
    <2>2. CASE ResetAll
      <3>1. ResetCounter("idle") /\ mpc = "reset_counter"
            /\ forgotten' = IF mpc' = "idle" THEN Cardinality(Taken) ELSE forgotten
        BY <2>2 DEF ResetAll, ResetCounter, Taken
      <3>2. CASE mpc' # "idle"
        <4>1. mpc' = "reset_counter"
          BY <3>1, <3>2 DEF ResetCounter
        <4> QED
          BY <3>1, <3>2, <4>1 DEF DriftInv, OpenDrift, Resetting
      <3>3. CASE mpc' = "idle"
        <4>1. counters' = NoCounts
          BY <3>1, <3>3, ResetCounterApi, InvParts
        <4>2. \A t \in Threads : pc[t] = "idle"
          BY <3>1, InvParts DEF ApiInv, ResetInv, Resetting, Active
        <4>3. Claimed' = {} /\ Released' = {} /\ Taken' = Taken
          BY <2>1, <4>2 DEF Claimed, Released, Closed, Taken, Detached
        <4>4. forgotten' = Cardinality(Taken) /\ Cardinality(Taken) \in 0 .. Capacity
          BY <3>1, <3>3, TakenFinite
        <4>5. counters'["open_granules"] = 0
          BY <4>1 DEF NoCounts, CounterNames
        <4>6. (0 + Cardinality(Taken)) % CounterMod = Cardinality(Taken)
          BY <1>0, <4>4
        <4> QED
          BY <1>0, <1>2, <4>3, <4>4, <4>5, <4>6, FS_EmptySet
      <3> QED
        BY <3>2, <3>3
    <2>3. CASE ~ResetAll
      <3>1. forgotten' = forgotten
        BY <1>8, <2>3 DEF MonitorStep
      <3>2. CASE ~Resetting /\ UNCHANGED counters
        BY <1>3, <2>1, <3>1, <3>2
      <3>3. CASE Resetting'
        BY <3>1, <3>3 DEF DriftInv, OpenDrift
      <3>4. CASE mpc = "reset_counter"
        BY <1>8, <2>3, <3>4
        DEF MonitorStep, Query, ApiMonitorStep, BeginQuery, BeginReset, SnapshotLoad, SweepLoad,
            LoadCounter, EndQuery, SweepOccupied, SweepDiag, SweepTest, SweepLive
      <3> QED
        BY <1>8, <3>2, <3>3, <3>4, MonitorSteps
    <2> QED
      BY <2>2, <2>3
  <1>9. CASE DrainReports \/ CreateProfiler \/ DestroyProfiler \/ UNCHANGED profVars
    <2>1. UNCHANGED <<pc, call, ret, counters, mpc>>
      BY <1>9, ApiStays DEF apiVars, clientVars, queryVars
    <2>2. UNCHANGED <<occupied, forgotten>>
      BY <1>9 DEF DrainReports, CreateProfiler, DestroyProfiler, profVars, diagVars, slotVars
    <2>3. CASE Resetting
      BY <2>1, <2>2, <2>3 DEF DriftInv, OpenDrift, Resetting
    <2> QED
      BY <1>3, <2>1, <2>2, <2>3
  <1> QED
    BY <1>4, <1>5, <1>6, <1>7, <1>8, <1>9, StepKinds DEF ProfilerNext, ProfilerStep, CountStep

\* open_granules is off by the granules that resets have forgotten and by no more,
\* with any number of threads.
THEOREM DriftBounded ==
    ASSUME SoundSlots, WideCounters PROVE ProfilerSpec => []OpenDrift
  <1>1. ProfilerInit => DriftInv
    <2> SUFFICES ASSUME ProfilerInit PROVE DriftInv
      OBVIOUS
    <2>1. Taken = {} /\ Claimed = {} /\ Released = {} /\ counters["open_granules"] = 0 /\ forgotten = 0
      BY DEF ProfilerInit, DiagSlotsInit, ClientInit, ApiInit, CountersInit, CounterNames,
             Taken, Claimed, Released, Closed, Detached
    <2>2. (0 + 0) % CounterMod = 0
      BY CountersAssumption
    <2>3. Cardinality(Taken) = 0 /\ Cardinality(Claimed) = 0 /\ Cardinality(Released) = 0
      BY <2>1, FS_EmptySet
    <2>4. OpenDrift
      BY <2>1, <2>2, <2>3 DEF OpenDrift, Taken
    <2> QED
      BY <2>1, <2>4, ClientAssumption DEF DriftInv
  <1>2. DiagnosticInv /\ DiagnosticInv' /\ DriftInv /\ [ProfilerNext]_profVars => DriftInv'
    BY DriftNext
  <1>3. DriftInv => OpenDrift
    BY DEF DriftInv
  <1>4. ProfilerSpec => []DiagnosticInv
    BY DiagnosticCorrect
  <1> QED
    BY <1>1, <1>2, <1>3, <1>4, PTL DEF ProfilerSpec

=============================================================================
