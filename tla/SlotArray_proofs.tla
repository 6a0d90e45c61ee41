--------------------------- MODULE SlotArray_proofs ---------------------------
(***************************************************************************)
(* Proofs about SlotArray, for every set of threads and granules, every    *)
(* capacity and every hash function.                                       *)
(***************************************************************************)
EXTENDS SlotArray, Client_proofs

\* A probe that starts anywhere and wraps around stays in the array.
LEMMA SlotAtInSlots ==
    ASSUME NEW g \in Granules, NEW p \in Slots
    PROVE  SlotAt(g, p) \in Slots
BY ClientAssumption, SlotArrayAssumption DEF SlotAt, Slots

\* The slot an active thread is at is a slot.
LEMMA CurInSlots ==
    ASSUME SlotTypeOK, NEW t \in Threads, Active(t)
    PROVE  call[t].id \in Granules /\ Cur(t) \in Slots
BY SlotAtInSlots DEF SlotTypeOK, ClientTypeOK, Calls, Cur

-----------------------------------------------------------------------------
(* Type correctness                                                        *)

\* A call is one of module Client, and touches no slot.
LEMMA CallIsClientCall ==
    ASSUME NEW t \in Threads, Call(t)
    PROVE  /\ \E g \in Granules : ClientCall(t, g, "open_occupied", "find_occupied")
           /\ UNCHANGED <<slotVars, probe>>
BY DEF Call, ClientCall

\* A call by a client keeps the types.
LEMMA CallSlotType ==
    ASSUME SlotTypeOK, PcIsFun, NEW t \in Threads, Call(t)
    PROVE  /\ SlotTypeOK' /\ PcIsFun'
           /\ pc' = [pc EXCEPT ![t] = IF call'[t].fn = "open" THEN "open_occupied"
                                      ELSE "find_occupied"]
<1>1. PICK g \in Granules : ClientCall(t, g, "open_occupied", "find_occupied")
      BY CallIsClientCall
<1>2. ClientTypeOK'
      BY <1>1, CallType DEF SlotTypeOK
<1>3. pc' = [pc EXCEPT ![t] = IF call'[t].fn = "open" THEN "open_occupied" ELSE "find_occupied"]
      BY <1>1, CallFrame DEF SlotTypeOK
<1> QED BY <1>2, <1>3, CallIsClientCall DEF SlotTypeOK, slotVars, PcIsFun

\* An operation of the array keeps the types, and ends at a label.
LEMMA SlotStepType ==
    ASSUME SlotTypeOK, PcIsFun, LabelInv, NEW t \in Threads, SlotStep(t)
    PROVE  SlotTypeOK' /\ PcIsFun' /\ pc'[t] \in Labels
<1> USE DEF PcIsFun, SlotTypeOK, ClientTypeOK, slotVars, bookVars, Active,
            Labels, Goto, Answer, NextProbe
<1>c. pc[t] # "idle" => Cur(t) \in Slots
      BY CurInSlots
<1>e. Error(call[t].fn) \in Int
      BY SlotArrayAssumption DEF Error, NotFound
<1>p. probe[t] + 1 < Capacity => probe[t] + 1 \in Slots
      BY ClientAssumption DEF Slots
<1>1. CASE FindLoadOccupied(t)
      BY <1>1, <1>e DEF FindLoadOccupied
<1>2. CASE FindLoadId(t)
  <2>1. AfterFind(call[t].fn) \in {"close_load", "fetch_add", "fetch_sub"}
        BY <1>2 DEF FindLoadId, AfterFind, LabelInv
  <2>2. UNCHANGED <<slotVars, call, bookVars>>
        BY <1>2 DEF FindLoadId
  <2>3. CASE granule_id[Cur(t)] = call[t].id
        BY <1>2, <2>1, <2>2, <2>3 DEF FindLoadId
  <2>4. CASE granule_id[Cur(t)] # call[t].id
        BY <1>2, <1>e, <1>p, <2>2, <2>4 DEF FindLoadId
  <2> QED BY <2>3, <2>4
<1>3. CASE OpenLoadOccupied(t)
      BY <1>3 DEF OpenLoadOccupied
<1>4. CASE OpenLoadId(t)
      BY <1>4, <1>p DEF OpenLoadId
<1>5. CASE OpenClaim(t)
      BY <1>5, <1>p, <1>c DEF OpenClaim
<1>6. CASE OpenStoreId(t)
      BY <1>6, <1>c, CurInSlots DEF OpenStoreId
<1>7. CASE OpenStoreLive(t)
      BY <1>7, <1>c, SlotArrayAssumption DEF OpenStoreLive
<1>8. CASE CloseLoadLive(t)
  <2>1. live_count[Cur(t)] \in Int
        BY <1>8, <1>c, SlotArrayAssumption DEF CloseLoadLive
  <2> QED BY <1>8, <2>1 DEF CloseLoadLive
<1>9. CASE CloseClearLive(t)
      BY <1>9, <1>c, SlotArrayAssumption DEF CloseClearLive
<1>10. CASE CloseClearId(t)
      BY <1>10, <1>c DEF CloseClearId
<1>11. CASE CloseRelease(t)
      BY <1>11, <1>c DEF CloseRelease
<1>12. CASE AllocFetchAdd(t)
      BY <1>12, <1>c, SlotArrayAssumption DEF AllocFetchAdd
<1>13. CASE DeallocFetchSub(t)
      BY <1>13, <1>c, SlotArrayAssumption DEF DeallocFetchSub
<1> QED BY <1>1, <1>2, <1>3, <1>4, <1>5, <1>6, <1>7, <1>8, <1>9, <1>10, <1>11,
           <1>12, <1>13 DEF SlotStep

\* So does the return from a call.
LEMMA ReturnSlotType ==
    ASSUME SlotTypeOK, PcIsFun, NEW t \in Threads, Return(t)
    PROVE  SlotTypeOK' /\ PcIsFun' /\ pc'[t] = "idle"
<1>1. ClientReturn(t) /\ Active(t)
      BY DEF Return, Active
<1>2. ClientTypeOK'
      BY <1>1, ReturnType DEF SlotTypeOK
<1>3. pc' = [pc EXCEPT ![t] = "idle"]
      BY <1>1 DEF ClientReturn
<1>4. probe' \in [Threads -> Slots] /\ UNCHANGED slotVars
      BY ClientAssumption DEF Return, Slots, SlotTypeOK
<1> QED BY <1>2, <1>3, <1>4 DEF SlotTypeOK, slotVars, PcIsFun

-----------------------------------------------------------------------------
(* The contract and the labels                                             *)

\* An operation of the array moves one active thread on, and leaves the calls
\* and the client's bookkeeping alone.
LEMMA SlotStepFrame ==
    ASSUME SlotTypeOK, PcIsFun, LabelInv, NEW t \in Threads, SlotStep(t)
    PROVE  /\ UNCHANGED <<call, bookVars>>
           /\ Active(t) /\ Active(t)'
           /\ \A u \in Threads \ {t} : pc'[u] = pc[u] /\ probe'[u] = probe[u] /\ ret'[u] = ret[u]
           /\ LabelInv'
<1> USE DEF PcIsFun, SlotTypeOK, ClientTypeOK, bookVars, Active, LabelInv, Goto, Answer, NextProbe
<1>1. CASE FindLoadOccupied(t)  BY <1>1 DEF FindLoadOccupied
<1>2. CASE FindLoadId(t)
  <2>1. call[t].fn \in {"close", "alloc", "dealloc"}
        BY <1>2 DEF FindLoadId
  <2>2. AfterFind(call[t].fn) = IF call[t].fn = "close" THEN "close_load"
                                ELSE IF call[t].fn = "alloc" THEN "fetch_add"
                                ELSE "fetch_sub"
        BY <2>1 DEF AfterFind
  <2> QED BY <1>2, <2>1, <2>2 DEF FindLoadId
<1>3. CASE OpenLoadOccupied(t)  BY <1>3 DEF OpenLoadOccupied
<1>4. CASE OpenLoadId(t)        BY <1>4 DEF OpenLoadId
<1>5. CASE OpenClaim(t)         BY <1>5 DEF OpenClaim
<1>6. CASE OpenStoreId(t)       BY <1>6 DEF OpenStoreId
<1>7. CASE OpenStoreLive(t)     BY <1>7 DEF OpenStoreLive
<1>8. CASE CloseLoadLive(t)     BY <1>8 DEF CloseLoadLive
<1>9. CASE CloseClearLive(t)    BY <1>9 DEF CloseClearLive
<1>10. CASE CloseClearId(t)     BY <1>10 DEF CloseClearId
<1>11. CASE CloseRelease(t)     BY <1>11 DEF CloseRelease
<1>12. CASE AllocFetchAdd(t)    BY <1>12 DEF AllocFetchAdd
<1>13. CASE DeallocFetchSub(t)  BY <1>13 DEF DeallocFetchSub
<1> QED BY <1>1, <1>2, <1>3, <1>4, <1>5, <1>6, <1>7, <1>8, <1>9, <1>10, <1>11,
           <1>12, <1>13 DEF SlotStep

\* A call made under the contract keeps the contract, and starts with an
\* operation of its function.
LEMMA CallSlotContract ==
    ASSUME SlotTypeOK, PcIsFun, ContractInv, LabelInv, NEW t \in Threads, Call(t)
    PROVE  ContractInv' /\ LabelInv'
<1>1. PICK g \in Granules : ClientCall(t, g, "open_occupied", "find_occupied")
      BY CallIsClientCall
<1>2. PcIsFun /\ ClientTypeOK
      BY DEF SlotTypeOK, PcIsFun
<1>3. ContractInv'
      BY <1>1, <1>2, CallContract
<1>4. LabelInv'
      BY <1>1, <1>2, CallFrame DEF LabelInv, Calls, PcIsFun
<1> QED BY <1>3, <1>4

\* An answer keeps both.
LEMMA ReturnSlotContract ==
    ASSUME SlotTypeOK, PcIsFun, ContractInv, LabelInv, NEW t \in Threads, Return(t)
    PROVE  ContractInv' /\ LabelInv'
<1>1. PcIsFun /\ ClientTypeOK /\ ClientReturn(t) /\ Active(t)
      BY DEF SlotTypeOK, PcIsFun, Return, Active
<1>2. ContractInv'
      BY <1>1, ReturnContract
<1>3. LabelInv'
      BY <1>1, ReturnFrame DEF LabelInv, PcIsFun
<1> QED BY <1>2, <1>3

-----------------------------------------------------------------------------
(* The slots                                                               *)

\* Two threads that own or count in the same slot are the same thread, unless
\* both count: what ExclusiveSlot says, from the invariant's parts.
LEMMA OwnerAlone ==
    ASSUME SlotTypeOK, PcIsFun, ContractInv, LabelInv, OwnerInv, RightSlot, SoundIds,
           NEW t \in Threads, Owning(t),
           NEW u \in Threads,
           Owning(u) \/ pc[u] \in {"fetch_add", "fetch_sub"},
           Cur(t) = Cur(u)
    PROVE  t = u
<1>1. Active(t) /\ Active(u) /\ call[t].id # NoId /\ call[u].id # NoId
      BY CurInSlots DEF Owning, Active, SoundIds
<1>2. CASE Owning(u)
      BY <1>2 DEF OwnerInv
<1>3. CASE pc[u] \in {"fetch_add", "fetch_sub"}
  <2>1. granule_id[Cur(u)] = call[u].id /\ call[u].fn \in {"alloc", "dealloc"}
        BY <1>3 DEF RightSlot, LabelInv
  <2>2. pc[t] \notin {"open_set_id", "close_release"}
        BY <1>1, <2>1 DEF OwnerInv
  <2>3. call[t].id = call[u].id
        BY <2>1, <2>2 DEF OwnerInv, RightSlot, Owning
  <2>4. call[t].fn \in {"open", "close"}
        BY DEF Owning, LabelInv
  <2>5. call[t].fn # "close" => phase[call[t].id] = "opening"
        BY <1>1, <2>4 DEF ContractInv, PhaseInv, Calling
  <2>6. phase[call[u].id] # "opening"
        BY <1>1, <2>1 DEF ContractInv, PhaseInv, Calling, SoundIds
  <2> QED BY <1>1, <2>3, <2>5, <2>6 DEF ContractInv, AloneInv
<1> QED BY <1>2, <1>3

\* An operation of the array keeps every slot with its owner and every probe
\* that succeeded at its granule.
LEMMA SlotStepOwner ==
    ASSUME SlotTypeOK, PcIsFun, ContractInv, LabelInv, OwnerInv, RightSlot, SoundIds,
           NEW t \in Threads, SlotStep(t)
    PROVE  OwnerInv' /\ RightSlot'
<1> DEFINE s == Cur(t)
<1>1. /\ UNCHANGED <<call, bookVars>>
      /\ Active(t) /\ Active(t)'
      /\ \A u \in Threads \ {t} : pc'[u] = pc[u] /\ probe'[u] = probe[u]
      BY SlotStepFrame
<1>2. s \in Slots /\ call[t].id \in Granules /\ call[t].id # NoId
      BY <1>1, CurInSlots DEF SoundIds
<1>3. \A u \in Threads \ {t} : Cur(u)' = Cur(u) /\ Owning(u)' = Owning(u)
      BY <1>1 DEF Cur, SlotAt, Owning
<1>4. \A u \in Threads \ {t} :
          Owning(u) \/ pc[u] \in {"fetch_add", "fetch_sub"}
          => /\ Cur(u) \in Slots
             /\ call[u].id # NoId
             /\ Owning(t) => Cur(u) # s
      BY OwnerAlone, CurInSlots DEF Owning, Active, SoundIds
<1>5. CASE /\ UNCHANGED <<occupied, granule_id>>
           /\ ~Owning(t)'
           /\ pc'[t] \notin {"fetch_add", "fetch_sub"}
      BY <1>1, <1>3, <1>5 DEF OwnerInv, RightSlot, Cur, SlotAt, Owning
<1>6. CASE FindLoadId(t) /\ granule_id[s] = call[t].id
  <2>1. /\ UNCHANGED <<slotVars, call, probe>>
        /\ pc' = [pc EXCEPT ![t] = AfterFind(call[t].fn)]
        /\ call[t].fn \in {"close", "alloc", "dealloc"}
        BY <1>6 DEF FindLoadId, Goto, LabelInv
  <2>2. pc'[t] = IF call[t].fn = "close" THEN "close_load"
                 ELSE IF call[t].fn = "alloc" THEN "fetch_add" ELSE "fetch_sub"
        BY <2>1 DEF AfterFind, PcIsFun
  <2>3. Cur(t)' = s
        BY <2>1 DEF Cur, SlotAt
  <2>4. occupied[s] = 1
        BY <1>2, <1>6 DEF OwnerInv, PcIsFun, SlotTypeOK
  <2>5. RightSlot'
        BY <1>1, <1>3, <1>6, <2>1, <2>3, <2>4 DEF RightSlot, slotVars
  \* Nobody owns the slot of the granule a close has found: an opener of that
  \* granule and another close are excluded by the contract, and a slot being
  \* initialised or released stores no id.
  <2>6. ASSUME NEW u \in Threads \ {t}, Owning(u), Cur(u) = s, call[t].fn = "close"
        PROVE  FALSE
    <3>1. call[u].id = call[t].id
          BY <1>2, <1>6, <2>6 DEF OwnerInv, RightSlot, Owning
    <3>2. Active(u)
          BY <2>6 DEF Owning, Active
    <3> QED BY <1>1, <2>6, <3>1, <3>2 DEF ContractInv, AloneInv
  <2>7. OwnerInv'
        BY <1>1, <1>3, <2>1, <2>2, <2>3, <2>6 DEF OwnerInv, slotVars, Owning
  <2> QED BY <2>5, <2>7
<1>7. CASE OpenClaim(t) /\ occupied[s] = 0
  <2>1. /\ UNCHANGED <<granule_id, call, probe>>
        /\ occupied' = [occupied EXCEPT ![s] = 1]
        /\ pc'[t] = "open_set_id"
        BY <1>7 DEF OpenClaim, Goto, PcIsFun
  <2>2. Cur(t)' = s
        BY <2>1 DEF Cur, SlotAt
  <2>3. granule_id[s] = NoId
        BY <1>2, <1>7 DEF OwnerInv
  <2>4. \A u \in Threads \ {t} :
            Owning(u) \/ pc[u] \in {"fetch_add", "fetch_sub"} => Cur(u) # s
        BY <1>7 DEF OwnerInv, RightSlot, Owning
  <2>5. OwnerInv'
        BY <1>1, <1>2, <1>3, <2>1, <2>2, <2>3, <2>4
        DEF OwnerInv, Owning, PcIsFun, SlotTypeOK
  <2>6. RightSlot'
        BY <1>1, <1>2, <1>3, <1>4, <2>1, <2>4 DEF RightSlot, Owning, PcIsFun, SlotTypeOK
  <2> QED BY <2>5, <2>6
<1>8. CASE OpenStoreId(t)
  <2>1. /\ UNCHANGED <<occupied, call, probe>>
        /\ granule_id' = [granule_id EXCEPT ![s] = call[t].id]
        /\ pc[t] = "open_set_id"
        /\ pc'[t] = "open_set_live"
        BY <1>8 DEF OpenStoreId, Goto, PcIsFun
  <2>2. Cur(t)' = s /\ Owning(t)
        BY <2>1 DEF Cur, SlotAt, Owning
  <2>3. OwnerInv'
        BY <1>1, <1>2, <1>3, <1>4, <2>1, <2>2 DEF OwnerInv, Owning, PcIsFun, SlotTypeOK
  <2>4. RightSlot'
        BY <1>1, <1>2, <1>3, <1>4, <2>1, <2>2 DEF RightSlot, Owning, PcIsFun, SlotTypeOK
  <2> QED BY <2>3, <2>4
<1>9. CASE CloseLoadLive(t) \/ CloseClearLive(t)
  <2>1. /\ UNCHANGED <<occupied, granule_id, call, probe>>
        /\ pc[t] \in {"close_load", "close_clear_live"}
        /\ pc'[t] \in {"close_clear_live", "close_clear_id"}
        BY <1>9 DEF CloseLoadLive, CloseClearLive, Goto, PcIsFun, slotVars
  <2>2. Cur(t)' = s /\ Owning(t) /\ Owning(t)'
        BY <2>1 DEF Cur, SlotAt, Owning
  <2>3. OwnerInv'
        BY <1>1, <1>3, <2>1, <2>2 DEF OwnerInv
  <2>4. RightSlot'
        BY <1>1, <1>3, <2>1, <2>2 DEF RightSlot
  <2> QED BY <2>3, <2>4
<1>10. CASE CloseClearId(t)
  <2>1. /\ UNCHANGED <<occupied, call, probe>>
        /\ granule_id' = [granule_id EXCEPT ![s] = NoId]
        /\ pc[t] = "close_clear_id"
        /\ pc'[t] = "close_release"
        BY <1>10 DEF CloseClearId, Goto, PcIsFun
  <2>2. Cur(t)' = s /\ Owning(t)
        BY <2>1 DEF Cur, SlotAt, Owning
  <2>3. occupied[s] = 1
        BY <2>1 DEF RightSlot
  <2>4. OwnerInv'
        BY <1>1, <1>2, <1>3, <1>4, <2>1, <2>2, <2>3
        DEF OwnerInv, Owning, PcIsFun, SlotTypeOK
  <2>5. RightSlot'
        BY <1>1, <1>2, <1>3, <1>4, <2>1, <2>2 DEF RightSlot, Owning, PcIsFun, SlotTypeOK
  <2> QED BY <2>4, <2>5
<1>11. CASE CloseRelease(t)
  <2>1. /\ UNCHANGED <<granule_id, call, probe>>
        /\ occupied' = [occupied EXCEPT ![s] = 0]
        /\ pc[t] = "close_release"
        /\ pc'[t] = "ret"
        BY <1>11 DEF CloseRelease, Goto, PcIsFun
  <2>2. Owning(t) /\ ~Owning(t)' /\ granule_id[s] = NoId
        BY <2>1 DEF Owning, OwnerInv
  <2>3. OwnerInv'
        BY <1>1, <1>2, <1>3, <1>4, <2>1, <2>2
        DEF OwnerInv, Owning, PcIsFun, SlotTypeOK
  <2>4. RightSlot'
        BY <1>1, <1>2, <1>3, <1>4, <2>1, <2>2 DEF RightSlot, Owning, PcIsFun, SlotTypeOK
  <2> QED BY <2>3, <2>4
<1> USE DEF Goto, Answer, NextProbe, PcIsFun, slotVars, Owning
<1>12. CASE FindLoadOccupied(t)
       BY <1>5, <1>12 DEF FindLoadOccupied
<1>13. CASE FindLoadId(t) /\ granule_id[s] # call[t].id
       BY <1>5, <1>13 DEF FindLoadId
<1>14. CASE OpenLoadOccupied(t)
       BY <1>5, <1>14 DEF OpenLoadOccupied
<1>15. CASE OpenLoadId(t)
       BY <1>5, <1>15 DEF OpenLoadId
<1>16. CASE OpenClaim(t) /\ occupied[s] # 0
       BY <1>5, <1>16 DEF OpenClaim
<1>17. CASE OpenStoreLive(t)
       BY <1>5, <1>17 DEF OpenStoreLive
<1>18. CASE AllocFetchAdd(t) \/ DeallocFetchSub(t)
       BY <1>5, <1>18 DEF AllocFetchAdd, DeallocFetchSub
<1> QED BY <1>6, <1>7, <1>8, <1>9, <1>10, <1>11, <1>12, <1>13, <1>14, <1>15, <1>16,
           <1>17, <1>18 DEF SlotStep

\* Calls and answers touch no slot.
LEMMA FrameOwner ==
    ASSUME SlotTypeOK, PcIsFun, OwnerInv, RightSlot, NEW t \in Threads, Call(t) \/ Return(t)
    PROVE  OwnerInv' /\ RightSlot'
<1>1. /\ UNCHANGED slotVars
      /\ \A u \in Threads \ {t} :
            pc'[u] = pc[u] /\ call'[u] = call[u] /\ probe'[u] = probe[u]
      /\ pc'[t] \in {"idle", "open_occupied", "find_occupied"}
      BY DEF Call, CallOpen, CallClose, CallAlloc, CallDealloc, CallLateDealloc, Enter,
             Return, ClientReturn, PcIsFun, SlotTypeOK, ClientTypeOK
<1>2. \A u \in Threads \ {t} : Cur(u)' = Cur(u) /\ Owning(u)' = Owning(u)
      BY <1>1 DEF Cur, SlotAt, Owning
<1> QED BY <1>1, <1>2 DEF OwnerInv, RightSlot, Owning, slotVars

-----------------------------------------------------------------------------
(* The theorems                                                            *)

\* The inductive invariant holds at first.
LEMMA SlotInvInit == Init => SlotInv
<1> SUFFICES ASSUME Init PROVE SlotInv
    OBVIOUS
<1> USE DEF Init, SlotInit, ClientInit, Active, Calling, Owning
<1>1. TypeOK
      BY ClientAssumption, SlotArrayAssumption
      DEF TypeOK, SlotTypeOK, ClientTypeOK, Slots, Labels
<1>2. ContractInv
      BY ContractInit DEF Init
<1>3. LabelInv
      BY DEF LabelInv
<1>4. OwnerInv /\ RightSlot
      BY DEF OwnerInv, RightSlot
<1> QED BY <1>1, <1>2, <1>3, <1>4 DEF SlotInv

\* Every step of every thread keeps it.
LEMMA SlotInvNext == ASSUME SoundIds PROVE SlotInv /\ [Next]_vars => SlotInv'
<1> SUFFICES ASSUME SlotInv, [Next]_vars PROVE SlotInv'
    OBVIOUS
<1>1. CASE UNCHANGED vars
      BY <1>1 DEF SlotInv, vars, slotVars, clientVars, bookVars, TypeOK, SlotTypeOK,
           ClientTypeOK, ContractInv, PhaseInv, AloneInv, UnopenedInv, LabelInv,
           OwnerInv, RightSlot, Active, Calling, Owning, Cur, SlotAt
<1>p. SlotTypeOK /\ PcIsFun
      BY DEF SlotInv, TypeOK, PcIsFun
<1>2. ASSUME NEW t \in Threads, Call(t) PROVE SlotInv'
  <2>1. TypeOK'
        BY <1>2, <1>p, CallSlotType DEF SlotInv, TypeOK, Labels
  <2> QED BY <1>2, <1>p, <2>1, CallSlotContract, FrameOwner DEF SlotInv
<1>3. ASSUME NEW t \in Threads, Return(t) PROVE SlotInv'
  <2>1. TypeOK'
        BY <1>3, <1>p, ReturnSlotType DEF SlotInv, TypeOK, Labels, Return, ClientReturn
  <2> QED BY <1>3, <1>p, <2>1, ReturnSlotContract, FrameOwner DEF SlotInv
<1>4. ASSUME NEW t \in Threads, SlotStep(t) PROVE SlotInv'
  <2>t. /\ SlotTypeOK' /\ PcIsFun' /\ pc'[t] \in Labels
        /\ \A u \in Threads \ {t} : pc'[u] = pc[u]
        BY <1>4, <1>p, SlotStepType, SlotStepFrame DEF SlotInv
  <2>1. TypeOK' /\ OwnerInv' /\ RightSlot'
        BY <1>4, <1>p, <2>t, SlotStepOwner DEF SlotInv, TypeOK, PcIsFun
  <2>2. LabelInv' /\ UNCHANGED <<call, bookVars>>
        BY <1>4, <1>p, SlotStepFrame DEF SlotInv
  <2>3. \A u \in Threads : Active(u)' = Active(u)
        BY <1>4, <1>p, SlotStepFrame DEF SlotInv, Active
  <2>4. ContractInv'
        BY <2>2, <2>3, StepContract DEF SlotInv
  <2> QED BY <2>1, <2>2, <2>4 DEF SlotInv
<1> QED BY <1>1, <1>2, <1>3, <1>4 DEF Next, Step

\* It implies that a slot has one owner and nobody else counts in it.
LEMMA SlotInvExclusive == ASSUME SoundIds, SlotInv PROVE ExclusiveSlot
<1> SUFFICES ASSUME NEW s \in Slots, NEW t \in Owners(s)
             PROVE  Owners(s) = {t} /\ Counting(s) = {}
    BY DEF ExclusiveSlot
<1>1. \A u \in Threads :
          (Owning(u) \/ pc[u] \in {"fetch_add", "fetch_sub"}) /\ Cur(u) = s => u = t
      BY OwnerAlone DEF Owners, SlotInv, TypeOK, PcIsFun
<1>2. pc[t] \notin {"fetch_add", "fetch_sub"}
      BY DEF Owners, Owning
<1> QED BY <1>1, <1>2 DEF Owners, Counting

\* The invariant holds in every state of every instance.
THEOREM SlotsInvariant == ASSUME SoundIds PROVE Spec => []SlotInv
BY SlotInvInit, SlotInvNext, PTL DEF Spec

\* Every variable has its type: no probe leaves the array, no count its range.
THEOREM TypeCorrect == ASSUME SoundIds PROVE Spec => []TypeOK
<1>1. SlotInv => TypeOK
      BY DEF SlotInv
<1> QED BY <1>1, SlotsInvariant, PTL

\* For every number of threads and granules, every capacity and every hash
\* function, colliding or not: no slot is initialised or cleared by two threads,
\* or counted in meanwhile.
THEOREM SlotsExclusive == ASSUME SoundIds PROVE Spec => []ExclusiveSlot
BY SlotsInvariant, SlotInvExclusive, PTL

\* And every update lands in a slot of the granule it was meant for.
THEOREM SlotsRight == ASSUME SoundIds PROVE Spec => []RightSlot
<1>1. SlotInv => RightSlot
      BY DEF SlotInv
<1> QED BY <1>1, SlotsInvariant, PTL
-----------------------------------------------------------------------------
(* Counting the living allocations                                         *)

\* A call is its function and its granule.
LEMMA CallIs ==
    ASSUME NEW c \in Calls, NEW fn, NEW g
    PROVE  c = [fn |-> fn, id |-> g] <=> c.fn = fn /\ c.id = g
BY DEF Calls

\* Who is counted, who is pending, and who registers.
LEMMA Members ==
    ASSUME ClientTypeOK, NEW t \in Threads, NEW g
    PROVE  /\ t \in Counted(g) <=>
                 pc[t] = "ret" /\ ret[t] = 0 /\ call[t].fn = "alloc" /\ call[t].id = g
           /\ t \in Pending(g) <=>
                 Active(t) /\ pc[t] # "ret" /\ call[t].fn = "dealloc" /\ call[t].id = g
           /\ t \in Registering(g) <=>
                 Active(t) /\ call[t].fn = "alloc" /\ call[t].id = g
<1>1. Active(t) => call[t] \in Calls
      BY DEF ClientTypeOK
<1>2. pc[t] = "ret" => Active(t)
      BY DEF Active
<1> QED BY <1>1, <1>2, CallIs DEF Counted, Pending, Registering

\* The same after a step.
LEMMA MembersNext ==
    ASSUME ClientTypeOK', NEW t \in Threads, NEW g
    PROVE  /\ t \in Counted(g)' <=>
                 pc'[t] = "ret" /\ ret'[t] = 0 /\ call'[t].fn = "alloc" /\ call'[t].id = g
           /\ t \in Pending(g)' <=>
                 Active(t)' /\ pc'[t] # "ret" /\ call'[t].fn = "dealloc" /\ call'[t].id = g
           /\ t \in Registering(g)' <=>
                 Active(t)' /\ call'[t].fn = "alloc" /\ call'[t].id = g
<1>1. Active(t)' => call'[t] \in Calls
      BY DEF ClientTypeOK, Active
<1>2. pc'[t] = "ret" => Active(t)'
      BY DEF Active
<1> QED BY <1>1, <1>2, CallIs DEF Counted, Pending, Registering

\* A step of thread t moves no other thread in or out.
LEMMA OneMoves ==
    ASSUME IsFiniteSet(Threads), NEW t \in Threads, NEW g,
           \A u \in Threads \ {t} : pc'[u] = pc[u] /\ call'[u] = call[u] /\ ret'[u] = ret[u]
    PROVE  /\ IsFiniteSet(Counted(g)) /\ IsFiniteSet(Pending(g)) /\ IsFiniteSet(Registering(g))
           /\ IsFiniteSet(Counted(g)') /\ IsFiniteSet(Pending(g)') /\ IsFiniteSet(Registering(g)')
           /\ Counted(g) \ {t} = Counted(g)' \ {t}
           /\ Pending(g) \ {t} = Pending(g)' \ {t}
           /\ Registering(g) \ {t} = Registering(g)' \ {t}
<1>1. /\ Counted(g) \subseteq Threads /\ Pending(g) \subseteq Threads /\ Registering(g) \subseteq Threads
      /\ Counted(g)' \subseteq Threads /\ Pending(g)' \subseteq Threads /\ Registering(g)' \subseteq Threads
      BY DEF Counted, Pending, Registering
<1>2. /\ Counted(g) \ {t} = Counted(g)' \ {t}
      /\ Pending(g) \ {t} = Pending(g)' \ {t}
      /\ Registering(g) \ {t} = Registering(g)' \ {t}
      BY DEF Counted, Pending, Registering, Active
<1> QED BY <1>1, <1>2, FS_Subset

-----------------------------------------------------------------------------
(* One operation                                                           *)

\* An operation of the array runs inside a call that has no answer yet.
LEMMA SlotStepRuns ==
    ASSUME NEW t \in Threads, SlotStep(t)
    PROVE  pc[t] \in FindLabels \cup OpenLabels
                     \cup {"close_load", "close_clear_live", "close_clear_id", "close_release",
                           "fetch_add", "fetch_sub"}
BY DEF SlotStep, FindLoadOccupied, FindLoadId, OpenLoadOccupied, OpenLoadId, OpenClaim,
       OpenStoreId, OpenStoreLive, CloseLoadLive, CloseClearLive, CloseClearId, CloseRelease,
       AllocFetchAdd, DeallocFetchSub, FindLabels, OpenLabels

\* It touches the slot its thread is at, and no other.
LEMMA SlotStepLocal ==
    ASSUME SlotTypeOK, NEW t \in Threads, SlotStep(t), NEW x \in Slots, x # Cur(t)
    PROVE  /\ occupied'[x] = occupied[x]
           /\ granule_id'[x] = granule_id[x]
           /\ live_count'[x] = live_count[x]
<1> USE DEF SlotTypeOK, slotVars
<1>1. CASE OpenClaim(t)       BY <1>1 DEF OpenClaim
<1>2. CASE OpenStoreId(t)     BY <1>2 DEF OpenStoreId
<1>3. CASE OpenStoreLive(t)   BY <1>3 DEF OpenStoreLive
<1>4. CASE CloseClearLive(t)  BY <1>4 DEF CloseClearLive
<1>5. CASE CloseClearId(t)    BY <1>5 DEF CloseClearId
<1>6. CASE CloseRelease(t)    BY <1>6 DEF CloseRelease
<1>7. CASE AllocFetchAdd(t)   BY <1>7 DEF AllocFetchAdd
<1>8. CASE DeallocFetchSub(t) BY <1>8 DEF DeallocFetchSub
<1>9. CASE UNCHANGED slotVars BY <1>9
<1> QED BY <1>1, <1>2, <1>3, <1>4, <1>5, <1>6, <1>7, <1>8, <1>9
        DEF SlotStep, FindLoadOccupied, FindLoadId, OpenLoadOccupied, OpenLoadId, CloseLoadLive

\* The operation answers a register with success, or a deregister.
Registered(t)   == call[t].fn = "alloc" /\ pc'[t] = "ret" /\ ret'[t] = 0
Deregistered(t) == call[t].fn = "dealloc" /\ pc'[t] = "ret"

\* The first adds an allocation to its granule, the second takes one away.
LEMMA SlotStepLiving ==
    ASSUME SlotTypeOK, PcIsFun, LabelInv, IsFiniteSet(Threads),
           NEW t \in Threads, SlotStep(t), NEW g \in Granules
    PROVE  /\ Living(g) \in Nat /\ Living(g)' \in Nat
           /\ Registering(g)' = Registering(g)
           /\ call[t].id = g /\ Registered(t) => Living(g)' = Living(g) + 1
           /\ call[t].id = g /\ Deregistered(t) => Living(g)' = Living(g) - 1
           /\ call[t].id # g \/ ~(Registered(t) \/ Deregistered(t)) => Living(g)' = Living(g)
<1>1. /\ UNCHANGED <<call, held>> /\ Active(t) /\ Active(t)'
      /\ \A u \in Threads \ {t} : pc'[u] = pc[u] /\ call'[u] = call[u] /\ ret'[u] = ret[u]
      BY SlotStepFrame DEF bookVars
<1>2. ClientTypeOK /\ ClientTypeOK'
      BY SlotStepType DEF SlotTypeOK
<1>3. pc[t] # "ret"
      BY SlotStepRuns DEF FindLabels, OpenLabels
<1>4. /\ t \notin Counted(g)
      /\ t \in Counted(g)' <=> call[t].id = g /\ Registered(t)
      /\ t \in Pending(g) <=> call[t].fn = "dealloc" /\ call[t].id = g
      /\ t \in Pending(g)' <=> call[t].fn = "dealloc" /\ call[t].id = g /\ ~Deregistered(t)
      /\ t \in Registering(g)' <=> t \in Registering(g)
      BY <1>1, <1>2, <1>3, Members, MembersNext DEF Registered, Deregistered
<1>5. /\ IsFiniteSet(Counted(g)) /\ IsFiniteSet(Pending(g))
      /\ IsFiniteSet(Counted(g)') /\ IsFiniteSet(Pending(g)')
      /\ Counted(g) \ {t} = Counted(g)' \ {t}
      /\ Pending(g) \ {t} = Pending(g)' \ {t}
      /\ Registering(g) \ {t} = Registering(g)' \ {t}
      BY <1>1, OneMoves
<1>6. /\ Cardinality(Counted(g)) \in Nat /\ Cardinality(Counted(g)') \in Nat
      /\ t \notin Counted(g)' => Cardinality(Counted(g)') = Cardinality(Counted(g))
      /\ t \in Counted(g)' => Cardinality(Counted(g)') = Cardinality(Counted(g)) + 1
      BY <1>4, <1>5, MovedOne
<1>7. /\ Cardinality(Pending(g)) \in Nat /\ Cardinality(Pending(g)') \in Nat
      /\ t \in Pending(g)' <=> t \in Pending(g) => Cardinality(Pending(g)') = Cardinality(Pending(g))
      /\ t \in Pending(g) /\ t \notin Pending(g)' => Cardinality(Pending(g)') = Cardinality(Pending(g)) - 1
      BY <1>5, MovedOne
<1>8. held[g] \in Nat /\ held'[g] = held[g]
      BY <1>1, <1>2 DEF ClientTypeOK
<1>9. Registering(g)' = Registering(g)
      BY <1>4, <1>5
<1> QED BY <1>4, <1>6, <1>7, <1>8, <1>9 DEF Living, Registered, Deregistered

\* A call that opens or closes a granule has it to itself.
LEMMA OpenCloseAlone ==
    ASSUME ClientTypeOK, ContractInv, SoundIds,
           NEW t \in Threads, Active(t), call[t].fn \in {"open", "close"},
           NEW u \in Threads \ {t}, Active(u)
    PROVE  call[u].id # call[t].id
BY DEF ContractInv, AloneInv, PhaseInv, Calling, SoundIds, ClientTypeOK, Calls

-----------------------------------------------------------------------------
(* Distinct homes: every granule is where its id hashes to                 *)

\* What the invariants say together.
Sound == SlotTypeOK /\ PcIsFun /\ ContractInv /\ LabelInv /\ OwnerInv /\ RightSlot /\ SoundIds

\* The home of a granule is a slot.
LEMMA HomeInSlots == \A g \in Granules : Home(g) \in Slots
BY SlotAtInSlots, ClientAssumption DEF Home, Slots

\* The operation of thread t keeps the others at home.
LEMMA OthersAtHome ==
    ASSUME Sound, HomesDistinct, HomeInv, NEW t \in Threads, SlotStep(t), AtHome(t)',
           \/ UNCHANGED <<occupied, granule_id>>
           \/ /\ call[t].fn \in {"open", "close"}
              /\ granule_id'[Home(call[t].id)] \in {granule_id[Home(call[t].id)], call[t].id, NoId}
    PROVE  HomeInv'
<1> DEFINE g0 == call[t].id
<1>1. /\ UNCHANGED <<call, bookVars>> /\ Active(t)
      /\ \A u \in Threads \ {t} : pc'[u] = pc[u] /\ probe'[u] = probe[u] /\ ret'[u] = ret[u]
      BY SlotStepFrame DEF Sound
<1>2. g0 \in Granules /\ Cur(t) = Home(g0)
      BY <1>1, CurInSlots DEF Sound, HomeInv, AtHome, Cur, Home
<1>3. \A h \in Granules \ {g0} : Present(h)' = Present(h) /\ Vacant(h)' = Vacant(h)
      BY <1>2, SlotStepLocal, HomeInSlots DEF Sound, HomesDistinct, Present, Vacant, Home, SlotAt
<1>4. CASE UNCHANGED <<occupied, granule_id>>
  <2>1. \A h \in Granules : Present(h)' = Present(h) /\ Vacant(h)' = Vacant(h)
        BY <1>4 DEF Present, Vacant, Home, SlotAt
  <2>2. \A u \in Threads \ {t} : AtHome(u)'
        BY <1>1, <2>1, CurInSlots DEF Sound, HomeInv, AtHome, Calling, Active, bookVars, Unread, Owning
  <2> QED BY <1>1, <1>4, <2>1, <2>2 DEF HomeInv, bookVars, Home, SlotAt
<1>5. CASE /\ call[t].fn \in {"open", "close"}
           /\ granule_id'[Home(g0)] \in {granule_id[Home(g0)], g0, NoId}
  <2>1. \A u \in Threads \ {t} : Active(u) => call[u].id \in Granules \ {g0}
        BY <1>1, <1>5, OpenCloseAlone, CurInSlots DEF Sound, SlotTypeOK
  <2>2. \A u \in Threads \ {t} : AtHome(u)'
        BY <1>1, <1>3, <2>1 DEF HomeInv, AtHome, Calling, Active, bookVars, Unread, Owning
  <2>3. phase[g0] \in {"opening", "closing"}
        BY <1>1, <1>5 DEF Sound, ContractInv, PhaseInv, Calling
  <2>4. \A h \in Granules, x \in Slots : granule_id'[x] = h => x = Home(h)
        BY <1>2, <1>5, SlotStepLocal DEF Sound, HomeInv, SoundIds
  <2> QED BY <1>1, <1>3, <2>2, <2>3, <2>4 DEF HomeInv, bookVars, Home, SlotAt
<1> QED BY <1>4, <1>5

\* An operation of the array keeps every granule at home.
LEMMA SlotStepHome ==
    ASSUME Sound, HomesDistinct, HomeInv, NEW t \in Threads, SlotStep(t)
    PROVE  HomeInv'
<1> DEFINE g0 == call[t].id
           s  == Home(g0)
<1>1. /\ UNCHANGED <<call, bookVars>> /\ Active(t) /\ Active(t)' /\ LabelInv'
      BY SlotStepFrame DEF Sound
<1>2. g0 \in Granules /\ Cur(t) = s /\ s \in Slots /\ probe[t] = 0 /\ pc[t] # "open_id"
      BY <1>1, CurInSlots, HomeInSlots DEF Sound, HomeInv, AtHome, Cur, Home
<1>3. AtHome(t)
      BY DEF HomeInv
<1>t. /\ pc = [u \in Threads |-> pc[u]] /\ ret \in [Threads -> Int]
      /\ occupied \in [Slots -> {0, 1}] /\ granule_id \in [Slots -> Granules \cup {NoId}]
      BY DEF Sound, SlotTypeOK, ClientTypeOK, PcIsFun
<1>o. call[t].fn = "open" => phase[g0] = "opening"
      BY <1>1 DEF Sound, ContractInv, PhaseInv, Calling
<1>c. call[t].fn = "close" => phase[g0] = "closing"
      BY <1>1 DEF Sound, ContractInv, PhaseInv, Calling
<1>a. call[t].fn = "alloc" => phase[g0] = "open" /\ Present(g0)
      BY <1>1, <1>2 DEF Sound, ContractInv, PhaseInv, Calling, HomeInv
<1>d. call[t].fn = "dealloc" => /\ phase[g0] = "open" => Present(g0)
                                /\ phase[g0] # "open" => Vacant(g0)
      BY <1>1, <1>2 DEF Sound, ContractInv, PhaseInv, Calling, HomeInv, SoundIds
<1>4. ASSUME NEW l, l \notin {"idle", "open_id"}, pc' = [pc EXCEPT ![t] = l],
             UNCHANGED <<occupied, granule_id, probe>>,
             call[t].fn = "open" => l = "open_cas" /\ Vacant(g0),
             call[t].fn = "close" =>
                 \/ l = "find_id" /\ Present(g0)
                 \/ l = "close_load" /\ Present(g0)
                 \/ l \in {"close_clear_live", "close_clear_id", "close_release"},
             call[t].fn = "alloc" /\ l = "ret" => ret'[t] = 0,
             call[t].fn = "dealloc" => /\ l \in {"find_id", "fetch_sub"} => phase[g0] = "open"
                                       /\ l = "ret" => ret'[t] = IF phase[g0] = "open" THEN 0 ELSE -1
      PROVE  HomeInv'
  <2> SUFFICES AtHome(t)'
      BY <1>4, OthersAtHome
  <2>1. Present(g0)' = Present(g0) /\ Vacant(g0)' = Vacant(g0)
        BY <1>1, <1>4 DEF Present, Vacant, Home, SlotAt
  <2>2. pc'[t] = l /\ probe'[t] = 0 /\ call'[t] = call[t] /\ phase' = phase
        BY <1>1, <1>2, <1>t, <1>4 DEF bookVars
  <2>3. CASE call[t].fn = "open"
        BY <1>4, <2>1, <2>2, <2>3 DEF AtHome, Calling, OpenLabels
  <2>4. CASE call[t].fn = "close"
        BY <1>4, <2>1, <2>2, <2>4 DEF AtHome, Calling, FindLabels, Unread, Owning
  <2>5. CASE call[t].fn \in {"alloc", "dealloc"}
        BY <1>4, <2>1, <2>2, <2>5 DEF AtHome, Calling
  <2> QED BY <1>1, <2>3, <2>4, <2>5 DEF Sound, SlotTypeOK, ClientTypeOK, Calls
<1> USE DEF Goto, Answer
<1>5. CASE FindLoadOccupied(t)
  <2>1. /\ pc[t] = "find_occupied" /\ UNCHANGED <<occupied, granule_id, probe>>
        /\ call[t].fn \in {"close", "alloc", "dealloc"}
        BY <1>5 DEF FindLoadOccupied, slotVars, Sound, LabelInv
  <2>2. call[t].fn = "close" => Present(g0)
        BY <1>1, <1>3, <2>1 DEF AtHome, Calling, Unread, FindLabels
  <2>3. CASE occupied[s] = 0
    <3>1. call[t].fn = "dealloc" /\ phase[g0] # "open"
          BY <1>a, <1>d, <2>1, <2>2, <2>3 DEF Present
    <3>2. pc' = [pc EXCEPT ![t] = "ret"] /\ ret' = [ret EXCEPT ![t] = -1]
          BY <1>2, <1>5, <2>3, <3>1 DEF FindLoadOccupied, Error
    <3> QED BY <1>4, <1>t, <2>1, <3>1, <3>2
  <2>4. CASE occupied[s] # 0
    <3>1. pc' = [pc EXCEPT ![t] = "find_id"]
          BY <1>2, <1>5, <2>4 DEF FindLoadOccupied
    <3> QED BY <1>4, <1>d, <2>1, <2>2, <2>4, <3>1 DEF Vacant
  <2> QED BY <2>3, <2>4
<1>6. CASE FindLoadId(t)
  <2>1. /\ pc[t] = "find_id" /\ UNCHANGED <<occupied, granule_id>>
        /\ call[t].fn \in {"close", "alloc", "dealloc"}
        BY <1>6 DEF FindLoadId, slotVars, Sound, LabelInv
  <2>2. call[t].fn = "close" => Present(g0)
        BY <1>1, <1>3, <2>1 DEF AtHome, Calling, Unread, FindLabels
  <2>3. call[t].fn = "dealloc" => phase[g0] = "open"
        BY <1>1, <1>3, <2>1 DEF AtHome, Calling
  <2>4. granule_id[s] = g0
        BY <1>a, <1>d, <2>1, <2>2, <2>3 DEF Present
  <2>5. pc' = [pc EXCEPT ![t] = AfterFind(call[t].fn)] /\ UNCHANGED probe
        BY <1>2, <1>6, <2>4 DEF FindLoadId
  <2>6. AfterFind(call[t].fn) = IF call[t].fn = "close" THEN "close_load"
                                ELSE IF call[t].fn = "alloc" THEN "fetch_add" ELSE "fetch_sub"
        BY <2>1 DEF AfterFind
  <2> QED BY <1>4, <2>1, <2>2, <2>3, <2>5, <2>6
<1>7. CASE OpenLoadOccupied(t)
  <2>1. /\ pc[t] = "open_occupied" /\ UNCHANGED <<occupied, granule_id, probe>>
        /\ call[t].fn = "open"
        BY <1>7 DEF OpenLoadOccupied, slotVars, Sound, LabelInv
  <2>2. Vacant(g0)
        BY <1>1, <1>3, <2>1 DEF AtHome, Calling
  <2>3. pc' = [pc EXCEPT ![t] = "open_cas"]
        BY <1>2, <1>7, <2>2 DEF OpenLoadOccupied, Vacant
  <2> QED BY <1>4, <2>1, <2>2, <2>3
<1>8. CASE OpenLoadId(t)
      BY <1>2, <1>8 DEF OpenLoadId
<1> USE DEF AtHome, Calling, OpenLabels, FindLabels, Unread, Owning, Present, Vacant, Home, SlotAt
<1>9. CASE OpenClaim(t)
  <2>1. pc[t] = "open_cas" /\ call[t].fn = "open"
        BY <1>9 DEF OpenClaim, Sound, LabelInv
  <2>2. occupied[s] = 0
        BY <1>1, <1>3, <2>1
  <2>3. UNCHANGED <<granule_id, probe, call>> /\ pc' = [pc EXCEPT ![t] = "open_set_id"]
        BY <1>2, <1>9, <2>2 DEF OpenClaim
  <2>4. AtHome(t)'
        BY <1>2, <1>t, <2>1, <2>3
  <2> QED BY <2>1, <2>3, <2>4, OthersAtHome
<1>10. CASE OpenStoreId(t)
  <2>1. /\ pc' = [pc EXCEPT ![t] = "open_set_live"] /\ UNCHANGED <<probe, call>>
        /\ call[t].fn = "open" /\ granule_id'[s] = g0
        BY <1>2, <1>t, <1>10 DEF OpenStoreId, Sound, LabelInv
  <2>2. AtHome(t)'
        BY <1>2, <1>t, <2>1
  <2> QED BY <2>1, <2>2, OthersAtHome
<1>11. CASE OpenStoreLive(t)
  <2>1. /\ pc[t] = "open_set_live" /\ pc' = [pc EXCEPT ![t] = "ret"] /\ ret' = [ret EXCEPT ![t] = 0]
        /\ UNCHANGED <<occupied, granule_id, probe, call>> /\ call[t].fn = "open"
        BY <1>11 DEF OpenStoreLive, Sound, LabelInv
  <2>2. Present(g0)
        BY <1>2, <2>1 DEF Sound, OwnerInv
  <2>3. AtHome(t)'
        BY <1>2, <1>t, <2>1, <2>2
  <2> QED BY <2>1, <2>3, OthersAtHome
<1>12. CASE CloseLoadLive(t) \/ CloseClearLive(t)
  <2>1. /\ pc[t] \in {"close_load", "close_clear_live"}
        /\ \/ pc' = [pc EXCEPT ![t] = "close_clear_live"]
           \/ pc' = [pc EXCEPT ![t] = "close_clear_id"]
        /\ UNCHANGED <<occupied, granule_id, probe>>
        BY <1>12 DEF CloseLoadLive, CloseClearLive, slotVars
  <2>2. call[t].fn = "close"
        BY <2>1 DEF Sound, LabelInv
  <2> QED BY <1>4, <2>1, <2>2
<1>13. CASE CloseClearId(t)
  <2>1. /\ pc' = [pc EXCEPT ![t] = "close_release"] /\ UNCHANGED <<probe, call>>
        /\ call[t].fn = "close" /\ granule_id'[s] = NoId
        BY <1>2, <1>t, <1>13 DEF CloseClearId, Sound, LabelInv
  <2>2. AtHome(t)'
        BY <1>2, <1>t, <2>1
  <2> QED BY <2>1, <2>2, OthersAtHome
<1>14. CASE CloseRelease(t)
  <2>1. /\ pc' = [pc EXCEPT ![t] = "ret"] /\ UNCHANGED <<granule_id, probe, call>>
        /\ call[t].fn = "close" /\ occupied'[s] = 0
        BY <1>2, <1>t, <1>14 DEF CloseRelease, Sound, LabelInv
  <2>2. AtHome(t)'
        BY <1>2, <1>t, <2>1
  <2> QED BY <2>1, <2>2, OthersAtHome
<1>15. CASE AllocFetchAdd(t) \/ DeallocFetchSub(t)
  <2>1. /\ pc[t] \in {"fetch_add", "fetch_sub"} /\ pc' = [pc EXCEPT ![t] = "ret"]
        /\ ret' = [ret EXCEPT ![t] = 0]
        /\ UNCHANGED <<occupied, granule_id, probe>>
        BY <1>15 DEF AllocFetchAdd, DeallocFetchSub
  <2>2. \/ pc[t] = "fetch_add" /\ call[t].fn = "alloc"
        \/ pc[t] = "fetch_sub" /\ call[t].fn = "dealloc"
        BY <2>1 DEF Sound, LabelInv
  <2>3. call[t].fn = "dealloc" => phase[g0] = "open"
        BY <1>1, <1>3, <2>2
  <2> QED BY <1>4, <1>t, <2>1, <2>2, <2>3
<1> QED BY <1>5, <1>6, <1>7, <1>8, <1>9, <1>10, <1>11, <1>12, <1>13, <1>14, <1>15 DEF SlotStep

\* A granule never has more living allocations than the count has room for.
LEMMA LivingBound ==
    ASSUME ClientTypeOK, WideCounts, NEW g \in Granules,
           held[g] + Cardinality(Registering(g)) <= MaxLive
    PROVE  /\ Living(g) \in 0 .. CountMod - 1
           /\ \A t \in Registering(g) \ Counted(g) : Living(g) + 1 < CountMod
<1>1. Counted(g) \subseteq Registering(g)
  <2>1. \A t \in Counted(g) : pc[t] = "ret" /\ call[t] = [fn |-> "alloc", id |-> g] /\ t \in Threads
        BY DEF Counted
  <2> QED BY <2>1 DEF Registering, Active
<1>2. Registering(g) \subseteq Threads /\ Pending(g) \subseteq Threads
      BY DEF Registering, Pending
<1>3. IsFiniteSet(Threads) /\ IsFiniteSet(Registering(g)) /\ IsFiniteSet(Counted(g)) /\ IsFiniteSet(Pending(g))
      BY <1>1, <1>2, FS_Subset DEF WideCounts
<1>4. /\ Cardinality(Counted(g)) \in Nat /\ Cardinality(Pending(g)) \in Nat
      /\ Cardinality(Registering(g)) \in Nat /\ Cardinality(Threads) \in Nat
      /\ Cardinality(Counted(g)) <= Cardinality(Registering(g))
      /\ Cardinality(Pending(g)) <= Cardinality(Threads)
      BY <1>1, <1>2, <1>3, FS_CardinalityType, FS_Subset
<1>5. held[g] \in Nat /\ MaxLive \in Nat /\ CountMod \in Nat
      BY ClientAssumption, SlotArrayAssumption DEF ClientTypeOK
<1>6. Living(g) \in 0 .. CountMod - 1
      BY <1>4, <1>5 DEF Living, WideCounts
<1>7. ASSUME NEW t \in Registering(g) \ Counted(g) PROVE Living(g) + 1 < CountMod
  <2>1. /\ IsFiniteSet(Counted(g) \cup {t})
        /\ Cardinality(Counted(g) \cup {t}) = Cardinality(Counted(g)) + 1
        BY <1>3, FS_AddElement
  <2>2. Counted(g) \cup {t} \subseteq Registering(g)
        BY <1>1
  <2>3. Cardinality(Counted(g)) + 1 <= Cardinality(Registering(g))
        BY <1>3, <2>1, <2>2, FS_Subset
  <2> QED BY <1>4, <1>5, <2>3 DEF Living, WideCounts
<1> QED BY <1>6, <1>7

\* An operation of the array keeps every count exact.
LEMMA SlotStepExact ==
    ASSUME Sound, HomesDistinct, WideCounts, HomeInv, ExactInv, NEW t \in Threads, SlotStep(t)
    PROVE  ExactInv'
<1> DEFINE g0 == call[t].id
           s  == Home(g0)
<1>1. /\ UNCHANGED <<call, bookVars>> /\ UNCHANGED <<phase, held>> /\ Active(t) /\ Active(t)'
      /\ \A u \in Threads \ {t} : pc'[u] = pc[u] /\ ret'[u] = ret[u]
      BY SlotStepFrame DEF Sound, bookVars
<1>2. g0 \in Granules /\ Cur(t) = s /\ s \in Slots /\ probe[t] = 0 /\ pc[t] # "open_id"
      BY <1>1, CurInSlots, HomeInSlots DEF Sound, HomeInv, AtHome, Cur, Home
<1>t. /\ pc = [u \in Threads |-> pc[u]] /\ ret \in [Threads -> Int]
      /\ live_count \in [Slots -> 0 .. CountMod - 1] /\ ClientTypeOK /\ CountMod \in Nat \ {0, 1}
      BY SlotArrayAssumption DEF Sound, SlotTypeOK, ClientTypeOK, PcIsFun
<1>3. \A h \in Granules \ {g0} : live_count'[Home(h)] = live_count[Home(h)]
      BY <1>2, SlotStepLocal, HomeInSlots DEF Sound, HomesDistinct
<1>4. \A g \in Granules :
          /\ Living(g) \in Nat /\ Living(g)' \in Nat /\ Registering(g)' = Registering(g)
          /\ g0 = g /\ Registered(t) => Living(g)' = Living(g) + 1
          /\ g0 = g /\ Deregistered(t) => Living(g)' = Living(g) - 1
          /\ g0 # g \/ ~(Registered(t) \/ Deregistered(t)) => Living(g)' = Living(g)
      BY SlotStepLiving DEF Sound, WideCounts
<1>5. \A g \in Granules : held[g] + Cardinality(Registering(g)) <= MaxLive
      BY DEF ExactInv
<1>6. \A g \in Granules : (held[g] + Cardinality(Registering(g)) <= MaxLive)'
      BY <1>1, <1>4, <1>5
<1>7. \A h \in Granules \ {g0} : phase'[h] = "open" => live_count'[Home(h)] = Living(h)'
      BY <1>1, <1>3, <1>4 DEF ExactInv
\* An open or a close has its granule to itself; so what is left to show is about t.
<1>8. ASSUME call[t].fn \in {"open", "close"},
             call[t].fn = "open" /\ pc'[t] \notin OpenLabels => live_count'[s] = 0,
             call[t].fn = "close" => held[g0] = IF Unread(t)' THEN live_count'[s] ELSE ret'[t]
      PROVE  ExactInv'
  <2>1. \A u \in Threads \ {t} : Active(u) => call[u].id \in Granules \ {g0}
        BY <1>1, <1>8, OpenCloseAlone, CurInSlots DEF Sound, SlotTypeOK
  <2>2. phase[g0] \in {"opening", "closing"}
        BY <1>1, <1>8 DEF Sound, ContractInv, PhaseInv, Calling
  <2>3. \A u \in Threads \ {t} :
            /\ Calling(u, "open")' /\ pc'[u] \notin OpenLabels => live_count'[Home(call'[u].id)] = 0
            /\ Calling(u, "close")' => held'[call'[u].id] = IF Unread(u)' THEN live_count'[Home(call'[u].id)] ELSE ret'[u]
        BY <1>1, <1>3, <2>1 DEF ExactInv, Calling, Active, Unread
  <2>4. /\ Calling(t, "open")' /\ pc'[t] \notin OpenLabels => live_count'[Home(call'[t].id)] = 0
        /\ Calling(t, "close")' => held'[call'[t].id] = IF Unread(t)' THEN live_count'[Home(call'[t].id)] ELSE ret'[t]
        BY <1>1, <1>8 DEF Calling
  <2>5. \A g \in Granules : phase'[g] = "open" => live_count'[Home(g)] = Living(g)'
        BY <1>1, <1>7, <2>2
  <2> QED BY <1>6, <2>3, <2>4, <2>5 DEF ExactInv, Home, SlotAt
\* A register or a deregister has no open or close beside it.
<1>9. ASSUME call[t].fn \in {"alloc", "dealloc"},
             phase[g0] = "open" =>
                 live_count'[s] = IF Registered(t) THEN live_count[s] + 1
                                  ELSE IF Deregistered(t) THEN live_count[s] - 1 ELSE live_count[s],
             UNCHANGED live_count \/ phase[g0] = "open"
      PROVE  ExactInv'
  <2>1. \A u \in Threads : Active(u) /\ call[u].fn \in {"open", "close"}
                         => u # t /\ call[u].id \in Granules /\ (call[u].id # g0 \/ UNCHANGED live_count)
        BY <1>1, <1>9, CurInSlots DEF Sound, ContractInv, PhaseInv, Calling
  <2>2. \A u \in Threads :
            /\ Calling(u, "open")' /\ pc'[u] \notin OpenLabels => live_count'[Home(call'[u].id)] = 0
            /\ Calling(u, "close")' => held'[call'[u].id] = IF Unread(u)' THEN live_count'[Home(call'[u].id)] ELSE ret'[u]
    <3>1. \A u \in Threads : Active(u) /\ call[u].fn \in {"open", "close"} =>
              live_count'[Home(call[u].id)] = live_count[Home(call[u].id)]
          BY <1>3, <2>1
    <3> QED BY <1>1, <1>9, <2>1, <3>1 DEF ExactInv, Calling, Active, Unread
  <2>3. phase[g0] = "open" => live_count[s] = Living(g0)
        BY <1>2 DEF ExactInv
  <2>4. phase[g0] = "open" => live_count'[s] = Living(g0)'
        BY <1>1, <1>2, <1>4, <1>9, <2>3 DEF Registered, Deregistered
  <2>5. \A g \in Granules : phase'[g] = "open" => live_count'[Home(g)] = Living(g)'
        BY <1>1, <1>2, <1>7, <2>4
  <2> QED BY <1>6, <2>2, <2>5 DEF ExactInv, Home, SlotAt
<1>10. AtHome(t)
       BY DEF HomeInv
<1>11. call[t].fn = "close" => held[g0] = IF Unread(t) THEN live_count[s] ELSE ret[t]
       BY <1>1 DEF ExactInv, Calling
<1>12. call[t].fn = "open" /\ pc[t] \notin OpenLabels => live_count[s] = 0
       BY <1>1 DEF ExactInv, Calling
<1>13. call[t].fn = "alloc" => phase[g0] = "open" /\ Present(g0)
       BY <1>1, <1>2 DEF Sound, ContractInv, PhaseInv, Calling, HomeInv
<1>14. call[t].fn = "dealloc" /\ phase[g0] = "open" => Present(g0)
       BY <1>2 DEF HomeInv
<1> USE DEF Goto, Answer
<1>15. CASE FindLoadOccupied(t)
  <2>1. /\ pc[t] = "find_occupied" /\ UNCHANGED live_count
        /\ call[t].fn \in {"close", "alloc", "dealloc"}
        BY <1>15 DEF FindLoadOccupied, slotVars, Sound, LabelInv
  <2>2. CASE occupied[s] = 0
    <3>1. call[t].fn = "dealloc" /\ phase[g0] # "open"
          BY <1>1, <1>10, <1>13, <1>14, <2>1, <2>2 DEF Present, AtHome, Calling, Unread, FindLabels
    <3> QED BY <1>9, <2>1, <3>1
  <2>3. CASE occupied[s] # 0
    <3>1. pc'[t] = "find_id" /\ UNCHANGED ret
          BY <1>2, <1>t, <1>15, <2>3 DEF FindLoadOccupied
    <3> QED BY <1>8, <1>9, <1>11, <2>1, <3>1 DEF Registered, Deregistered, Unread, FindLabels
  <2> QED BY <2>2, <2>3
<1>16. CASE FindLoadId(t)
  <2>1. /\ pc[t] = "find_id" /\ UNCHANGED live_count
        /\ call[t].fn \in {"close", "alloc", "dealloc"}
        BY <1>16 DEF FindLoadId, slotVars, Sound, LabelInv
  <2>2. Present(g0)
        BY <1>1, <1>10, <1>13, <1>14, <2>1 DEF AtHome, Calling, Unread, FindLabels
  <2>3. pc'[t] = AfterFind(call[t].fn) /\ UNCHANGED ret
        BY <1>2, <1>t, <1>16, <2>2 DEF FindLoadId, Present
  <2>4. pc'[t] = IF call[t].fn = "close" THEN "close_load"
                 ELSE IF call[t].fn = "alloc" THEN "fetch_add" ELSE "fetch_sub"
        BY <2>1, <2>3 DEF AfterFind
  <2> QED BY <1>8, <1>9, <1>11, <2>1, <2>3, <2>4 DEF Registered, Deregistered, Unread, FindLabels
<1>17. CASE OpenLoadOccupied(t) \/ OpenLoadId(t) \/ OpenClaim(t) \/ OpenStoreId(t)
  <2>1. call[t].fn = "open"
        BY <1>17 DEF OpenLoadOccupied, OpenLoadId, OpenClaim, OpenStoreId, Sound, LabelInv
  <2>2. pc[t] = "open_cas" => occupied[s] = 0
        BY <1>1, <1>10, <2>1 DEF AtHome, Calling, Vacant
  <2>3. pc'[t] \in OpenLabels
        BY <1>2, <1>t, <1>17, <2>2 DEF OpenLoadOccupied, OpenLoadId, OpenClaim, OpenStoreId, OpenLabels
  <2> QED BY <1>8, <2>1, <2>3
<1>18. CASE OpenStoreLive(t)
  <2>1. call[t].fn = "open" /\ live_count'[s] = 0
        BY <1>2, <1>t, <1>18 DEF OpenStoreLive, Sound, LabelInv
  <2> QED BY <1>8, <2>1
<1>19. CASE CloseLoadLive(t)
  <2>1. /\ call[t].fn = "close" /\ pc[t] = "close_load" /\ pc'[t] = "close_clear_live"
        /\ ret'[t] = live_count[s]
        BY <1>2, <1>t, <1>19 DEF CloseLoadLive, Sound, LabelInv
  <2> QED BY <1>8, <1>11, <2>1 DEF Unread, FindLabels
<1>20. CASE CloseClearLive(t) \/ CloseClearId(t) \/ CloseRelease(t)
  <2>1. /\ call[t].fn = "close"
        /\ pc[t] \in {"close_clear_live", "close_clear_id", "close_release"}
        /\ pc'[t] \in {"close_clear_id", "close_release", "ret"}
        /\ ret'[t] = ret[t]
        BY <1>t, <1>20 DEF CloseClearLive, CloseClearId, CloseRelease, Sound, LabelInv
  <2> QED BY <1>8, <1>11, <2>1 DEF Unread, FindLabels
<1>21. CASE AllocFetchAdd(t)
  <2>1. /\ call[t].fn = "alloc" /\ Registered(t)
        /\ live_count'[s] = (live_count[s] + 1) % CountMod
        BY <1>2, <1>t, <1>21 DEF AllocFetchAdd, Registered, Sound, LabelInv
  <2>2. live_count[s] = Living(g0)
        BY <1>2, <1>13, <2>1 DEF ExactInv
  <2>3. t \in Registering(g0) \ Counted(g0)
        BY <1>1, <1>t, <1>21, <2>1, Members DEF AllocFetchAdd
  <2>4. Living(g0) \in Nat /\ Living(g0) + 1 < CountMod
        BY <1>2, <1>4, <1>5, <1>t, <2>3, LivingBound
  <2>5. live_count'[s] = live_count[s] + 1
        BY <1>t, <2>1, <2>2, <2>4
  <2> QED BY <1>9, <1>13, <2>1, <2>5
<1>22. CASE DeallocFetchSub(t)
  <2>1. /\ call[t].fn = "dealloc" /\ Deregistered(t) /\ ~Registered(t)
        /\ pc[t] = "fetch_sub"
        /\ live_count'[s] = (live_count[s] - 1) % CountMod
        BY <1>2, <1>t, <1>22 DEF DeallocFetchSub, Registered, Deregistered, Sound, LabelInv
  <2>2. phase[g0] = "open"
        BY <1>1, <1>10, <2>1 DEF AtHome, Calling
  <2>3. live_count[s] = Living(g0)
        BY <1>2, <2>2 DEF ExactInv
  <2>4. Living(g0) \in Nat /\ Living(g0)' = Living(g0) - 1 /\ Living(g0)' \in Nat
        BY <1>1, <1>2, <1>4, <2>1
  <2>5. Living(g0) > 0 /\ live_count[s] \in 0 .. CountMod - 1
        BY <1>2, <1>t, <2>4
  <2>6. live_count'[s] = live_count[s] - 1
        BY <1>t, <2>1, <2>3, <2>5
  <2> QED BY <1>9, <2>1, <2>2, <2>6
<1> QED BY <1>15, <1>16, <1>17, <1>18, <1>19, <1>20, <1>21, <1>22 DEF SlotStep

-----------------------------------------------------------------------------
(* Distinct homes: calls and answers                                       *)

\* What a call or an answer of thread t for granule g0 leaves alone.
OnlyIn(t, g0) ==
    /\ UNCHANGED slotVars
    /\ \A u \in Threads \ {t} :
          pc'[u] = pc[u] /\ call'[u] = call[u] /\ ret'[u] = ret[u] /\ probe'[u] = probe[u]
    /\ \A h \in Granules \ {g0} : phase'[h] = phase[h] /\ held'[h] = held[h]

\* The other threads stay at home, and their counts exact.
LEMMA OtherThreads ==
    ASSUME NEW t \in Threads, NEW g0, OnlyIn(t, g0), ClientTypeOK, HomeInv, ExactInv,
           NEW u \in Threads \ {t},
           Calling(u, "close") => call[u].id # g0,
           Calling(u, "dealloc") /\ call[u].id = g0 => phase'[g0] = phase[g0]
    PROVE  /\ AtHome(u)'
           /\ Calling(u, "open")' /\ pc'[u] \notin OpenLabels => live_count'[Home(call'[u].id)] = 0
           /\ Calling(u, "close")' =>
                 held'[call'[u].id] = IF Unread(u)' THEN live_count'[Home(call'[u].id)] ELSE ret'[u]
<1> USE DEF OnlyIn
<1>1. Active(u) => call[u].id \in Granules
      BY DEF ClientTypeOK, Calls
<1>2. AtHome(u)
      BY DEF HomeInv
<1>3. /\ Calling(u, "open")' = Calling(u, "open") /\ Calling(u, "close")' = Calling(u, "close")
      /\ Calling(u, "alloc")' = Calling(u, "alloc") /\ Calling(u, "dealloc")' = Calling(u, "dealloc")
      /\ Unread(u)' = Unread(u) /\ Owning(u)' = Owning(u)
      BY DEF Calling, Active, Unread, Owning
<1>4. \A g : Present(g)' = Present(g) /\ Vacant(g)' = Vacant(g)
      BY DEF Present, Vacant, slotVars, Home, SlotAt
<1>5. Calling(u, "dealloc") => phase'[call[u].id] = phase[call[u].id]
      BY <1>1 DEF Calling
<1>6. AtHome(u)'
      BY <1>2, <1>3, <1>4, <1>5 DEF AtHome
<1>7. Calling(u, "close") => held'[call[u].id] = held[call[u].id]
      BY <1>1 DEF Calling
<1>8. /\ Calling(u, "open") /\ pc[u] \notin OpenLabels => live_count[Home(call[u].id)] = 0
      /\ Calling(u, "close") =>
            held[call[u].id] = IF Unread(u) THEN live_count[Home(call[u].id)] ELSE ret[u]
      BY DEF ExactInv
<1> QED BY <1>3, <1>6, <1>7, <1>8 DEF slotVars

\* A call made under the contract.
LEMMA CallDistinct ==
    ASSUME Sound, DistinctInv, IsFiniteSet(Threads),
           NEW t \in Threads, NEW g \in Granules, NEW o, NEW f, o # "idle", f # "idle",
           ClientCall(t, g, o, f), UNCHANGED <<slotVars, probe>>,
           pc'[t] \in {"open_occupied", "find_occupied", "count_alloc", "count_dealloc"},
           call'[t].fn = "open"  => pc'[t] = "open_occupied",
           call'[t].fn = "close" => pc'[t] = "find_occupied"
    PROVE  DistinctInv'
<1>0. UNCHANGED slotVars /\ UNCHANGED <<occupied, granule_id, live_count, probe>>
      BY DEF slotVars
<1>1. /\ pc[t] = "idle" /\ pc'[t] # "idle" /\ call'[t].id = g /\ UNCHANGED ret
      /\ call'[t].fn \in {"open", "close", "alloc", "dealloc"}
      /\ \A u \in Threads \ {t} : pc'[u] = pc[u] /\ call'[u] = call[u]
  <2>0. ClientTypeOK /\ PcIsFun
        BY DEF Sound, SlotTypeOK
  <2>1. /\ pc[t] = "idle" /\ call'[t].id = g /\ UNCHANGED ret
        /\ \A u \in Threads \ {t} : pc'[u] = pc[u] /\ call'[u] = call[u]
        BY <2>0, CallFrame
  <2>3. call'[t] \in Calls
        BY <2>0, CallFrame
  <2>2. call'[t].fn \in {"open", "close", "alloc", "dealloc"}
        BY <2>3 DEF Calls
  <2> QED BY <2>1, <2>2
<1>2. ClientTypeOK /\ ClientTypeOK' /\ ContractInv
      BY CallType DEF Sound, SlotTypeOK
<1>t. /\ phase \in [Granules -> {"closed", "opening", "open", "closing"}]
      /\ held \in [Granules -> Nat] /\ call \in [Threads -> Calls \cup {NoCall}]
      BY <1>2 DEF ClientTypeOK
<1> USE DEF Enter
<1>3. /\ phase' = [phase EXCEPT ![g] = IF call'[t].fn = "open" THEN "opening"
                                     ELSE IF call'[t].fn = "close" THEN "closing" ELSE phase[g]]
      /\ held' = [held EXCEPT ![g] = IF call'[t].fn = "dealloc" /\ phase[g] = "open" THEN @ - 1 ELSE @]
      /\ call'[t].fn = "open"  => phase[g] = "closed" /\ opens[g] < MaxOpens
      /\ call'[t].fn \in {"close", "alloc"} => phase[g] = "open"
      /\ call'[t].fn = "close" => NoCallOn(g)
      /\ call'[t].fn = "alloc" => held[g] + Cardinality(Registering(g)) < MaxLive
      /\ call'[t].fn = "dealloc" => phase[g] = "closed" \/ (phase[g] = "open" /\ held[g] > 0)
      /\ phase[g] \in {"open", "closed"}
  <2>1. CASE CallOpen(t, g, o)         BY <1>t, <2>1 DEF CallOpen
  <2>2. CASE CallClose(t, g, f)        BY <1>t, <2>2 DEF CallClose
  <2>3. CASE CallAlloc(t, g, f)        BY <1>t, <2>3 DEF CallAlloc, bookVars
  <2>4. CASE CallDealloc(t, g, f)      BY <1>t, <2>4 DEF CallDealloc
  <2>5. CASE CallLateDealloc(t, g, f)  BY <1>t, <2>5 DEF CallLateDealloc, Sound, SoundIds
  <2> QED BY <2>1, <2>2, <2>3, <2>4, <2>5 DEF ClientCall
<1>4. /\ phase'[g] = IF call'[t].fn = "open" THEN "opening"
                    ELSE IF call'[t].fn = "close" THEN "closing" ELSE phase[g]
      /\ held'[g] = IF call'[t].fn = "dealloc" /\ phase[g] = "open" THEN held[g] - 1 ELSE held[g]
      /\ \A h \in Granules \ {g} : phase'[h] = phase[h] /\ held'[h] = held[h]
      BY <1>3, <1>t
<1>5. \A u \in Threads \ {t} :
          /\ Calling(u, "close") => call[u].id # g
          /\ Calling(u, "dealloc") /\ call[u].id = g => phase'[g] = phase[g]
  <2>1. ASSUME NEW u \in Threads \ {t}, Calling(u, "close") PROVE call[u].id # g
        BY <1>2, <1>3, <2>1 DEF ContractInv, PhaseInv
  <2>2. ASSUME NEW u \in Threads \ {t}, Calling(u, "dealloc"), call[u].id = g PROVE phase'[g] = phase[g]
    <3>1. opens[g] = MaxOpens \/ phase[g] = "open"
          BY <2>2 DEF Sound, SoundIds, ContractInv, PhaseInv
    <3>2. MaxOpens \in Nat
          BY ClientAssumption
    <3>3. call'[t].fn # "open"
          BY <1>3, <3>1, <3>2
    <3>4. call'[t].fn # "close"
          BY <1>3, <2>2 DEF NoCallOn, Calling
    <3> QED BY <1>4, <3>3, <3>4
  <2> QED BY <2>1, <2>2
<1>6. \A u \in Threads \ {t} :
          /\ AtHome(u)'
          /\ Calling(u, "open")' /\ pc'[u] \notin OpenLabels => live_count'[Home(call'[u].id)] = 0
          /\ Calling(u, "close")' =>
                held'[call'[u].id] = IF Unread(u)' THEN live_count'[Home(call'[u].id)] ELSE ret'[u]
  <2>1. OnlyIn(t, g)
        BY <1>0, <1>1, <1>4 DEF OnlyIn
  <2>2. HomeInv /\ ExactInv
        BY DEF DistinctInv
  <2> TAKE u \in Threads \ {t}
  <2>3. /\ Calling(u, "close") => call[u].id # g
        /\ Calling(u, "dealloc") /\ call[u].id = g => phase'[g] = phase[g]
        BY <1>5
  <2> QED BY <1>2, <2>1, <2>2, <2>3, OtherThreads
<1>7. /\ probe'[t] = 0
      /\ call'[t].fn = "open" => Vacant(g)
      /\ call'[t].fn \in {"close", "alloc"} => Present(g)
      /\ phase[g] = "open" => Present(g) /\ live_count[Home(g)] = Living(g)
      /\ phase[g] \in {"closed", "opening"} => held[g] = 0
      BY <1>0, <1>3 DEF DistinctInv, HomeInv, ExactInv, HeldInv, AtHome
<1>8. /\ \A h \in Granules : Present(h)' = Present(h) /\ Vacant(h)' = Vacant(h)
      /\ \A h \in Granules : live_count'[Home(h)] = live_count[Home(h)]
      BY <1>0 DEF Present, Vacant, Home, SlotAt
<1>9. AtHome(t)'
  <2>1. probe'[t] = 0 /\ pc'[t] # "open_id" /\ pc'[t] # "ret" /\ pc'[t] \notin {"find_id", "fetch_sub"}
        BY <1>7
  <2>2. Calling(t, "open")' => /\ pc'[t] \in {"open_occupied", "open_cas"} => Vacant(g)'
                               /\ pc'[t] \in OpenLabels
        BY <1>1, <1>7, <1>8 DEF Calling, OpenLabels
  <2>3. Calling(t, "close")' => Present(g)' /\ pc'[t] \in FindLabels
        BY <1>1, <1>7, <1>8 DEF Calling, FindLabels
  <2> QED BY <1>1, <2>1, <2>2, <2>3 DEF AtHome
<1>10. HomeInv'
  <2>1. \A h \in Granules :
            /\ phase'[h] = "open" => Present(h)'
            /\ phase'[h] = "closed" => Vacant(h)'
            /\ \A x \in Slots : granule_id'[x] = h => x = Home(h)
        BY <1>0, <1>3, <1>4, <1>8 DEF DistinctInv, HomeInv
  <2>2. \A u \in Threads : AtHome(u)'
        BY <1>6, <1>9
  <2> QED BY <2>1, <2>2 DEF HomeInv, Home, SlotAt
<1>11. HeldInv'
       BY <1>3, <1>4, <1>7, <1>t DEF DistinctInv, HeldInv
\* The living allocations of the granule.
<1>12. \A h \in Granules :
           /\ IsFiniteSet(Counted(h)) /\ IsFiniteSet(Pending(h)) /\ IsFiniteSet(Registering(h))
           /\ IsFiniteSet(Counted(h)') /\ IsFiniteSet(Pending(h)') /\ IsFiniteSet(Registering(h)')
           /\ Counted(h) \ {t} = Counted(h)' \ {t}
           /\ Pending(h) \ {t} = Pending(h)' \ {t}
           /\ Registering(h) \ {t} = Registering(h)' \ {t}
       BY <1>1, OneMoves
<1>13. \A h \in Granules :
           /\ t \notin Counted(h) /\ t \notin Pending(h) /\ t \notin Registering(h)
           /\ t \notin Counted(h)'
           /\ t \in Pending(h)' <=> call'[t].fn = "dealloc" /\ h = g
           /\ t \in Registering(h)' <=> call'[t].fn = "alloc" /\ h = g
       BY <1>1, <1>2, Members, MembersNext DEF Active
<1>14. \A h \in Granules :
           /\ Cardinality(Counted(h)) \in Nat /\ Cardinality(Counted(h)') = Cardinality(Counted(h))
           /\ Cardinality(Pending(h)) \in Nat
           /\ Cardinality(Pending(h)') = Cardinality(Pending(h)) + IF call'[t].fn = "dealloc" /\ h = g THEN 1 ELSE 0
           /\ Cardinality(Registering(h)) \in Nat
           /\ Cardinality(Registering(h)') = Cardinality(Registering(h)) + IF call'[t].fn = "alloc" /\ h = g THEN 1 ELSE 0
  <2> TAKE h \in Granules
  <2>1. Cardinality(Counted(h)) \in Nat /\ Cardinality(Counted(h)') = Cardinality(Counted(h))
        BY <1>12, <1>13, MovedOne
  <2>2. /\ Cardinality(Pending(h)) \in Nat
        /\ t \in Pending(h)' => Cardinality(Pending(h)') = Cardinality(Pending(h)) + 1
        /\ t \notin Pending(h)' => Cardinality(Pending(h)') = Cardinality(Pending(h))
        BY <1>12, <1>13, MovedOne
  <2>3. /\ Cardinality(Registering(h)) \in Nat
        /\ t \in Registering(h)' => Cardinality(Registering(h)') = Cardinality(Registering(h)) + 1
        /\ t \notin Registering(h)' => Cardinality(Registering(h)') = Cardinality(Registering(h))
        BY <1>12, <1>13, MovedOne
  <2> QED BY <1>13, <2>1, <2>2, <2>3
<1>15. \A h \in Granules : phase'[h] = "open" => live_count'[Home(h)] = Living(h)'
  <2> TAKE h \in Granules
  <2> HAVE phase'[h] = "open"
  <2>1. phase[h] = "open" /\ live_count[Home(h)] = Living(h)
        BY <1>3, <1>4 DEF DistinctInv, ExactInv
  <2>2. held'[h] = held[h] - IF call'[t].fn = "dealloc" /\ h = g THEN 1 ELSE 0
        BY <1>4, <1>t, <2>1
  <2> QED BY <1>8, <1>14, <1>t, <2>1, <2>2 DEF Living
<1>16. \A h \in Granules : held'[h] + Cardinality(Registering(h)') <= MaxLive
  <2> TAKE h \in Granules
  <2>1. held[h] + Cardinality(Registering(h)) <= MaxLive
        BY DEF DistinctInv, ExactInv
  <2>2. held'[h] <= held[h] /\ held'[h] \in Int /\ held[h] \in Nat
        BY <1>4, <1>t
  <2>3. MaxLive \in Nat
        BY ClientAssumption
  <2> QED BY <1>3, <1>14, <2>1, <2>2, <2>3
<1>17. /\ Calling(t, "open")' /\ pc'[t] \notin OpenLabels => live_count'[Home(call'[t].id)] = 0
       /\ Calling(t, "close")' =>
             held'[call'[t].id] = IF Unread(t)' THEN live_count'[Home(call'[t].id)] ELSE ret'[t]
  <2>1. CASE call'[t].fn = "close"
    <3>1. Counted(g) = {} /\ Pending(g) = {}
          BY <1>3, <2>1 DEF NoCallOn, Counted, Pending, Active
    <3>2. Cardinality(Counted(g)) = 0 /\ Cardinality(Pending(g)) = 0
          BY <3>1, FS_EmptySet
    <3>3. held'[g] = live_count[Home(g)]
          BY <1>3, <1>4, <1>7, <1>t, <2>1, <3>2 DEF Living
    <3> QED BY <1>1, <1>8, <2>1, <3>3 DEF Unread, FindLabels, Calling
  <2>2. CASE call'[t].fn # "close"
        BY <2>2 DEF Calling, OpenLabels
  <2> QED BY <2>1, <2>2
<1>18. ExactInv'
       BY <1>6, <1>15, <1>16, <1>17 DEF ExactInv, Home, SlotAt
<1> QED BY <1>10, <1>11, <1>18 DEF DistinctInv

\* An answer.
LEMMA ReturnDistinct ==
    ASSUME Sound, DistinctInv, IsFiniteSet(Threads),
           NEW t \in Threads, NEW g, g = call[t].id, Active(t), ClientReturn(t),
           UNCHANGED slotVars, probe' = [probe EXCEPT ![t] = 0],
           pc[t] \notin FindLabels \cup OpenLabels, ~Owning(t),
           call[t].fn \in {"alloc", "dealloc"} => pc[t] = "ret"
    PROVE  DistinctInv'
<1>0. ClientTypeOK /\ PcIsFun /\ ContractInv
      BY DEF Sound, SlotTypeOK
<1>1. /\ pc' = [pc EXCEPT ![t] = "idle"] /\ call'[t] = NoCall
      /\ \A u \in Threads \ {t} : pc'[u] = pc[u] /\ call'[u] = call[u] /\ ret'[u] = ret[u]
      /\ \A h \in Granules \ {g} : phase'[h] = phase[h] /\ held'[h] = held[h]
      BY <1>0, ReturnFrame
<1>2. ClientTypeOK'
      BY <1>0, ReturnType
<1>3. g \in Granules /\ call[t].fn \in {"open", "close", "alloc", "dealloc"}
      BY <1>0 DEF ClientTypeOK, Calls
<1>t. /\ phase \in [Granules -> {"closed", "opening", "open", "closing"}]
      /\ held \in [Granules -> Nat] /\ probe \in [Threads -> Slots] /\ pc'[t] = "idle"
      BY <1>0, <1>1 DEF Sound, SlotTypeOK, ClientTypeOK, PcIsFun
<1>4. AtHome(t) /\ HomeInv /\ ExactInv /\ HeldInv
      BY DEF DistinctInv, HomeInv
\* What the client makes of the answer.
<1>5. /\ call[t].fn = "open"    => phase[g] = "opening" /\ phase'[g] = "open" /\ held'[g] = held[g]
      /\ call[t].fn = "close"   => phase'[g] = "closed" /\ held'[g] = 0
      /\ call[t].fn = "alloc"   => phase[g] = "open" /\ phase'[g] = "open" /\ held'[g] = held[g] + 1
      /\ call[t].fn = "dealloc" => phase'[g] = phase[g] /\ held'[g] = held[g]
  <2>1. CASE call[t].fn = "open"
    <3>1. ret[t] = 0 /\ phase[g] = "opening"
          BY <1>0, <1>4, <2>1 DEF AtHome, Calling, ContractInv, PhaseInv
    <3>2. phase' = [phase EXCEPT ![g] = "open"] /\ held' = held
          BY <2>1, <3>1 DEF ClientReturn
    <3> QED BY <1>3, <1>t, <2>1, <3>1, <3>2
  <2>2. CASE call[t].fn = "close"
    <3>1. phase' = [phase EXCEPT ![g] = "closed"] /\ held' = [held EXCEPT ![g] = 0]
          BY <2>2 DEF ClientReturn
    <3> QED BY <1>3, <1>t, <2>2, <3>1
  <2>3. CASE call[t].fn = "alloc"
    <3>1. ret[t] = 0 /\ phase[g] = "open"
          BY <1>0, <1>4, <2>3 DEF AtHome, Calling, ContractInv, PhaseInv
    <3>2. held' = [held EXCEPT ![g] = @ + 1] /\ phase' = phase
          BY <2>3, <3>1 DEF ClientReturn
    <3> QED BY <1>3, <1>t, <2>3, <3>1, <3>2
  <2>4. CASE call[t].fn = "dealloc"
        BY <2>4 DEF ClientReturn
  <2> QED BY <1>3, <2>1, <2>2, <2>3, <2>4
<1>6. \A u \in Threads \ {t} :
          /\ Calling(u, "close") => call[u].id # g
          /\ Calling(u, "dealloc") /\ call[u].id = g => phase'[g] = phase[g]
  <2> TAKE u \in Threads \ {t}
  <2>1. CASE call[t].fn \in {"open", "close"}
        BY <1>0, <2>1, OpenCloseAlone DEF Calling, Sound
  <2>2. CASE call[t].fn \in {"alloc", "dealloc"}
    <3>1. Calling(u, "close") => call[u].id # g
          BY <1>0, <2>2 DEF ContractInv, AloneInv, Calling
    <3> QED BY <1>5, <2>2, <3>1
  <2> QED BY <1>3, <2>1, <2>2
<1>7. \A u \in Threads \ {t} :
          /\ AtHome(u)'
          /\ Calling(u, "open")' /\ pc'[u] \notin OpenLabels => live_count'[Home(call'[u].id)] = 0
          /\ Calling(u, "close")' =>
                held'[call'[u].id] = IF Unread(u)' THEN live_count'[Home(call'[u].id)] ELSE ret'[u]
  <2>1. \A u \in Threads \ {t} : probe'[u] = probe[u]
        BY <1>t
  <2>2. OnlyIn(t, g)
        BY <1>1, <2>1 DEF OnlyIn
  <2> QED BY <1>0, <1>4, <1>6, <2>2, OtherThreads
<1>8. /\ \A h \in Granules : Present(h)' = Present(h) /\ Vacant(h)' = Vacant(h)
      /\ \A h \in Granules : live_count'[Home(h)] = live_count[Home(h)]
      BY DEF slotVars, Present, Vacant, Home, SlotAt
<1>9. AtHome(t)'
      BY <1>t, ClientAssumption DEF AtHome, Calling, Active, Unread, FindLabels, Slots
<1>10. HomeInv'
  <2>1. phase'[g] = "open" => Present(g)
        BY <1>3, <1>4, <1>5 DEF AtHome, Calling, HomeInv
  <2>2. phase'[g] = "closed" => Vacant(g)
        BY <1>3, <1>4, <1>5 DEF AtHome, Calling, HomeInv
  <2>3. \A h \in Granules :
            /\ phase'[h] = "open" => Present(h)'
            /\ phase'[h] = "closed" => Vacant(h)'
            /\ \A x \in Slots : granule_id'[x] = h => x = Home(h)
        BY <1>1, <1>4, <1>8, <2>1, <2>2 DEF HomeInv, slotVars
  <2>4. \A u \in Threads : AtHome(u)'
        BY <1>7, <1>9
  <2> QED BY <2>3, <2>4 DEF HomeInv, Home, SlotAt
<1>11. HeldInv'
  <2>1. phase'[g] \in {"closed", "opening"} => held'[g] = 0
        BY <1>3, <1>4, <1>5 DEF HeldInv
  <2> QED BY <1>1, <1>4, <2>1 DEF HeldInv
\* The living allocations of the granule.
<1>12. \A h \in Granules :
           /\ IsFiniteSet(Counted(h)) /\ IsFiniteSet(Pending(h)) /\ IsFiniteSet(Registering(h))
           /\ IsFiniteSet(Counted(h)') /\ IsFiniteSet(Pending(h)') /\ IsFiniteSet(Registering(h)')
           /\ Counted(h) \ {t} = Counted(h)' \ {t}
           /\ Pending(h) \ {t} = Pending(h)' \ {t}
           /\ Registering(h) \ {t} = Registering(h)' \ {t}
       BY <1>1, OneMoves
<1>13. \A h \in Granules :
           /\ t \in Counted(h) <=> call[t].fn = "alloc" /\ h = g
           /\ t \notin Pending(h)
           /\ t \in Registering(h) <=> call[t].fn = "alloc" /\ h = g
           /\ t \notin Counted(h)' /\ t \notin Pending(h)' /\ t \notin Registering(h)'
  <2> TAKE h \in Granules
  <2>1. call[t].fn = "alloc" => pc[t] = "ret" /\ ret[t] = 0
        BY <1>4 DEF AtHome, Calling
  <2>2. ~Active(t)' /\ pc'[t] # "ret"
        BY <1>t DEF Active
  <2> QED BY <1>0, <1>2, <2>1, <2>2, Members, MembersNext
<1>14. \A h \in Granules :
           /\ Cardinality(Counted(h)) \in Nat /\ Cardinality(Pending(h)) \in Nat
           /\ Cardinality(Registering(h)) \in Nat
           /\ Cardinality(Pending(h)') = Cardinality(Pending(h))
           /\ Cardinality(Counted(h)') = Cardinality(Counted(h)) - IF call[t].fn = "alloc" /\ h = g THEN 1 ELSE 0
           /\ Cardinality(Registering(h)') = Cardinality(Registering(h)) - IF call[t].fn = "alloc" /\ h = g THEN 1 ELSE 0
  <2> TAKE h \in Granules
  <2>1. Cardinality(Pending(h)) \in Nat /\ Cardinality(Pending(h)') = Cardinality(Pending(h))
        BY <1>12, <1>13, MovedOne
  <2>2. /\ Cardinality(Counted(h)) \in Nat
        /\ t \in Counted(h) => Cardinality(Counted(h)') = Cardinality(Counted(h)) - 1
        /\ t \notin Counted(h) => Cardinality(Counted(h)') = Cardinality(Counted(h))
        BY <1>12, <1>13, MovedOne
  <2>3. /\ Cardinality(Registering(h)) \in Nat
        /\ t \in Registering(h) => Cardinality(Registering(h)') = Cardinality(Registering(h)) - 1
        /\ t \notin Registering(h) => Cardinality(Registering(h)') = Cardinality(Registering(h))
        BY <1>12, <1>13, MovedOne
  <2> QED BY <1>13, <2>1, <2>2, <2>3
<1>15. \A h \in Granules : phase'[h] = "open" => live_count'[Home(h)] = Living(h)'
  <2>1. ASSUME NEW h \in Granules, phase'[h] = "open", h # g \/ call[t].fn # "open"
        PROVE  live_count'[Home(h)] = Living(h)'
    <3>1. phase[h] = "open" /\ live_count[Home(h)] = Living(h)
          BY <1>1, <1>3, <1>4, <1>5, <2>1 DEF ExactInv
    <3>2. held'[h] = held[h] + IF call[t].fn = "alloc" /\ h = g THEN 1 ELSE 0
          BY <1>1, <1>3, <1>5, <1>t, <2>1
    <3> QED BY <1>8, <1>14, <1>t, <3>1, <3>2 DEF Living
  <2>2. ASSUME call[t].fn = "open" PROVE live_count'[Home(g)] = Living(g)'
    <3>1. live_count[Home(g)] = 0 /\ held[g] = 0
          BY <1>3, <1>4, <1>5, <2>2 DEF ExactInv, HeldInv, Calling
    <3>2. \A u \in Threads \ {t} : Active(u) => call[u].id # g
          BY <1>0, <2>2, OpenCloseAlone DEF Sound
    <3>3. Counted(g) = {} /\ Pending(g) = {}
          BY <2>2, <3>2 DEF Counted, Pending, Active
    <3>4. Cardinality(Counted(g)) = 0 /\ Cardinality(Pending(g)) = 0
          BY <3>3, FS_EmptySet
    <3>5. live_count'[Home(g)] = 0 /\ held'[g] = 0
          BY <1>3, <1>5, <1>8, <2>2, <3>1
    <3> QED BY <1>3, <1>14, <2>2, <3>4, <3>5 DEF Living
  <2> QED BY <2>1, <2>2
<1>16. \A h \in Granules : held'[h] + Cardinality(Registering(h)') <= MaxLive
  <2> TAKE h \in Granules
  <2>1. held[h] + Cardinality(Registering(h)) <= MaxLive
        BY <1>4 DEF ExactInv
  <2>2. /\ held'[h] <= held[h] + IF call[t].fn = "alloc" /\ h = g THEN 1 ELSE 0
        /\ held'[h] \in Int /\ held[h] \in Nat
        BY <1>1, <1>3, <1>5, <1>t
  <2>3. MaxLive \in Nat
        BY ClientAssumption
  <2> QED BY <1>14, <2>1, <2>2, <2>3
<1>17. ExactInv'
  <2>1. ~Calling(t, "open")' /\ ~Calling(t, "close")'
        BY <1>t DEF Calling, Active
  <2> QED BY <1>7, <1>15, <1>16, <2>1 DEF ExactInv, Home, SlotAt
<1> QED BY <1>10, <1>11, <1>17 DEF DistinctInv

-----------------------------------------------------------------------------
(* Distinct homes: the invariant and the theorems                          *)

\* All of this holds of an array nobody has called yet.
LEMMA DistinctInit ==
    ASSUME Init, SoundIds PROVE DistinctInv
<1> USE DEF Init, SlotInit, ClientInit
<1>1. HeldInv
      BY DEF HeldInv
<1>2. HomeInv
  <2>1. \A g \in Granules : Home(g) \in Slots /\ g # NoId
        BY HomeInSlots DEF SoundIds
  <2>2. \A g \in Granules : Vacant(g) /\ \A s \in Slots : granule_id[s] # g
        BY <2>1 DEF Vacant
  <2>3. \A t \in Threads : AtHome(t)
        BY DEF AtHome, Calling, Active, Unread, FindLabels
  <2> QED BY <2>2, <2>3 DEF HomeInv
<1>3. ExactInv
  <2>1. \A g \in Granules : Registering(g) = {}
        BY DEF Registering, Active
  <2>2. \A g \in Granules : held[g] + Cardinality(Registering(g)) <= MaxLive
        BY <2>1, FS_EmptySet, ClientAssumption
  <2> QED BY <2>2 DEF ExactInv, Calling, Active
<1> QED BY <1>1, <1>2, <1>3 DEF DistinctInv

\* An operation of the array changes neither what the client holds nor its phases.
LEMMA SlotStepDistinct ==
    ASSUME Sound, HomesDistinct, WideCounts, DistinctInv, NEW t \in Threads, SlotStep(t)
    PROVE  DistinctInv'
<1>1. UNCHANGED bookVars
      BY SlotStepFrame DEF Sound
<1>2. HeldInv'
      BY <1>1 DEF bookVars, DistinctInv, HeldInv
<1>3. HomeInv' /\ ExactInv'
      BY SlotStepHome, SlotStepExact DEF DistinctInv
<1> QED BY <1>2, <1>3 DEF DistinctInv

\* Every step keeps it.
LEMMA DistinctNext ==
    ASSUME SoundIds, HomesDistinct, WideCounts
    PROVE  SlotInv /\ DistinctInv /\ [Next]_vars => DistinctInv'
<1> SUFFICES ASSUME SlotInv, DistinctInv, [Next]_vars PROVE DistinctInv'
    OBVIOUS
<1>1. Sound /\ IsFiniteSet(Threads)
      BY DEF Sound, SlotInv, TypeOK, PcIsFun, WideCounts
<1>2. CASE UNCHANGED vars
      BY <1>2 DEF DistinctInv, HeldInv, HomeInv, ExactInv, AtHome, Present, Vacant, Home, SlotAt,
                  Living, Counted, Pending, Registering, Calling, Active, Unread, Owning,
                  vars, slotVars, clientVars, bookVars
<1>3. ASSUME NEW t \in Threads, Call(t) PROVE DistinctInv'
  <2>1. PICK g \in Granules : ClientCall(t, g, "open_occupied", "find_occupied")
        BY <1>3, CallIsClientCall
  <2>2. UNCHANGED <<slotVars, probe>>
        BY <1>3, CallIsClientCall
  <2>3. pc'[t] = IF call'[t].fn = "open" THEN "open_occupied" ELSE "find_occupied"
        BY <1>1, <1>3, CallSlotType DEF Sound, PcIsFun
  <2>4. /\ pc'[t] \in {"open_occupied", "find_occupied", "count_alloc", "count_dealloc"}
        /\ call'[t].fn = "open"  => pc'[t] = "open_occupied"
        /\ call'[t].fn = "close" => pc'[t] = "find_occupied"
        BY <2>3
  <2> QED BY <1>1, <2>1, <2>2, <2>4, CallDistinct
<1>4. ASSUME NEW t \in Threads, SlotStep(t) PROVE DistinctInv'
      BY <1>1, <1>4, SlotStepDistinct
<1>5. ASSUME NEW t \in Threads, Return(t) PROVE DistinctInv'
  <2>1. /\ pc[t] = "ret" /\ ClientReturn(t) /\ UNCHANGED slotVars
        /\ probe' = [probe EXCEPT ![t] = 0]
        BY <1>5 DEF Return
  <2>2. pc[t] \notin FindLabels \cup OpenLabels /\ ~Owning(t) /\ Active(t)
        BY <2>1 DEF FindLabels, OpenLabels, Owning, Active
  <2>3. PICK g : g = call[t].id
        OBVIOUS
  <2> QED BY <1>1, <2>1, <2>2, <2>3, ReturnDistinct
<1> QED BY <1>2, <1>3, <1>4, <1>5 DEF Next, Step

\* With ids that hash to slots of their own, for every number of threads, every
\* capacity and every number of openings: each granule is where it hashes to, and
\* its slot counts exactly the allocations that live in it.
THEOREM DistinctHomes ==
    ASSUME SoundIds, HomesDistinct, WideCounts PROVE Spec => [](SlotInv /\ DistinctInv)
<1>1. Init => SlotInv /\ DistinctInv
      BY SlotInvInit, DistinctInit
<1>2. SlotInv /\ DistinctInv /\ [Next]_vars => (SlotInv /\ DistinctInv)'
      BY SlotInvNext, DistinctNext
<1> QED BY <1>1, <1>2, PTL DEF Spec

\* The count a close answers is the number of allocations its granule still held.
THEOREM ClosesExactly ==
    ASSUME SoundIds, HomesDistinct, WideCounts PROVE Spec => []VerdictExact
<1>1. SlotInv /\ DistinctInv => VerdictExact
  <2> SUFFICES ASSUME SlotInv, DistinctInv, NEW t \in Threads, Closing(t)
               PROVE  ret[t] = held[call[t].id]
      BY DEF VerdictExact
  <2>1. Calling(t, "close") /\ ~Unread(t)
        BY DEF Closing, Calling, Active, Unread, FindLabels
  <2> QED BY <2>1 DEF DistinctInv, ExactInv
<1> QED BY <1>1, DistinctHomes, PTL

\* A register, a deregister or a close of an open granule does not miss its slot.
THEOREM FindsGranule ==
    ASSUME SoundIds, HomesDistinct, WideCounts PROVE Spec => []FindsOpenGranule
<1>1. SlotInv /\ DistinctInv => FindsOpenGranule
  <2> SUFFICES ASSUME SlotInv, DistinctInv, NEW t \in Threads, pc[t] = "ret",
                      call[t].fn \in {"alloc", "dealloc", "close"}, phase[call[t].id] # "closed"
               PROVE  ret[t] # Error(call[t].fn)
      BY DEF FindsOpenGranule
  <2>1. Active(t) /\ AtHome(t) /\ pc[t] \notin FindLabels /\ pc[t] # "close_load"
        BY DEF Active, DistinctInv, HomeInv, FindLabels
  <2>2. CASE call[t].fn = "alloc"
        BY <2>1, <2>2 DEF AtHome, Calling, Error
  <2>3. CASE call[t].fn = "dealloc"
    <3>1. phase[call[t].id] = "open"
          BY <2>1, <2>3 DEF SlotInv, ContractInv, PhaseInv, Calling, SoundIds
    <3> QED BY <2>1, <2>3, <3>1 DEF AtHome, Calling, Error
  <2>4. CASE call[t].fn = "close"
    <3>1. Cardinality(Threads) \in Nat /\ Cardinality(Threads) # 0
          BY FS_CardinalityType, FS_EmptySet DEF WideCounts
    <3>2. MaxLive < NotFound
          BY <3>1, ClientAssumption, SlotArrayAssumption DEF WideCounts, NotFound
    <3>3. Calling(t, "close") /\ ~Unread(t) /\ call[t].id \in Granules
          BY <2>1, <2>4, CurInSlots DEF Calling, Unread, SlotInv, TypeOK
    <3>4. ret[t] = held[call[t].id] /\ held[call[t].id] \in Nat
          BY <3>3 DEF DistinctInv, ExactInv, SlotInv, TypeOK, SlotTypeOK, ClientTypeOK
    <3>5. Registering(call[t].id) \subseteq Threads
          BY DEF Registering
    <3>6. Cardinality(Registering(call[t].id)) \in Nat
          BY <3>5, FS_Subset, FS_CardinalityType DEF WideCounts
    <3>7. held[call[t].id] + Cardinality(Registering(call[t].id)) <= MaxLive
          BY <3>3 DEF DistinctInv, ExactInv
    <3> QED BY <2>4, <3>2, <3>4, <3>6, <3>7, ClientAssumption, SlotArrayAssumption DEF Error, NotFound
  <2> QED BY <2>2, <2>3, <2>4
<1> QED BY <1>1, DistinctHomes, PTL

\* An open finds the slot its id hashes to free.
THEOREM OpensFit ==
    ASSUME SoundIds, HomesDistinct, WideCounts PROVE Spec => []OpenNeverFull
<1>1. SlotInv /\ DistinctInv => OpenNeverFull
      BY DEF OpenNeverFull, DistinctInv, HomeInv, AtHome, Calling, Active, OpenLabels
<1> QED BY <1>1, DistinctHomes, PTL

-----------------------------------------------------------------------------
(* Distinct homes: the array implements the ledger                         *)

Clearing    == {"open_set_live", "close_clear_live", "close_clear_id"}
EntryOf(o, n) == [open |-> o, live |-> n]
OpenWith(n) == EntryOf(TRUE, n)

\* Counting in an entry of the ledger.
LEMMA CountEntry ==
    ASSUME NEW o, NEW n, NEW m PROVE [EntryOf(o, n) EXCEPT !.live = m] = EntryOf(o, m)
<1>1. [[open |-> o, live |-> n] EXCEPT !.live = m] = [open |-> o, live |-> m]
      BY SMT
<1> QED BY Zenon, <1>1 DEF EntryOf

LEMMA CountInEntry ==
    ASSUME NEW n, NEW e, e = OpenWith(n)
    PROVE  /\ e.open /\ e.live = n
           /\ [e EXCEPT !.live = @ + 1] = OpenWith(n + 1)
           /\ [e EXCEPT !.live = @ - 1] = OpenWith(n - 1)
<1>1. e.open
      BY Zenon DEF OpenWith, EntryOf
<1>2. e.live = n
      BY Zenon DEF OpenWith, EntryOf
<1>3. \A m : [e EXCEPT !.live = m] = OpenWith(m)
      BY Zenon, CountEntry DEF OpenWith
<1>4. [e EXCEPT !.live = e.live + 1] = OpenWith(n + 1) /\ [e EXCEPT !.live = e.live - 1] = OpenWith(n - 1)
      BY Zenon, <1>2, <1>3
<1> QED BY Zenon, <1>1, <1>2, <1>4

\* What the ledger says of a granule, if its slot is the only one that can hold it.
LEMMA HomeEntry ==
    HomeInv => \A g \in Granules :
        LedgerEntry(g) = IF Holds(Home(g), g) THEN OpenWith(live_count[Home(g)]) ELSE Ledger!Closed
<1> SUFFICES ASSUME HomeInv, NEW g \in Granules
             PROVE  LedgerEntry(g) = IF Holds(Home(g), g) THEN OpenWith(live_count[Home(g)])
                                                          ELSE Ledger!Closed
    OBVIOUS
<1>1. \A s \in Slots : Holds(s, g) => s = Home(g)
      BY DEF HomeInv, Holds
<1>2. CASE Holds(Home(g), g)
  <2>1. {s \in Slots : Holds(s, g)} = {Home(g)}
        BY <1>1, <1>2, HomeInSlots
  <2>2. (CHOOSE s \in {Home(g)} : TRUE) = Home(g)
        OBVIOUS
  <2> QED BY <1>2, <2>1, <2>2 DEF LedgerEntry, OpenWith, EntryOf
<1>3. CASE ~Holds(Home(g), g)
  <2>1. {s \in Slots : Holds(s, g)} = {}
        BY <1>1, <1>3
  <2> QED BY <1>3, <2>1 DEF LedgerEntry, Ledger!Closed
<1> QED BY <1>2, <1>3

\* A granule shows in the ledger while it is present and the call that opens or
\* closes it is not between its acts on the slot.
LEMMA HomeShows ==
    Sound /\ HomesDistinct /\ HomeInv =>
        /\ \A t \in Threads : Active(t) =>
              (Holds(Home(call[t].id), call[t].id) <=> Present(call[t].id) /\ pc[t] \notin Clearing)
        /\ \A g \in Granules :
              Holds(Home(g), g) <=>
                  Present(g) /\ \A u \in Threads : pc[u] \in Clearing => call[u].id # g
<1> SUFFICES ASSUME Sound, HomesDistinct, HomeInv
             PROVE  /\ \A t \in Threads : Active(t) =>
                          (Holds(Home(call[t].id), call[t].id)
                              <=> Present(call[t].id) /\ pc[t] \notin Clearing)
                    /\ \A g \in Granules :
                          Holds(Home(g), g) <=>
                              Present(g) /\ \A u \in Threads : pc[u] \in Clearing => call[u].id # g
    OBVIOUS
<1>1. \A u \in Threads : pc[u] \in Clearing =>
          /\ Active(u) /\ call[u].fn \in {"open", "close"}
          /\ call[u].id \in Granules /\ Cur(u) = Home(call[u].id)
      BY CurInSlots DEF Clearing, Active, Sound, LabelInv, HomeInv, AtHome, Cur, Home
<1>2. \A g \in Granules :
          Holds(Home(g), g) <=>
              Present(g) /\ \A u \in Threads : pc[u] \in Clearing => call[u].id # g
      BY <1>1 DEF Holds, Present, HomesDistinct, Clearing
<1>3. ASSUME NEW t \in Threads, Active(t)
      PROVE  Holds(Home(call[t].id), call[t].id) <=> Present(call[t].id) /\ pc[t] \notin Clearing
  <2>1. call[t].id \in Granules
        BY <1>3, CurInSlots DEF Sound
  <2>2. \A u \in Threads \ {t} : pc[u] \in Clearing => call[u].id # call[t].id
        BY <1>1, <1>3, OpenCloseAlone DEF Sound, SlotTypeOK
  <2> QED BY <1>2, <2>1, <2>2
<1> QED BY <1>2, <1>3

\* The same after a step.
LEMMA HomeEntryNext ==
    (HomeInv => \A g \in Granules :
        LedgerEntry(g) = IF Holds(Home(g), g) THEN OpenWith(live_count[Home(g)]) ELSE Ledger!Closed)'
BY HomeEntry, PTL

LEMMA HomeShowsNext ==
    (Sound /\ HomesDistinct /\ HomeInv =>
        /\ \A t \in Threads : Active(t) =>
              (Holds(Home(call[t].id), call[t].id) <=> Present(call[t].id) /\ pc[t] \notin Clearing)
        /\ \A g \in Granules :
              Holds(Home(g), g) <=>
                  Present(g) /\ \A u \in Threads : pc[u] \in Clearing => call[u].id # g)'
BY HomeShows, PTL

\* Where a thread is in the ledger: a close has acted when it has loaded its count.
Acted == {"ret", "close_clear_live", "close_clear_id", "close_release"}

LEMMA WhereInLedger ==
    \A u \in Threads : LedgerPc(u) = IF pc[u] = "idle" THEN "idle"
                                     ELSE IF pc[u] \in Acted THEN "ret" ELSE "pending"
BY DEF LedgerPc, Acted

LEMMA WhereInLedgerNext ==
    \A u \in Threads : LedgerPc(u)' = IF pc'[u] = "idle" THEN "idle"
                                      ELSE IF pc'[u] \in Acted THEN "ret" ELSE "pending"
BY DEF LedgerPc, Acted

\* A step that does not show.
LEMMA Stutters ==
    ASSUME \A u \in Threads : LedgerPc(u)' = LedgerPc(u),
           UNCHANGED <<call, ret, bookVars>>,
           \A h \in Granules : LedgerEntry(h)' = LedgerEntry(h)
    PROVE  UNCHANGED Ledger!vars
BY DEF Ledger!vars, Ledger!clientVars, Ledger!bookVars, bookVars

\* A step that answers a call.
LEMMA Acts ==
    ASSUME NEW t \in Threads, NEW g \in Granules, g = call[t].id,
           LedgerPc(t) = "pending", LedgerPc(t)' = "ret",
           \A u \in Threads \ {t} : LedgerPc(u)' = LedgerPc(u),
           NEW v, ret' = [ret EXCEPT ![t] = v],
           UNCHANGED <<call, bookVars>>,
           NEW f, LedgerEntry(g)' = f,
           \A h \in Granules \ {g} : LedgerEntry(h)' = LedgerEntry(h)
    PROVE  Ledger!Do(t, call[t].fn, LedgerEntry(g), f, v) /\ Ledger!Entry(t) = LedgerEntry(g)
<1>1. [h \in Granules |-> LedgerEntry(h)]' = [[h \in Granules |-> LedgerEntry(h)] EXCEPT ![g] = f]
      OBVIOUS
<1>2. [u \in Threads |-> LedgerPc(u)]' = [[u \in Threads |-> LedgerPc(u)] EXCEPT ![t] = "ret"]
      OBVIOUS
<1> QED BY <1>1, <1>2 DEF Ledger!Do, Ledger!Answer, Ledger!Goto, Ledger!bookVars, bookVars, Ledger!Entry

\* An operation shows in the entry of its granule only, and there as what has become
\* of the slot.
LEMMA StepEntries ==
    ASSUME Sound, Sound', HomesDistinct, HomeInv, HomeInv', NEW t \in Threads, SlotStep(t),
           NEW g \in Granules, g = call[t].id
    PROVE  /\ \A h \in Granules \ {g} : LedgerEntry(h)' = LedgerEntry(h)
           /\ LedgerEntry(g) = IF Present(g) /\ pc[t] \notin Clearing
                               THEN OpenWith(live_count[Home(g)]) ELSE Ledger!Closed
           /\ LedgerEntry(g)' = IF Present(g)' /\ pc'[t] \notin Clearing
                                THEN OpenWith(live_count'[Home(g)]) ELSE Ledger!Closed
<1>1. /\ UNCHANGED call /\ Active(t) /\ Active(t)'
      /\ \A u \in Threads \ {t} : pc'[u] = pc[u]
      BY SlotStepFrame DEF Sound
<1>4. HomesDistinct'
      BY DEF HomesDistinct, Home, SlotAt
<1>2. \A h \in Granules :
          LedgerEntry(h)' = (IF Holds(Home(h), h) THEN OpenWith(live_count[Home(h)]) ELSE Ledger!Closed)'
      BY HomeEntryNext
<1>3. /\ \A u \in Threads : Active(u)' =>
            (Holds(Home(call[u].id), call[u].id) <=> Present(call[u].id) /\ pc[u] \notin Clearing)'
      /\ \A h \in Granules :
            Holds(Home(h), h)' <=>
                Present(h)' /\ \A u \in Threads : pc'[u] \in Clearing => call'[u].id # h
      BY <1>4, HomeShowsNext
<1>5. Cur(t) = Home(g)
      BY DEF HomeInv, AtHome, Cur, Home
<1>6. LedgerEntry(g) = IF Present(g) /\ pc[t] \notin Clearing
                       THEN OpenWith(live_count[Home(g)]) ELSE Ledger!Closed
      BY <1>1, HomeEntry, HomeShows
<1>7. LedgerEntry(g)' = IF Present(g)' /\ pc'[t] \notin Clearing
                        THEN OpenWith(live_count'[Home(g)]) ELSE Ledger!Closed
      BY <1>1, <1>2, <1>3, <1>4 DEF OpenWith, EntryOf, Ledger!Closed, Home, SlotAt
<1>8. ASSUME NEW h \in Granules \ {g} PROVE LedgerEntry(h)' = LedgerEntry(h)
  <2>1. Home(h) \in Slots /\ Home(h) # Cur(t)
        BY <1>5, HomeInSlots DEF HomesDistinct
  <2>2. Present(h)' = Present(h) /\ live_count'[Home(h)] = live_count[Home(h)]
        BY <2>1, SlotStepLocal DEF Sound, Present, Home, SlotAt
  <2>3. Holds(Home(h), h)' = Holds(Home(h), h)
    <3>1. Holds(Home(h), h) <=> Present(h) /\ \A u \in Threads : pc[u] \in Clearing => call[u].id # h
          BY HomeShows
    <3>2. Holds(Home(h), h)' <=> Present(h)' /\ \A u \in Threads : pc'[u] \in Clearing => call'[u].id # h
          BY <1>3
    <3>3. \A u \in Threads : (pc[u] \in Clearing => call[u].id # h) <=> (pc'[u] \in Clearing => call'[u].id # h)
          BY <1>1
    <3>4. Holds(Home(h), h) \in BOOLEAN /\ Holds(Home(h), h)' \in BOOLEAN
          BY DEF Holds
    <3> QED BY <2>2, <3>1, <3>2, <3>3, <3>4
  <2> QED BY <1>2, <2>2, <2>3, HomeEntry DEF OpenWith, EntryOf, Ledger!Closed, Home, SlotAt
<1> QED BY <1>6, <1>7, <1>8

\* Every operation of the array is an act on the ledger, or does not show in it.
LEMMA StepLedger ==
    ASSUME Sound, Sound', HomesDistinct, WideCounts, DistinctInv, DistinctInv',
           NEW t \in Threads, SlotStep(t)
    PROVE  UNCHANGED Ledger!vars \/ Ledger!Step(t)
<1>1. /\ UNCHANGED <<call, bookVars>> /\ Active(t) /\ Active(t)'
      /\ \A u \in Threads \ {t} : pc'[u] = pc[u]
      BY SlotStepFrame DEF Sound
<1>g. PICK g \in Granules : g = call[t].id
      BY <1>1, CurInSlots DEF Sound
<1>h. HomeInv /\ HomeInv' /\ ExactInv /\ ExactInv' /\ AtHome(t)
      BY DEF DistinctInv, HomeInv
<1>2. /\ Cur(t) = Home(g) /\ Home(g) \in Slots /\ pc[t] # "open_id"
      BY <1>g, <1>h, HomeInSlots DEF AtHome, Cur, Home
<1>t. /\ pc = [u \in Threads |-> pc[u]] /\ ret \in [Threads -> Int]
      /\ occupied \in [Slots -> {0, 1}] /\ granule_id \in [Slots -> Granules \cup {NoId}]
      /\ live_count \in [Slots -> 0 .. CountMod - 1] /\ CountMod \in Nat \ {0, 1}
      BY SlotArrayAssumption DEF Sound, SlotTypeOK, ClientTypeOK, PcIsFun
<1>3. /\ \A h \in Granules \ {g} : LedgerEntry(h)' = LedgerEntry(h)
      /\ LedgerEntry(g) = IF Present(g) /\ pc[t] \notin Clearing
                          THEN OpenWith(live_count[Home(g)]) ELSE Ledger!Closed
      /\ LedgerEntry(g)' = IF Present(g)' /\ pc'[t] \notin Clearing
                           THEN OpenWith(live_count'[Home(g)]) ELSE Ledger!Closed
      BY <1>g, <1>h, StepEntries
<1>4. \A u \in Threads \ {t} : LedgerPc(u)' = LedgerPc(u)
      BY <1>1, WhereInLedger, WhereInLedgerNext
\* What does not show,
<1>5. ASSUME LedgerEntry(g)' = LedgerEntry(g), pc[t] \in Acted <=> pc'[t] \in Acted, UNCHANGED ret
      PROVE  UNCHANGED Ledger!vars
  <2>1. LedgerPc(t)' = LedgerPc(t)
        BY <1>1, <1>5, WhereInLedger, WhereInLedgerNext DEF Active
  <2> QED BY <1>1, <1>3, <1>4, <1>5, <2>1, Stutters
\* and what answers.
<1>6. ASSUME pc[t] \notin Acted, pc'[t] \in Acted, NEW v, ret' = [ret EXCEPT ![t] = v]
      PROVE  /\ LedgerPc(t) = "pending"
             /\ Ledger!Do(t, call[t].fn, LedgerEntry(g), LedgerEntry(g)', v)
             /\ Ledger!Entry(t) = LedgerEntry(g)
  <2>1. LedgerPc(t) = "pending" /\ LedgerPc(t)' = "ret"
        BY <1>1, <1>6, WhereInLedger, WhereInLedgerNext DEF Active, Acted
  <2>2. PICK f : f = LedgerEntry(g)'
        OBVIOUS
  <2> QED BY <1>1, <1>3, <1>4, <1>6, <1>g, <2>1, <2>2, Acts
<1> USE DEF Goto, Answer
<1>7. CASE FindLoadOccupied(t)
  <2>1. /\ pc[t] = "find_occupied" /\ UNCHANGED <<occupied, granule_id, live_count>>
        /\ call[t].fn \in {"close", "alloc", "dealloc"}
        BY <1>7 DEF FindLoadOccupied, slotVars, Sound, LabelInv
  <2>2. Present(g)' = Present(g)
        BY <2>1 DEF Present, Home, SlotAt
  <2>3. CASE occupied[Home(g)] = 0
    <3>1. ~Present(g)
          BY <2>3 DEF Present
    <3>2. call[t].fn = "dealloc"
          BY <1>1, <1>g, <1>h, <2>1, <3>1
          DEF AtHome, Calling, Unread, FindLabels, Sound, ContractInv, PhaseInv, HomeInv
    <3>3. pc'[t] = "ret" /\ ret' = [ret EXCEPT ![t] = -1]
          BY <1>2, <1>t, <1>7, <2>3, <3>2 DEF FindLoadOccupied, Error
    <3>4. LedgerEntry(g) = Ledger!Closed /\ LedgerEntry(g)' = Ledger!Closed
          BY <1>3, <2>2, <3>1
    <3>5. /\ LedgerPc(t) = "pending"
          /\ Ledger!Do(t, call[t].fn, LedgerEntry(g), LedgerEntry(g)', -1)
          BY <1>6, <2>1, <3>3 DEF Acted
    <3> QED BY <3>2, <3>4, <3>5 DEF Ledger!Step, Ledger!DoDeallocClosed
  <2>4. CASE occupied[Home(g)] # 0
    <3>1. pc'[t] = "find_id" /\ UNCHANGED ret
          BY <1>2, <1>t, <1>7, <2>4 DEF FindLoadOccupied
    <3>2. LedgerEntry(g)' = LedgerEntry(g)
          BY <1>3, <2>1, <2>2, <3>1 DEF Clearing
    <3> QED BY <1>5, <2>1, <3>1, <3>2 DEF Acted
  <2> QED BY <2>3, <2>4
<1>8. CASE FindLoadId(t)
  <2>1. /\ pc[t] = "find_id" /\ UNCHANGED <<occupied, granule_id, live_count>>
        /\ call[t].fn \in {"close", "alloc", "dealloc"}
        BY <1>8 DEF FindLoadId, slotVars, Sound, LabelInv
  <2>2. Present(g)
        BY <1>1, <1>g, <1>h, <2>1
        DEF AtHome, Calling, Unread, FindLabels, Sound, ContractInv, PhaseInv, HomeInv
  <2>3. pc'[t] = AfterFind(call[t].fn) /\ UNCHANGED ret
        BY <1>2, <1>g, <1>t, <1>8, <2>2 DEF FindLoadId, Present
  <2>4. pc'[t] \in {"close_load", "fetch_add", "fetch_sub"}
        BY <2>1, <2>3 DEF AfterFind
  <2>5. Present(g)' = Present(g)
        BY <2>1 DEF Present, Home, SlotAt
  <2> QED BY <1>3, <1>5, <2>1, <2>3, <2>4, <2>5 DEF Acted, Clearing
<1>9. CASE OpenLoadOccupied(t)
  <2>1. /\ pc[t] = "open_occupied" /\ UNCHANGED <<occupied, granule_id, live_count, ret>>
        /\ pc'[t] \in {"open_cas", "open_id"}
        BY <1>t, <1>9 DEF OpenLoadOccupied, slotVars
  <2>2. Present(g)' = Present(g)
        BY <2>1 DEF Present, Home, SlotAt
  <2> QED BY <1>3, <1>5, <2>1, <2>2 DEF Acted, Clearing
<1>10. CASE OpenLoadId(t)
      BY <1>2, <1>10 DEF OpenLoadId
<1>11. CASE OpenClaim(t)
  <2>1. pc[t] = "open_cas" /\ call[t].fn = "open" /\ occupied[Home(g)] = 0
        BY <1>1, <1>g, <1>h, <1>11 DEF OpenClaim, Sound, LabelInv, AtHome, Calling, Vacant
  <2>2. pc'[t] = "open_set_id" /\ UNCHANGED <<granule_id, ret>>
        BY <1>2, <1>t, <1>11, <2>1 DEF OpenClaim
  <2>3. granule_id[Home(g)] = NoId /\ g # NoId
        BY <1>2, <2>1 DEF Sound, OwnerInv, SoundIds
  <2>4. ~Present(g) /\ ~Present(g)'
        BY <2>2, <2>3 DEF Present, Home, SlotAt
  <2> QED BY <1>3, <1>5, <2>1, <2>2, <2>4 DEF Acted
<1>12. CASE OpenStoreId(t)
  <2>1. pc[t] = "open_set_id" /\ pc'[t] = "open_set_live" /\ UNCHANGED ret
        BY <1>t, <1>12 DEF OpenStoreId
  <2>2. ~Present(g)
        BY <1>2, <2>1 DEF Sound, OwnerInv, SoundIds, Present
  <2> QED BY <1>3, <1>5, <2>1, <2>2 DEF Acted, Clearing
<1>13. CASE OpenStoreLive(t)
  <2>1. /\ pc[t] = "open_set_live" /\ pc'[t] = "ret" /\ call[t].fn = "open"
        /\ live_count'[Home(g)] = 0 /\ ret' = [ret EXCEPT ![t] = 0]
        /\ UNCHANGED <<occupied, granule_id>>
        BY <1>2, <1>t, <1>13 DEF OpenStoreLive, Sound, LabelInv
  <2>2. Present(g)'
        BY <1>2, <1>g, <2>1 DEF Sound, OwnerInv, Present, Home, SlotAt
  <2>3. LedgerEntry(g) = Ledger!Closed /\ LedgerEntry(g)' = OpenWith(0)
        BY <1>3, <2>1, <2>2 DEF Clearing
  <2>4. /\ LedgerPc(t) = "pending"
        /\ Ledger!Do(t, call[t].fn, LedgerEntry(g), LedgerEntry(g)', 0)
        BY <1>6, <2>1 DEF Acted
  <2>5. Ledger!DoOpen(t)
        BY <2>1, <2>3, <2>4 DEF Ledger!DoOpen, OpenWith, EntryOf
  <2> QED BY <2>4, <2>5 DEF Ledger!Step
<1>14. CASE CloseLoadLive(t)
  <2>1. /\ pc[t] = "close_load" /\ pc'[t] = "close_clear_live" /\ call[t].fn = "close"
        /\ ret' = [ret EXCEPT ![t] = live_count[Home(g)]]
        BY <1>2, <1>t, <1>14 DEF CloseLoadLive, Sound, LabelInv
  <2>2. Present(g)
        BY <1>1, <1>g, <1>h, <2>1 DEF AtHome, Calling, Unread
  <2>3. LedgerEntry(g) = OpenWith(live_count[Home(g)]) /\ LedgerEntry(g)' = Ledger!Closed
        BY <1>3, <2>1, <2>2 DEF Clearing
  <2>4. LedgerEntry(g).open /\ LedgerEntry(g).live = live_count[Home(g)]
        BY <2>3, CountInEntry
  <2>5. /\ LedgerPc(t) = "pending" /\ Ledger!Entry(t) = LedgerEntry(g)
        /\ Ledger!Do(t, call[t].fn, LedgerEntry(g), LedgerEntry(g)', live_count[Home(g)])
        BY <1>6, <2>1 DEF Acted
  <2>6. Ledger!DoClose(t)
        BY <2>1, <2>3, <2>4, <2>5 DEF Ledger!DoClose
  <2> QED BY <2>5, <2>6 DEF Ledger!Step
<1>15. CASE CloseClearLive(t)
  <2>1. pc[t] = "close_clear_live" /\ pc'[t] = "close_clear_id" /\ UNCHANGED ret
        BY <1>t, <1>15 DEF CloseClearLive
  <2> QED BY <1>3, <1>5, <2>1 DEF Acted, Clearing
<1>16. CASE CloseClearId(t)
  <2>1. /\ pc[t] = "close_clear_id" /\ pc'[t] = "close_release" /\ UNCHANGED ret
        /\ granule_id'[Home(g)] = NoId
        BY <1>2, <1>t, <1>16 DEF CloseClearId
  <2>2. ~Present(g)'
        BY <2>1 DEF Sound, SoundIds, Present, Home, SlotAt
  <2> QED BY <1>3, <1>5, <2>1, <2>2 DEF Acted, Clearing
<1>17. CASE CloseRelease(t)
  <2>1. /\ pc[t] = "close_release" /\ pc'[t] = "ret" /\ UNCHANGED ret
        /\ occupied'[Home(g)] = 0
        BY <1>2, <1>t, <1>17 DEF CloseRelease
  <2>2. ~Present(g) /\ ~Present(g)'
        BY <1>2, <2>1 DEF Sound, SoundIds, OwnerInv, Present, Home, SlotAt
  <2> QED BY <1>3, <1>5, <2>1, <2>2 DEF Acted
<1>18. CASE AllocFetchAdd(t) \/ DeallocFetchSub(t)
  <2>1. /\ pc[t] \in {"fetch_add", "fetch_sub"} /\ pc'[t] = "ret"
        /\ ret' = [ret EXCEPT ![t] = 0] /\ UNCHANGED <<occupied, granule_id>>
        BY <1>t, <1>18 DEF AllocFetchAdd, DeallocFetchSub
  <2>2. /\ pc[t] = "fetch_add" => call[t].fn = "alloc" /\ Registered(t) /\ ~Deregistered(t)
        /\ pc[t] = "fetch_sub" => call[t].fn = "dealloc" /\ Deregistered(t) /\ ~Registered(t)
        BY <2>1, <1>t DEF Sound, LabelInv, Registered, Deregistered
  <2>3. phase[g] = "open" /\ phase'[g] = "open" /\ Present(g) /\ Present(g)'
        BY <1>1, <1>g, <1>h, <2>1, <2>2
        DEF bookVars, Sound, ContractInv, PhaseInv, AtHome, Calling, HomeInv, Home, SlotAt
  <2>4. live_count[Home(g)] = Living(g) /\ live_count'[Home(g)] = Living(g)'
        BY <1>h, <2>3 DEF ExactInv, Home, SlotAt
  <2>5. /\ Living(g) \in Nat /\ Living(g)' \in Nat
        /\ pc[t] = "fetch_add" => Living(g)' = Living(g) + 1
        /\ pc[t] = "fetch_sub" => Living(g)' = Living(g) - 1
        BY <1>g, <2>2, SlotStepLiving DEF Sound, WideCounts
  <2>6. PICK n : n = live_count[Home(g)]
        OBVIOUS
  <2>7. /\ n \in Nat
        /\ pc[t] = "fetch_add" => live_count'[Home(g)] = n + 1
        /\ pc[t] = "fetch_sub" => live_count'[Home(g)] = n - 1 /\ n > 0
        BY <2>4, <2>5, <2>6
  <2>8. LedgerEntry(g) = OpenWith(n) /\ LedgerEntry(g)' = OpenWith(live_count'[Home(g)])
        BY <1>3, <2>1, <2>3, <2>6 DEF Clearing
  <2>9. /\ LedgerPc(t) = "pending" /\ Ledger!Entry(t) = LedgerEntry(g)
        /\ Ledger!Do(t, call[t].fn, LedgerEntry(g), LedgerEntry(g)', 0)
        BY <1>6, <2>1 DEF Acted
  <2>10. /\ LedgerEntry(g).open /\ LedgerEntry(g).live = n
         /\ [LedgerEntry(g) EXCEPT !.live = @ + 1] = OpenWith(n + 1)
         /\ [LedgerEntry(g) EXCEPT !.live = @ - 1] = OpenWith(n - 1)
         BY <2>8, CountInEntry
  <2>11. CASE pc[t] = "fetch_add"
    <3>1. Ledger!DoAlloc(t)
          BY <2>2, <2>7, <2>8, <2>9, <2>10, <2>11 DEF Ledger!DoAlloc
    <3> QED BY <2>9, <3>1 DEF Ledger!Step
  <2>12. CASE pc[t] = "fetch_sub"
    <3>1. Ledger!DoDealloc(t)
          BY <2>2, <2>7, <2>8, <2>9, <2>10, <2>12 DEF Ledger!DoDealloc
    <3> QED BY <2>9, <3>1 DEF Ledger!Step
  <2> QED BY <2>1, <2>11, <2>12
<1> QED BY <1>7, <1>8, <1>9, <1>10, <1>11, <1>12, <1>13, <1>14, <1>15, <1>16, <1>17, <1>18 DEF SlotStep

-----------------------------------------------------------------------------
(* Distinct homes: calls, answers, and the refinement                      *)

MappedPc     == [u \in Threads |-> LedgerPc(u)]
MappedLedger == [h \in Granules |-> LedgerEntry(h)]

\* A call, or the answer of one, leaves the slots alone.
LEMMA CallsQuiet ==
    ASSUME NEW t \in Threads, UNCHANGED slotVars,
           \A u \in Threads \ {t} : pc'[u] = pc[u] /\ Cur(u)' = Cur(u),
           pc[t] \notin Clearing, pc'[t] \notin Clearing
    PROVE  /\ \A h : LedgerEntry(h)' = LedgerEntry(h)
           /\ \A u \in Threads \ {t} : LedgerPc(u)' = LedgerPc(u)
<1>1. \A s, h : Holds(s, h)' = Holds(s, h)
      BY DEF Holds, Clearing, slotVars
<1>2. \A h : LedgerEntry(h)' = LedgerEntry(h)
      BY <1>1 DEF LedgerEntry, slotVars
<1> QED BY <1>2, WhereInLedger, WhereInLedgerNext

\* The ledger counts as the slots do.
LEMMA SameCardinality == \A S : Ledger!Cardinality(S) = Cardinality(S)
BY Zenon DEF Cardinality, Ledger!Cardinality

LEMMA CallLedger ==
    ASSUME Sound, NEW t \in Threads, Call(t)
    PROVE  Ledger!Call(t)
<1>1. PICK g \in Granules : ClientCall(t, g, "open_occupied", "find_occupied")
      BY CallIsClientCall
<1>2. /\ pc[t] = "idle" /\ pc'[t] \in {"open_occupied", "find_occupied"}
      /\ \A u \in Threads \ {t} : pc'[u] = pc[u] /\ Cur(u)' = Cur(u)
      /\ UNCHANGED slotVars
  <2>0. ClientTypeOK /\ PcIsFun
        BY DEF Sound, SlotTypeOK
  <2>1. /\ pc[t] = "idle"
        /\ pc' = [pc EXCEPT ![t] = IF call'[t].fn = "open" THEN "open_occupied" ELSE "find_occupied"]
        /\ \A u \in Threads \ {t} : pc'[u] = pc[u] /\ call'[u] = call[u]
        BY <1>1, <2>0, CallFrame
  <2>2. UNCHANGED <<slotVars, probe>>
        BY CallIsClientCall
  <2> QED BY <2>0, <2>1, <2>2 DEF PcIsFun, Cur, SlotAt
<1>3. /\ \A h : LedgerEntry(h)' = LedgerEntry(h)
      /\ \A u \in Threads \ {t} : LedgerPc(u)' = LedgerPc(u)
      BY <1>2, CallsQuiet DEF Clearing
<1>4. LedgerPc(t) = "idle" /\ LedgerPc(t)' = "pending"
      BY <1>2, WhereInLedger, WhereInLedgerNext DEF Acted
<1>5. MappedPc' = [MappedPc EXCEPT ![t] = "pending"]
      BY <1>3, <1>4 DEF MappedPc
<1>6. ASSUME NEW fn, NEW l, Enter(t, fn, g, l) PROVE Ledger!Enter(t, fn, g, "pending")
      BY <1>4, <1>5, <1>6 DEF Enter, Ledger!Enter, MappedPc
<1>7. \A u \in Threads : Ledger!Active(u) <=> Active(u)
      BY WhereInLedger DEF Ledger!Active, Active
<1>8. Ledger!NoCallOn(g) <=> NoCallOn(g)
      BY <1>7 DEF NoCallOn, Ledger!NoCallOn
<1>9. Ledger!Registering(g) = Registering(g)
      BY <1>7 DEF Registering, Ledger!Registering
<1>10. Ledger!InUse = InUse
      BY DEF InUse, Ledger!InUse
<1>11. UNCHANGED MappedLedger
      BY <1>3 DEF MappedLedger
<1>12. \/ Ledger!CallOpen(t, g, "pending")
       \/ Ledger!CallClose(t, g, "pending")
       \/ Ledger!CallAlloc(t, g, "pending")
       \/ Ledger!CallDealloc(t, g, "pending")
       \/ Ledger!CallLateDealloc(t, g, "pending")
  <2>1. CASE CallOpen(t, g, "open_occupied")
        BY <1>6, <1>10, <2>1, SameCardinality DEF CallOpen, Ledger!CallOpen
  <2>2. CASE CallClose(t, g, "find_occupied")
        BY <1>6, <1>8, <2>2 DEF CallClose, Ledger!CallClose
  <2>3. CASE CallAlloc(t, g, "find_occupied")
        BY <1>6, <1>9, <2>3, SameCardinality DEF CallAlloc, Ledger!CallAlloc, bookVars, Ledger!bookVars
  <2>4. CASE CallDealloc(t, g, "find_occupied")
        BY <1>6, <2>4 DEF CallDealloc, Ledger!CallDealloc
  <2>5. CASE CallLateDealloc(t, g, "find_occupied")
        BY <1>6, <2>5 DEF CallLateDealloc, Ledger!CallLateDealloc
  <2> QED BY <1>1, <2>1, <2>2, <2>3, <2>4, <2>5 DEF ClientCall
<1> QED BY <1>11, <1>12 DEF Ledger!Call, MappedLedger

LEMMA ReturnLedger ==
    ASSUME Sound, NEW t \in Threads, Return(t)
    PROVE  Ledger!Return(t)
<1>2. /\ pc[t] = "ret" /\ pc'[t] = "idle"
      /\ \A u \in Threads \ {t} : pc'[u] = pc[u] /\ Cur(u)' = Cur(u)
      /\ UNCHANGED slotVars
  <2>1. /\ pc[t] = "ret" /\ ClientReturn(t) /\ UNCHANGED slotVars
        /\ \A u \in Threads \ {t} : probe'[u] = probe[u]
        BY DEF Return, Sound, SlotTypeOK
  <2>2. /\ pc' = [pc EXCEPT ![t] = "idle"]
        /\ \A u \in Threads \ {t} : pc'[u] = pc[u] /\ call'[u] = call[u]
        BY <2>1, ReturnFrame DEF Sound, SlotTypeOK, Active
  <2> QED BY <2>1, <2>2 DEF Sound, PcIsFun, Cur, SlotAt
<1>3. /\ \A h : LedgerEntry(h)' = LedgerEntry(h)
      /\ \A u \in Threads \ {t} : LedgerPc(u)' = LedgerPc(u)
      BY <1>2, CallsQuiet DEF Clearing
<1>4. LedgerPc(t) = "ret" /\ LedgerPc(t)' = "idle"
      BY <1>2, WhereInLedger, WhereInLedgerNext DEF Acted
<1>5. [u \in Threads |-> LedgerPc(u)]' = [[u \in Threads |-> LedgerPc(u)] EXCEPT ![t] = "idle"]
      BY <1>3, <1>4
<1>6. Ledger!ClientReturn(t)
      BY <1>5 DEF Return, ClientReturn, Ledger!ClientReturn, NoCall, Ledger!NoCall, NoId, Ledger!NoId
<1> QED BY <1>3, <1>4, <1>6 DEF Ledger!Return

LEMMA InitLedger == ASSUME Init, SoundIds PROVE Ledger!Init
<1> USE DEF Init, SlotInit, ClientInit
<1>1. \A h \in Granules : LedgerEntry(h) = Ledger!Closed
  <2>1. HomeInv
        BY DistinctInit DEF DistinctInv
  <2>2. \A h \in Granules : Home(h) \in Slots
        BY HomeInSlots
  <2>3. \A h \in Granules : ~Holds(Home(h), h)
        BY <2>2 DEF Holds
  <2> QED BY <2>1, <2>3, HomeEntry
<1>2. \A u \in Threads : LedgerPc(u) = "idle"
      BY WhereInLedger
<1> QED BY <1>1, <1>2 DEF Ledger!Init, Ledger!ClientInit, NoCall, Ledger!NoCall, NoId, Ledger!NoId

LEMMA NextLedger ==
    ASSUME SoundIds, HomesDistinct, WideCounts
    PROVE  /\ SlotInv /\ DistinctInv /\ (SlotInv /\ DistinctInv)' /\ [Next]_vars
           => [Ledger!Next]_(Ledger!vars)
<1> SUFFICES ASSUME SlotInv, DistinctInv, SlotInv', DistinctInv', [Next]_vars
             PROVE  Ledger!Next \/ UNCHANGED Ledger!vars
    OBVIOUS
<1>s. Sound /\ Sound'
      BY DEF Sound, SlotInv, TypeOK, PcIsFun, SoundIds
<1>1. CASE UNCHANGED vars
  <2>1. \A h : LedgerEntry(h)' = LedgerEntry(h)
        BY <1>1 DEF LedgerEntry, Holds, Cur, SlotAt, vars, slotVars, clientVars
  <2>2. \A u \in Threads : LedgerPc(u)' = LedgerPc(u)
        BY <1>1, WhereInLedger, WhereInLedgerNext DEF vars, clientVars
  <2> QED BY <1>1, <2>1, <2>2, Stutters DEF vars, clientVars
<1>2. CASE Next
  <2>1. PICK t \in Threads : Call(t) \/ SlotStep(t) \/ Return(t)
        BY <1>2 DEF Next, Step
  <2>2. CASE Call(t)
        BY <1>s, <2>2, CallLedger DEF Ledger!Next
  <2>3. CASE SlotStep(t)
        BY <1>s, <2>3, StepLedger DEF Ledger!Next
  <2>4. CASE Return(t)
        BY <1>s, <2>4, ReturnLedger DEF Ledger!Next, Ledger!Step
  <2> QED BY <2>1, <2>2, <2>3, <2>4
<1> QED BY <1>1, <1>2

\* Every behaviour of the array is one of the ledger: to the client each call acts at
\* one moment between its call and its return, whatever the other threads do, and
\* none is refused.
THEOREM ArrayImplementsLedger ==
    ASSUME SoundIds, HomesDistinct, WideCounts PROVE Spec => Ledger!Spec
<1>1. Init => Ledger!Init
      BY InitLedger
<1> QED BY <1>1, NextLedger, DistinctHomes, PTL DEF Spec, Ledger!Spec

-----------------------------------------------------------------------------
(* Any hash: a close never answers too little                              *)

\* A granule has one first slot.
LEMMA FirstIsOne ==
    ASSUME NEW g \in Granules, NEW p \in Slots, NEW q \in Slots, FirstAt(g, p), FirstAt(g, q)
    PROVE  p = q
<1>1. p \in Nat /\ q \in Nat
      BY ClientAssumption DEF Slots
<1>2. ~(p < q) /\ ~(q < p)
      BY <1>1 DEF FirstAt, Passed
<1> QED BY <1>1, <1>2

\* Where a slot of g shows up or goes, somebody opens or closes g.
LEMMA SlotStepIds ==
    ASSUME Sound, NEW t \in Threads, SlotStep(t), NEW g \in Granules,
           call[t].id # g \/ call[t].fn \in {"alloc", "dealloc"} \/ pc[t] \in FindLabels \cup {"close_load"}
    PROVE  \A x \in Slots : granule_id'[x] = g <=> granule_id[x] = g
<1>1. Active(t)
      BY SlotStepFrame DEF Sound
<1>2. Cur(t) \in Slots
      BY <1>1, CurInSlots DEF Sound
<1>3. \A x \in Slots : x # Cur(t) => granule_id'[x] = granule_id[x]
      BY SlotStepLocal DEF Sound
<1>4. granule_id'[Cur(t)] = g <=> granule_id[Cur(t)] = g
  <2>1. CASE OpenStoreId(t)
        BY <1>2, <2>1 DEF OpenStoreId, Sound, SoundIds, OwnerInv, LabelInv, SlotTypeOK, FindLabels
  <2>2. CASE CloseClearId(t)
        BY <1>2, <2>2 DEF CloseClearId, Sound, SoundIds, RightSlot, LabelInv, SlotTypeOK, FindLabels
  <2>3. CASE ~OpenStoreId(t) /\ ~CloseClearId(t)
        BY <2>3 DEF SlotStep, FindLoadOccupied, FindLoadId, OpenLoadOccupied, OpenLoadId, OpenClaim,
             OpenStoreLive, CloseLoadLive, CloseClearLive, CloseRelease, AllocFetchAdd,
             DeallocFetchSub, slotVars
  <2> QED BY <2>1, <2>2, <2>3
<1> QED BY <1>2, <1>3, <1>4

\* So searches stay where they are.
LEMMA PassedStays ==
    ASSUME NEW g \in Granules, \A x \in Slots : granule_id'[x] = g <=> granule_id[x] = g
    PROVE  /\ \A p \in Slots : Passed(g, p)' = Passed(g, p)
           /\ \A p \in Slots : FirstAt(g, p)' = FirstAt(g, p)
<1>1. \A p \in Slots : \A q \in 0 .. p - 1 : SlotAt(g, q) \in Slots
      BY SlotAtInSlots, ClientAssumption DEF Slots
<1>2. \A p \in Slots : Passed(g, p)' = Passed(g, p)
      BY <1>1 DEF Passed, SlotAt
<1> QED BY <1>2, SlotAtInSlots DEF FirstAt, SlotAt

\* A thread that searches passes no slot of its granule.
LEMMA SlotStepProbe ==
    ASSUME Sound, ProbeInv, NEW t \in Threads, SlotStep(t)
    PROVE  ProbeInv'
<1>1. /\ UNCHANGED <<call, bookVars>> /\ Active(t) /\ Active(t)'
      /\ \A u \in Threads \ {t} : pc'[u] = pc[u] /\ probe'[u] = probe[u]
      BY SlotStepFrame DEF Sound
<1>t. /\ pc = [u \in Threads |-> pc[u]] /\ probe \in [Threads -> Slots]
      /\ Cur(t) \in Slots /\ call[t].id \in Granules
      BY <1>1, CurInSlots DEF Sound, SlotTypeOK, PcIsFun
<1> DEFINE Searching == FindLabels \cup {"fetch_add", "fetch_sub", "close_load"}
<1>2. ASSUME NEW u \in Threads \ {t}, pc[u] \in Searching
      PROVE  Passed(call[u].id, probe[u])'
  <2>1. Active(u) /\ call[u].id \in Granules /\ probe[u] \in Slots
        BY <1>2, <1>t, CurInSlots DEF Sound, Active, FindLabels
  <2>2. call[t].id # call[u].id \/ call[t].fn \in {"alloc", "dealloc"}
        BY <1>1, <2>1, OpenCloseAlone DEF Sound, SlotTypeOK, ClientTypeOK, Calls
  <2>3. Passed(call[u].id, probe[u])
        BY <1>2 DEF ProbeInv
  <2>4. PICK g \in Granules : g = call[u].id
        BY <2>1
  <2>5. \A x \in Slots : granule_id'[x] = g <=> granule_id[x] = g
        BY <2>2, <2>4, SlotStepIds
  <2>6. Passed(g, probe[u])'
        BY <1>1, <2>1, <2>3, <2>4, <2>5, PassedStays DEF Passed, SlotAt
  <2> QED BY <1>1, <2>4, <2>6 DEF Passed, SlotAt
<1>3. ASSUME pc'[t] \in Searching
      PROVE  Passed(call[t].id, probe[t])'
  <2>1. pc[t] \in FindLabels /\ UNCHANGED granule_id
        BY <1>t, <1>3 DEF SlotStep, FindLoadOccupied, FindLoadId, OpenLoadOccupied, OpenLoadId, OpenClaim,
             OpenStoreId, OpenStoreLive, CloseLoadLive, CloseClearLive, CloseClearId, CloseRelease,
             AllocFetchAdd, DeallocFetchSub, slotVars, Goto, Answer, NextProbe, FindLabels
  <2>2. Passed(call[t].id, probe[t])
        BY <2>1 DEF ProbeInv
  <2>3. \/ probe'[t] = probe[t]
        \/ probe'[t] = probe[t] + 1 /\ granule_id[Cur(t)] # call[t].id
        BY <1>t, <2>1, <1>3 DEF SlotStep, FindLoadOccupied, FindLoadId, OpenLoadOccupied, OpenLoadId, OpenClaim,
             OpenStoreId, OpenStoreLive, CloseLoadLive, CloseClearLive, CloseClearId, CloseRelease,
             AllocFetchAdd, DeallocFetchSub, NextProbe, FindLabels
  <2>4. \A q \in 0 .. probe'[t] - 1 : q \in 0 .. probe[t] - 1 \/ (q = probe[t] /\ granule_id[Cur(t)] # call[t].id)
        BY <1>t, <2>3, ClientAssumption DEF Slots
  <2> QED BY <1>1, <2>1, <2>2, <2>4 DEF Passed, SlotAt, Cur
<1> QED BY <1>1, <1>2, <1>3 DEF ProbeInv, Active

\* The counts, as UpperCountInv bounds them.
CountsCover(g) ==
    Accounted(g) => \A p \in Slots : FirstAt(g, p) => live_count[SlotAt(g, p)] >= Living(g)
AnswerCovers(t) ==
    Calling(t, "close") /\ ~Unread(t) /\ ret[t] # NotFound => ret[t] >= held[call[t].id]

LEMMA UpperCountParts ==
    UpperCountInv <=> (\A g \in Granules : CountsCover(g)) /\ (\A t \in Threads : AnswerCovers(t))
BY DEF UpperCountInv, CountsCover, AnswerCovers

LEMMA UpperCountPartsNext ==
    (UpperCountInv <=> (\A g \in Granules : CountsCover(g)) /\ (\A t \in Threads : AnswerCovers(t)))'
BY UpperCountParts, PTL

\* A granule that is being opened has nothing to count.
LEMMA OpeningEmpty ==
    ASSUME ClientTypeOK, ContractInv, HeldInv, SoundIds,
           NEW g \in Granules, phase[g] = "opening" \/ (phase[g] = "closed" /\ opens[g] < MaxOpens)
    PROVE  Living(g) = 0 /\ Counted(g) = {} /\ Pending(g) = {}
<1>1. held[g] = 0
      BY DEF HeldInv
<1>2. opens[g] < MaxOpens => opens[g] # MaxOpens
      BY ClientAssumption DEF ClientTypeOK
<1>3. \A u \in Threads : Active(u) /\ call[u].id = g => call[u].fn \notin {"alloc", "dealloc"}
      BY <1>2 DEF ContractInv, PhaseInv, Calling, SoundIds
<1>4. Counted(g) = {} /\ Pending(g) = {}
      BY <1>3 DEF Counted, Pending, Active
<1> QED BY <1>1, <1>4, FS_EmptySet DEF Living

\* What lives includes what is held.
LEMMA LivingHolds ==
    ASSUME ClientTypeOK, IsFiniteSet(Threads), NEW g \in Granules
    PROVE  Living(g) >= held[g] /\ Living(g) \in Nat
<1>1. Counted(g) \subseteq Threads /\ Pending(g) \subseteq Threads
      BY DEF Counted, Pending
<1>2. Cardinality(Counted(g)) \in Nat /\ Cardinality(Pending(g)) \in Nat
      BY <1>1, FS_Subset, FS_CardinalityType
<1> QED BY <1>2 DEF Living, ClientTypeOK

\* An operation in another granule leaves the count of the slots of this one alone.
LEMMA SlotStepElsewhere ==
    ASSUME Sound, NEW t \in Threads, SlotStep(t), NEW g \in Granules, g # call[t].id,
           NEW x \in Slots, granule_id[x] = g
    PROVE  live_count'[x] = live_count[x]
<1>1. Active(t) /\ Cur(t) \in Slots
      BY SlotStepFrame, CurInSlots DEF Sound
<1>2. CASE x # Cur(t)
      BY <1>2, SlotStepLocal DEF Sound
<1>3. CASE x = Cur(t)
  <2>1. ~OpenStoreLive(t) /\ ~CloseClearLive(t) /\ ~AllocFetchAdd(t) /\ ~DeallocFetchSub(t)
        BY <1>3 DEF OpenStoreLive, CloseClearLive, AllocFetchAdd, DeallocFetchSub,
                    Sound, OwnerInv, RightSlot
  <2> QED BY <2>1 DEF SlotStep, FindLoadOccupied, FindLoadId, OpenLoadOccupied, OpenLoadId, OpenClaim,
           OpenStoreId, CloseLoadLive, CloseClearId, CloseRelease, slotVars
<1> QED BY <1>2, <1>3

\* An operation keeps the counts of a granule up, and the answers.
LEMMA SlotStepCovers ==
    ASSUME Sound, CountInv, IsFiniteSet(Threads), NoOverflow, NEW t \in Threads, SlotStep(t)
    PROVE  UpperCountInv'
<1>1. /\ UNCHANGED <<call, bookVars>> /\ Active(t) /\ Active(t)'
      /\ \A u \in Threads \ {t} : pc'[u] = pc[u] /\ ret'[u] = ret[u] /\ probe'[u] = probe[u]
      BY SlotStepFrame DEF Sound
<1>g. PICK g0 \in Granules : g0 = call[t].id
      BY <1>1, CurInSlots DEF Sound
<1>t. /\ pc = [u \in Threads |-> pc[u]] /\ ret \in [Threads -> Int] /\ probe[t] \in Slots
      /\ live_count \in [Slots -> 0 .. CountMod - 1] /\ CountMod \in Nat \ {0, 1}
      /\ Cur(t) \in Slots /\ Cur(t) = SlotAt(g0, probe[t]) /\ ClientTypeOK
      /\ live_count' \in [Slots -> 0 .. CountMod - 1]
      BY <1>1, <1>g, CurInSlots, SlotStepType, SlotArrayAssumption
      DEF Sound, SlotTypeOK, ClientTypeOK, PcIsFun, Cur
<1>2. \A g \in Granules : CountsCover(g)
      BY UpperCountParts DEF CountInv
<1>3. AnswerCovers(t)
      BY UpperCountParts DEF CountInv
\* No close goes back to where it has not read the count.
<1>4. Unread(t)' /\ call[t].fn = "close" => Unread(t)
      BY <1>t DEF SlotStep, FindLoadOccupied, FindLoadId, OpenLoadOccupied, OpenLoadId, OpenClaim,
             OpenStoreId, OpenStoreLive, CloseLoadLive, CloseClearLive, CloseClearId, CloseRelease,
             AllocFetchAdd, DeallocFetchSub, Goto, Answer, NextProbe, Unread, FindLabels, Sound, LabelInv
<1>5. \A g \in Granules : Accounted(g)' => Accounted(g)
      BY <1>1, <1>4 DEF Accounted, Calling, Active, Unread, bookVars
\* The other granules.
<1>6. ASSUME NEW g \in Granules \ {g0} PROVE CountsCover(g)'
  <2>1. \A x \in Slots : granule_id'[x] = g <=> granule_id[x] = g
        BY <1>g, SlotStepIds
  <2>2. \A p \in Slots : FirstAt(g, p)' = FirstAt(g, p)
        BY <2>1, PassedStays
  <2>3. Living(g)' = Living(g)
        BY <1>g, SlotStepLiving DEF Sound
  <2>4. \A p \in Slots : FirstAt(g, p) => live_count'[SlotAt(g, p)] = live_count[SlotAt(g, p)]
        BY <1>g, SlotAtInSlots, SlotStepElsewhere DEF FirstAt
  <2>5. \A p \in Slots : Accounted(g)' /\ FirstAt(g, p)' => live_count'[SlotAt(g, p)] >= Living(g)'
        BY <1>2, <1>5, <2>2, <2>3, <2>4 DEF CountsCover
  <2> QED BY <2>5 DEF CountsCover, SlotAt
\* The granule of the call: by what the call is for.
<1>7. ASSUME call[t].fn = "open" PROVE CountsCover(g0)'
  <2>1. phase[g0] = "opening"
        BY <1>1, <1>7, <1>g DEF Sound, ContractInv, PhaseInv, Calling
  <2>2. Living(g0) = 0 /\ Living(g0)' = 0
        BY <1>7, <1>g, <2>1, OpeningEmpty, SlotStepLiving
        DEF Sound, SlotTypeOK, CountInv, Registered, Deregistered
  <2>3. \A p \in Slots : live_count'[SlotAt(g0, p)] >= 0
        BY <1>t, SlotAtInSlots
  <2> QED BY <2>2, <2>3 DEF CountsCover, SlotAt
<1>8. ASSUME call[t].fn \in {"close", "alloc", "dealloc"},
             pc[t] \in FindLabels \cup {"close_load", "fetch_add", "fetch_sub"},
             Accounted(g0) /\ FirstAt(g0, probe[t]) /\ pc[t] \in {"fetch_add", "fetch_sub"}
                 /\ live_count[Cur(t)] >= Living(g0) => live_count'[Cur(t)] >= Living(g0)',
             pc[t] \notin {"fetch_add", "fetch_sub"} => UNCHANGED live_count /\ Living(g0)' <= Living(g0)
      PROVE  CountsCover(g0)'
  <2>1. pc[t] \in FindLabels \cup {"close_load"} \/ call[t].fn \in {"alloc", "dealloc"}
        BY <1>8 DEF Sound, LabelInv
  <2>2. \A x \in Slots : granule_id'[x] = g0 <=> granule_id[x] = g0
        BY <2>1, SlotStepIds
  <2>3. \A p \in Slots : FirstAt(g0, p)' = FirstAt(g0, p)
        BY <2>2, PassedStays
  <2>4. Living(g0) \in Nat /\ Living(g0)' \in Nat
        BY SlotStepLiving DEF Sound
  <2>5. ASSUME NEW p \in Slots, Accounted(g0)', FirstAt(g0, p)'
        PROVE  live_count'[SlotAt(g0, p)] >= Living(g0)'
    <3>1. Accounted(g0) /\ FirstAt(g0, p) /\ live_count[SlotAt(g0, p)] >= Living(g0)
          BY <1>2, <1>5, <2>3, <2>5 DEF CountsCover
    <3>2. SlotAt(g0, p) \in Slots
          BY SlotAtInSlots
    <3>3. CASE pc[t] \in {"fetch_add", "fetch_sub"}
      <4>1. FirstAt(g0, probe[t])
            BY <1>g, <1>t, <3>3 DEF FirstAt, Sound, RightSlot, CountInv, ProbeInv
      <4>2. p = probe[t]
            BY <1>t, <3>1, <4>1, FirstIsOne
      <4> QED BY <1>8, <1>t, <3>1, <3>3, <4>1, <4>2
    <3>4. CASE pc[t] \notin {"fetch_add", "fetch_sub"}
          BY <1>8, <1>t, <2>4, <3>1, <3>2, <3>4
    <3> QED BY <3>3, <3>4
  <2> QED BY <2>5 DEF CountsCover, SlotAt

<1>9. ~Registered(t) => Living(g0)' <= Living(g0)
      BY <1>g, SlotStepLiving DEF Sound
<1>u. \A u \in Threads \ {t} : AnswerCovers(u)'
      BY <1>1, UpperCountParts DEF CountInv, AnswerCovers, Calling, Active, Unread, bookVars, NotFound
<1>s. SUFFICES AnswerCovers(t)' /\ CountsCover(g0)'
      BY <1>6, <1>u, UpperCountPartsNext
\* A close has no say in a count of its granule once it has read it.
<1>10. ASSUME call[t].fn = "close", ~Unread(t)' PROVE CountsCover(g0)'
       BY <1>1, <1>g, <1>10 DEF CountsCover, Accounted, Calling
<1> USE DEF Goto, Answer, NextProbe
<1>11. CASE FindLoadOccupied(t) \/ FindLoadId(t)
  <2>1. /\ pc[t] \in FindLabels /\ UNCHANGED live_count
        /\ call[t].fn \in {"close", "alloc", "dealloc"}
        BY <1>11 DEF FindLoadOccupied, FindLoadId, slotVars, Sound, LabelInv, FindLabels
  <2>2. \/ pc'[t] \in {"find_id", "find_occupied", "close_load", "fetch_add", "fetch_sub"}
        \/ pc'[t] = "ret" /\ ret'[t] = Error(call[t].fn)
        BY <1>t, <1>11, <2>1 DEF FindLoadOccupied, FindLoadId, AfterFind
  <2>3. call[t].fn # "close" => Error(call[t].fn) = -1
        BY DEF Error
  <2>4. ~Registered(t)
        BY <2>2, <2>3 DEF Registered
  <2>5. CountsCover(g0)'
        BY <1>8, <1>9, <2>1, <2>4 DEF FindLabels
  <2>6. call[t].fn = "close" => pc'[t] \in FindLabels \cup {"close_load"} \/ ret'[t] = NotFound
        BY <1>t, <1>11, <2>1 DEF FindLoadOccupied, FindLoadId, AfterFind, FindLabels, Error
  <2>7. AnswerCovers(t)'
        BY <1>1, <2>6 DEF AnswerCovers, Calling, Unread, NotFound
  <2> QED BY <2>5, <2>7
<1>12. CASE /\ call[t].fn = "open"
            /\ OpenLoadOccupied(t) \/ OpenLoadId(t) \/ OpenClaim(t) \/ OpenStoreId(t) \/ OpenStoreLive(t)
       BY <1>1, <1>7, <1>12 DEF AnswerCovers, Calling
<1>13. CASE CloseLoadLive(t)
  <2>1. /\ pc[t] = "close_load" /\ call[t].fn = "close" /\ pc'[t] = "close_clear_live"
        /\ ret'[t] = live_count[Cur(t)]
        BY <1>t, <1>13 DEF CloseLoadLive, Sound, LabelInv
  <2>2. FirstAt(g0, probe[t])
        BY <1>g, <1>t, <2>1 DEF FirstAt, Sound, RightSlot, CountInv, ProbeInv
  <2>3. Accounted(g0)
    <3>1. phase[g0] = "closing"
          BY <1>1, <1>g, <2>1 DEF Sound, ContractInv, PhaseInv, Calling
    <3>2. \A u \in Threads : Calling(u, "close") /\ call[u].id = g0 => u = t
          BY <1>1, <1>g, <2>1, OpenCloseAlone DEF Sound, SlotTypeOK, Calling
    <3> QED BY <2>1, <3>1, <3>2 DEF Accounted, Unread
  <2>4. live_count[Cur(t)] >= Living(g0)
        BY <1>2, <1>t, <2>2, <2>3 DEF CountsCover
  <2>5. Living(g0) >= held[g0] /\ Living(g0) \in Nat /\ held[g0] \in Nat
        BY <1>t, LivingHolds DEF ClientTypeOK
  <2>6. live_count[Cur(t)] >= held[g0]
        BY <1>t, <2>4, <2>5
  <2>7. AnswerCovers(t)'
        BY <1>1, <1>g, <2>1, <2>6 DEF AnswerCovers, bookVars
  <2>8. ~Unread(t)'
        BY <2>1 DEF Unread, FindLabels
  <2> QED BY <1>10, <2>1, <2>7, <2>8
<1>14. CASE CloseClearLive(t) \/ CloseClearId(t) \/ CloseRelease(t)
  <2>1. /\ pc[t] \in {"close_clear_live", "close_clear_id", "close_release"}
        /\ call[t].fn = "close"
        /\ pc'[t] \in {"close_clear_id", "close_release", "ret"} /\ ret'[t] = ret[t]
        BY <1>t, <1>14 DEF CloseClearLive, CloseClearId, CloseRelease, Sound, LabelInv
  <2>2. ~Unread(t) /\ ~Unread(t)'
        BY <2>1 DEF Unread, FindLabels
  <2>3. AnswerCovers(t)'
        BY <1>1, <1>3, <2>1, <2>2 DEF AnswerCovers, Calling, bookVars, NotFound
  <2> QED BY <1>10, <2>1, <2>2, <2>3
<1>15. CASE AllocFetchAdd(t)
  <2>1. /\ pc[t] = "fetch_add" /\ call[t].fn = "alloc" /\ pc'[t] = "ret" /\ ret'[t] = 0
        /\ live_count'[Cur(t)] = (live_count[Cur(t)] + 1) % CountMod
        BY <1>t, <1>15 DEF AllocFetchAdd, Sound, LabelInv
  <2>2. live_count'[Cur(t)] = live_count[Cur(t)] + 1
        BY <1>t, <2>1 DEF NoOverflow
  <2>3. Living(g0)' = Living(g0) + 1 /\ Living(g0) \in Nat
        BY <1>g, <2>1, SlotStepLiving DEF Sound, Registered
  <2>4. CountsCover(g0)'
        BY <1>8, <1>t, <2>1, <2>2, <2>3
  <2> QED BY <1>1, <2>1, <2>4 DEF AnswerCovers, Calling
<1>16. CASE DeallocFetchSub(t)
  <2>1. /\ pc[t] = "fetch_sub" /\ call[t].fn = "dealloc" /\ pc'[t] = "ret"
        /\ live_count'[Cur(t)] = (live_count[Cur(t)] - 1) % CountMod
        BY <1>t, <1>16 DEF DeallocFetchSub, Sound, LabelInv
  <2>2. Living(g0)' = Living(g0) - 1 /\ Living(g0)' \in Nat /\ Living(g0) \in Nat
        BY <1>g, <2>1, SlotStepLiving DEF Sound, Deregistered
  <2>3. live_count[Cur(t)] >= Living(g0) => live_count'[Cur(t)] = live_count[Cur(t)] - 1
        BY <1>t, <2>1, <2>2
  <2>4. CountsCover(g0)'
        BY <1>8, <1>t, <2>1, <2>2, <2>3
  <2> QED BY <1>1, <2>1, <2>4 DEF AnswerCovers, Calling
<1>17. OpenLoadOccupied(t) \/ OpenLoadId(t) \/ OpenClaim(t) \/ OpenStoreId(t) \/ OpenStoreLive(t)
           => call[t].fn = "open"
       BY DEF OpenLoadOccupied, OpenLoadId, OpenClaim, OpenStoreId, OpenStoreLive, Sound, LabelInv
<1> QED BY <1>11, <1>12, <1>13, <1>14, <1>15, <1>16, <1>17 DEF SlotStep

\* A call changes neither the slots nor what lives in a granule, but for a free that
\* comes after the close; and only an open makes a granule count again.
LEMMA CallCovers ==
    ASSUME Sound, CountInv, IsFiniteSet(Threads), NEW t \in Threads, Call(t)
    PROVE  CountInv'
<1>1. PICK g \in Granules : ClientCall(t, g, "open_occupied", "find_occupied")
      BY CallIsClientCall
<1>2. UNCHANGED <<occupied, granule_id, live_count, probe>>
      BY CallIsClientCall DEF slotVars
<1>3. ClientTypeOK /\ PcIsFun /\ ContractInv /\ HeldInv /\ ClientTypeOK'
      BY CallSlotType DEF Sound, SlotTypeOK, CountInv
<1>4. /\ pc[t] = "idle" /\ call'[t].id = g /\ UNCHANGED ret
      /\ call'[t].fn \in {"open", "close", "alloc", "dealloc"}
      /\ pc'[t] = IF call'[t].fn = "open" THEN "open_occupied" ELSE "find_occupied"
      /\ \A u \in Threads \ {t} : pc'[u] = pc[u] /\ call'[u] = call[u]
  <2>1. /\ pc[t] = "idle" /\ call'[t].id = g /\ UNCHANGED ret /\ call'[t] \in Calls
        /\ pc' = [pc EXCEPT ![t] = IF call'[t].fn = "open" THEN "open_occupied" ELSE "find_occupied"]
        /\ \A u \in Threads \ {t} : pc'[u] = pc[u] /\ call'[u] = call[u]
        BY <1>1, <1>3, CallFrame
  <2> QED BY <1>3, <2>1 DEF PcIsFun, Calls
<1>t. /\ phase \in [Granules -> {"closed", "opening", "open", "closing"}]
      /\ held \in [Granules -> Nat] /\ call \in [Threads -> Calls \cup {NoCall}]
      BY <1>3 DEF ClientTypeOK
<1>5. /\ phase' = [phase EXCEPT ![g] = IF call'[t].fn = "open" THEN "opening"
                                     ELSE IF call'[t].fn = "close" THEN "closing" ELSE phase[g]]
      /\ held' = [held EXCEPT ![g] = IF call'[t].fn = "dealloc" /\ phase[g] = "open" THEN @ - 1 ELSE @]
      /\ call'[t].fn = "open"  => phase[g] = "closed" /\ opens[g] < MaxOpens
      /\ call'[t].fn \in {"close", "alloc"} => phase[g] = "open"
      /\ call'[t].fn = "close" => NoCallOn(g)
      /\ call'[t].fn = "dealloc" => phase[g] = "closed" \/ (phase[g] = "open" /\ held[g] > 0)
      /\ phase[g] \in {"open", "closed"}
  <2> USE DEF Enter
  <2>1. CASE CallOpen(t, g, "open_occupied")         BY <1>4, <1>t, <2>1 DEF CallOpen
  <2>2. CASE CallClose(t, g, "find_occupied")        BY <1>4, <1>t, <2>2 DEF CallClose
  <2>3. CASE CallAlloc(t, g, "find_occupied")        BY <1>t, <2>3 DEF CallAlloc, bookVars
  <2>4. CASE CallDealloc(t, g, "find_occupied")      BY <1>t, <2>4 DEF CallDealloc
  <2>5. CASE CallLateDealloc(t, g, "find_occupied")
        BY <1>t, <2>5 DEF CallLateDealloc, Sound, SoundIds
  <2> QED BY <1>1, <2>1, <2>2, <2>3, <2>4, <2>5 DEF ClientCall
<1>6. /\ phase'[g] = IF call'[t].fn = "open" THEN "opening"
                    ELSE IF call'[t].fn = "close" THEN "closing" ELSE phase[g]
      /\ held'[g] = IF call'[t].fn = "dealloc" /\ phase[g] = "open" THEN held[g] - 1 ELSE held[g]
      /\ \A h \in Granules \ {g} : phase'[h] = phase[h] /\ held'[h] = held[h]
      BY <1>5, <1>t
<1>7. HeldInv'
      BY <1>3, <1>5, <1>6, <1>t DEF HeldInv
<1>8. \A h, p : (Passed(h, p)' <=> Passed(h, p)) /\ (FirstAt(h, p)' <=> FirstAt(h, p))
      BY <1>2 DEF Passed, FirstAt, SlotAt
<1>9. ProbeInv'
  <2>1. probe'[t] = 0
        BY <1>2, <1>4 DEF CountInv, ProbeInv
  <2>2. Passed(g, 0)
        BY DEF Passed
  <2> QED BY <1>2, <1>4, <1>8, <2>1, <2>2 DEF CountInv, ProbeInv
<1>10. \A h \in Granules :
           /\ Cardinality(Pending(h)) \in Nat
           /\ IF call'[t].fn = "dealloc" /\ h = g
              THEN Cardinality(Pending(h)') = Cardinality(Pending(h)) + 1
              ELSE Cardinality(Pending(h)') = Cardinality(Pending(h))
  <2> TAKE h \in Granules
  <2>1. t \notin Pending(h) /\ (t \in Pending(h)' <=> call'[t].fn = "dealloc" /\ h = g)
        BY <1>3, <1>4, Members, MembersNext DEF Active
  <2>2. IsFiniteSet(Pending(h)) /\ IsFiniteSet(Pending(h)') /\ Pending(h) \ {t} = Pending(h)' \ {t}
        BY <1>4, OneMoves
  <2>3. /\ Cardinality(Pending(h)) \in Nat
        /\ t \in Pending(h)' => Cardinality(Pending(h)') = Cardinality(Pending(h)) + 1
        /\ t \notin Pending(h)' => Cardinality(Pending(h)') = Cardinality(Pending(h))
        BY <2>1, <2>2, MovedOne
  <2> QED BY <2>1, <2>3
<1>11. \A h \in Granules : Counted(h)' = Counted(h) /\ Cardinality(Counted(h)) \in Nat
  <2> TAKE h \in Granules
  <2>1. t \notin Counted(h) /\ t \notin Counted(h)'
        BY <1>3, <1>4, Members, MembersNext
  <2>2. Counted(h) \ {t} = Counted(h)' \ {t} /\ IsFiniteSet(Counted(h))
        BY <1>4, OneMoves
  <2>3. Counted(h)' = Counted(h)
        BY <2>1, <2>2
  <2> QED BY <2>2, <2>3, FS_CardinalityType
<1>12. ASSUME NEW h \in Granules PROVE CountsCover(h)'
  <2>1. CountsCover(h) /\ Living(h) \in Nat
        BY <1>3, UpperCountParts, LivingHolds DEF CountInv
  <2>2. CASE h # g \/ call'[t].fn \in {"close", "alloc"} \/ (call'[t].fn = "dealloc" /\ phase[g] = "open")
    <3>1. Living(h)' = Living(h)
          BY <1>5, <1>6, <1>10, <1>11, <1>t, <2>2 DEF Living
    <3>2. Accounted(h)' => Accounted(h)
          BY <1>3, <1>4, <1>5, <1>6, <2>2 DEF Accounted, Calling, Active, Unread, NoCallOn
    <3> QED BY <1>2, <1>8, <2>1, <3>1, <3>2 DEF CountsCover, SlotAt
  <2>3. CASE h = g /\ call'[t].fn = "dealloc" /\ phase[g] = "closed"
        BY <1>6, <2>3 DEF CountsCover, Accounted
  <2>4. CASE h = g /\ call'[t].fn = "open"
    <3>1. Living(g) = 0 /\ Counted(g) = {} /\ Pending(g) = {}
          BY <1>3, <1>5, <2>4, OpeningEmpty DEF Sound
    <3>2. Living(g)' = 0
          BY <1>6, <1>10, <1>11, <2>4, <3>1 DEF Living
    <3>3. \A p \in Slots : live_count'[SlotAt(g, p)] >= 0
          BY <1>2, SlotAtInSlots DEF Sound, SlotTypeOK
    <3> QED BY <2>4, <3>2, <3>3 DEF CountsCover, SlotAt
  <2> QED BY <1>4, <1>5, <2>2, <2>3, <2>4
<1>13. ASSUME NEW u \in Threads PROVE AnswerCovers(u)'
  <2>1. CASE u = t
        BY <1>4, <2>1 DEF AnswerCovers, Calling, Unread, FindLabels
  <2>2. CASE u # t
    <3>1. Calling(u, "close") => call[u].id \in Granules /\ phase[call[u].id] = "closing"
          BY <1>3 DEF ContractInv, PhaseInv, Calling, ClientTypeOK, Calls
    <3>2. Calling(u, "close") => held'[call[u].id] = held[call[u].id]
          BY <1>5, <1>6, <3>1
    <3> QED BY <1>4, <2>2, <3>2, UpperCountParts
            DEF CountInv, AnswerCovers, Calling, Active, Unread, NotFound
  <2> QED BY <2>1, <2>2
<1> QED BY <1>7, <1>9, <1>12, <1>13, UpperCountPartsNext DEF CountInv

\* An answer moves an allocation from the array's account to the client's.
LEMMA ReturnCovers ==
    ASSUME Sound, CountInv, IsFiniteSet(Threads), NEW t \in Threads, Return(t)
    PROVE  CountInv'
<1>0. ClientTypeOK /\ PcIsFun /\ ContractInv /\ HeldInv /\ SoundIds
      BY DEF Sound, SlotTypeOK, CountInv
<1>1. /\ pc[t] = "ret" /\ Active(t) /\ ClientReturn(t)
      /\ UNCHANGED <<occupied, granule_id, live_count>> /\ probe' = [probe EXCEPT ![t] = 0]
      BY DEF Return, slotVars, Active
<1>g. PICK g \in Granules : g = call[t].id
      BY <1>0, <1>1 DEF ClientTypeOK, Calls
<1>2. /\ pc' = [pc EXCEPT ![t] = "idle"]
      /\ \A u \in Threads \ {t} : pc'[u] = pc[u] /\ call'[u] = call[u] /\ ret'[u] = ret[u]
      /\ \A h \in Granules \ {g} : phase'[h] = phase[h] /\ held'[h] = held[h]
      BY <1>0, <1>1, <1>g, ReturnFrame
<1>3. ClientTypeOK'
      BY <1>0, <1>1, ReturnType
<1>t. /\ phase \in [Granules -> {"closed", "opening", "open", "closing"}]
      /\ held \in [Granules -> Nat] /\ pc'[t] = "idle" /\ ~Active(t)'
      /\ probe'[t] = 0 /\ \A u \in Threads \ {t} : probe'[u] = probe[u]
      /\ call[t].fn \in {"open", "close", "alloc", "dealloc"}
      BY <1>0, <1>1, <1>2 DEF Sound, SlotTypeOK, ClientTypeOK, PcIsFun, Active, Calls
\* What the client makes of the answer.
<1>4. /\ call[t].fn = "open"    => /\ phase[g] = "opening" /\ phase'[g] \in {"open", "closed"}
                                   /\ held'[g] = 0
      /\ call[t].fn = "close"   => phase'[g] = "closed" /\ held'[g] = 0
      /\ call[t].fn = "alloc"   => /\ phase[g] = "open" /\ phase'[g] = "open"
                                   /\ held'[g] = held[g] + IF ret[t] = 0 THEN 1 ELSE 0
      /\ call[t].fn = "dealloc" => phase'[g] = phase[g] /\ held'[g] = held[g]
  <2>1. CASE call[t].fn = "open"
    <3>1. phase[g] = "opening" /\ held[g] = 0
          BY <1>0, <1>1, <1>g, <2>1 DEF Calling, ContractInv, PhaseInv, HeldInv
    <3>2. phase' = [phase EXCEPT ![g] = IF ret[t] = 0 THEN "open" ELSE "closed"] /\ held' = held
          BY <1>1, <1>g, <2>1 DEF ClientReturn
    <3> QED BY <1>t, <2>1, <3>1, <3>2
  <2>2. CASE call[t].fn = "close"
        BY <1>1, <1>g, <1>t, <2>2 DEF ClientReturn
  <2>3. CASE call[t].fn = "alloc"
    <3>1. phase[g] = "open"
          BY <1>0, <1>1, <1>g, <2>3 DEF Calling, ContractInv, PhaseInv
    <3> QED BY <1>1, <1>g, <1>t, <2>3, <3>1 DEF ClientReturn
  <2>4. CASE call[t].fn = "dealloc"
        BY <1>1, <2>4 DEF ClientReturn
  <2> QED BY <1>t, <2>1, <2>2, <2>3, <2>4
<1>7. HeldInv'
      BY <1>0, <1>2, <1>4, <1>t DEF HeldInv
<1>8. \A h, p : (Passed(h, p)' <=> Passed(h, p)) /\ (FirstAt(h, p)' <=> FirstAt(h, p))
      BY <1>1 DEF Passed, FirstAt, SlotAt
<1>9. ProbeInv'
      BY <1>2, <1>8, <1>t DEF CountInv, ProbeInv, FindLabels
<1>10. \A h \in Granules :
           /\ Pending(h)' = Pending(h) /\ Cardinality(Counted(h)) \in Nat
           /\ IF call[t].fn = "alloc" /\ ret[t] = 0 /\ h = g
              THEN Cardinality(Counted(h)') = Cardinality(Counted(h)) - 1
              ELSE Cardinality(Counted(h)') = Cardinality(Counted(h))
  <2> TAKE h \in Granules
  <2>1. /\ t \notin Pending(h) /\ t \notin Pending(h)' /\ t \notin Counted(h)'
        /\ t \in Counted(h) <=> call[t].fn = "alloc" /\ ret[t] = 0 /\ h = g
        BY <1>0, <1>1, <1>3, <1>g, <1>t, Members, MembersNext
  <2>2. /\ IsFiniteSet(Counted(h)) /\ IsFiniteSet(Counted(h)')
        /\ Counted(h) \ {t} = Counted(h)' \ {t} /\ Pending(h) \ {t} = Pending(h)' \ {t}
        BY <1>2, OneMoves
  <2>3. /\ Cardinality(Counted(h)) \in Nat
        /\ t \in Counted(h) => Cardinality(Counted(h)') = Cardinality(Counted(h)) - 1
        /\ t \notin Counted(h) => Cardinality(Counted(h)') = Cardinality(Counted(h))
        BY <2>1, <2>2, MovedOne
  <2>4. Pending(h)' = Pending(h)
        BY <2>1, <2>2
  <2> QED BY <2>1, <2>3, <2>4
<1>12. ASSUME NEW h \in Granules PROVE CountsCover(h)'
  <2>1. CountsCover(h) /\ Living(h) \in Nat
        BY <1>0, UpperCountParts, LivingHolds DEF CountInv
  <2>2. CASE h # g \/ call[t].fn \in {"alloc", "dealloc"}
    <3>1. Living(h)' = Living(h)
      <4>1. Cardinality(Pending(h)) \in Nat
        <5>1. IsFiniteSet(Pending(h))
              BY <1>2, OneMoves
        <5> QED BY <5>1, FS_CardinalityType
      <4> QED BY <1>2, <1>4, <1>10, <1>t, <2>2, <4>1 DEF Living
    <3>2. Accounted(h)' => Accounted(h)
          BY <1>2, <1>4, <1>g, <1>t, <2>2 DEF Accounted, Calling, Active, Unread
    <3> QED BY <1>1, <1>8, <2>1, <3>1, <3>2 DEF CountsCover, SlotAt
  <2>3. CASE h = g /\ call[t].fn = "close"
        BY <1>4, <2>3 DEF CountsCover, Accounted
  <2>4. CASE h = g /\ call[t].fn = "open"
    <3>1. Counted(g) = {} /\ Pending(g) = {}
          BY <1>0, <1>4, <2>4, OpeningEmpty
    <3>2. Living(g)' = 0
      <4>1. Cardinality(Counted(g)') = Cardinality(Counted(g))
            BY <1>10, <2>4
      <4>3. Cardinality(Counted(g)') = 0
            BY <3>1, <4>1, FS_EmptySet
      <4>2. Cardinality(Pending(g)') = 0
            BY <1>10, <3>1, FS_EmptySet
      <4> QED BY <1>4, <2>4, <4>2, <4>3 DEF Living
    <3>3. \A p \in Slots : live_count'[SlotAt(g, p)] >= 0
          BY <1>1, SlotAtInSlots DEF Sound, SlotTypeOK
    <3> QED BY <2>4, <3>2, <3>3 DEF CountsCover, SlotAt
  <2> QED BY <1>t, <2>2, <2>3, <2>4
<1>13. ASSUME NEW u \in Threads PROVE AnswerCovers(u)'
  <2>1. CASE u = t
        BY <1>t, <2>1 DEF AnswerCovers, Calling
  <2>2. CASE u # t
    <3>1. Calling(u, "close") => call[u].id \in Granules \ {g}
          BY <1>0, <1>1, <1>g, <2>2, OpenCloseAlone DEF Calling, ClientTypeOK, Calls
    <3> QED BY <1>2, <2>2, <3>1, UpperCountParts
            DEF CountInv, AnswerCovers, Calling, Active, Unread, NotFound
  <2> QED BY <2>1, <2>2
<1> QED BY <1>7, <1>9, <1>12, <1>13, UpperCountPartsNext DEF CountInv

LEMMA CountInit == ASSUME Init, SoundIds PROVE CountInv
<1> USE DEF Init, SlotInit, ClientInit
<1>1. HeldInv /\ ProbeInv
      BY DEF HeldInv, ProbeInv, FindLabels
<1>2. UpperCountInv
      BY DEF UpperCountInv, Accounted, Calling, Active
<1> QED BY <1>1, <1>2 DEF CountInv

\* Every step keeps it that does not take a count over its maximum.
LEMMA CountNext ==
    ASSUME SoundIds, IsFiniteSet(Threads)
    PROVE  SlotInv /\ CountInv /\ NoOverflow /\ [Next]_vars => CountInv'
<1> SUFFICES ASSUME SlotInv, CountInv, NoOverflow, [Next]_vars PROVE CountInv'
    OBVIOUS
<1>1. Sound
      BY DEF Sound, SlotInv, TypeOK, PcIsFun
<1>2. CASE UNCHANGED vars
      BY <1>2 DEF CountInv, HeldInv, ProbeInv, UpperCountInv, Passed, FirstAt, Accounted, SlotAt,
                  Living, Counted, Pending, Calling, Active, Unread,
                  vars, slotVars, clientVars, bookVars
<1>3. ASSUME NEW t \in Threads, Call(t) PROVE CountInv'
      BY <1>1, <1>3, CallCovers
<1>4. ASSUME NEW t \in Threads, SlotStep(t) PROVE CountInv'
  <2>1. UNCHANGED bookVars
        BY <1>1, <1>4, SlotStepFrame DEF Sound
  <2>2. HeldInv'
        BY <2>1 DEF bookVars, CountInv, HeldInv
  <2>3. ProbeInv'
        BY <1>1, <1>4, SlotStepProbe DEF CountInv
  <2>4. UpperCountInv'
        BY <1>1, <1>4, SlotStepCovers
  <2> QED BY <2>2, <2>3, <2>4 DEF CountInv
<1>5. ASSUME NEW t \in Threads, Return(t) PROVE CountInv'
      BY <1>1, <1>5, ReturnCovers
<1> QED BY <1>2, <1>3, <1>4, <1>5 DEF Next, Step

\* For every hash function, colliding or not, and every number of threads: what the
\* errors of colliding ids leave behind makes a count too high, never too low.
THEOREM CountsCovered ==
    ASSUME SoundIds, IsFiniteSet(Threads) PROVE Spec /\ []NoOverflow => []CountInv
<1>1. Init => CountInv
      BY CountInit
<1> QED BY <1>1, CountNext, SlotsInvariant, PTL DEF Spec

\* So no close reports a granule drainable that has an allocation alive.
THEOREM NeverFalselyDrainable ==
    ASSUME SoundIds, IsFiniteSet(Threads) PROVE Spec /\ []NoOverflow => []NoFalseDrainable
<1>1. SlotInv /\ CountInv => NoFalseDrainable
  <2> SUFFICES ASSUME SlotInv, CountInv, NEW t \in Threads, Closing(t), ret[t] = 0
               PROVE  held[call[t].id] = 0
      BY DEF NoFalseDrainable
  <2>1. Active(t) /\ Calling(t, "close") /\ ~Unread(t) /\ ret[t] # NotFound
        BY DEF Closing, Calling, Active, Unread, FindLabels
  <2>2. ret[t] >= held[call[t].id]
        BY <2>1 DEF CountInv, UpperCountInv
  <2>3. held[call[t].id] \in Nat
        BY <2>1, CurInSlots DEF SlotInv, TypeOK, SlotTypeOK, ClientTypeOK
  <2> QED BY <2>2, <2>3
<1> QED BY <1>1, CountsCovered, SlotsInvariant, PTL
=============================================================================
