------------------------------ MODULE SlotArray ------------------------------
(***************************************************************************)
(* The production-mode storage of the profiler: an open-addressing array   *)
(* of granule slots (src/slot_array.c) shared by the allocator's threads   *)
(* without locks.  Every atomic load, store, compare-and-swap and          *)
(* fetch-and-add of the C code is one action here, in program order, so    *)
(* TLC explores every sequentially consistent interleaving (the code uses  *)
(* only seq_cst atomics).                                                  *)
(*                                                                         *)
(* Module Client says which calls the allocator's threads make.            *)
(***************************************************************************)
EXTENDS Client

CONSTANTS
    Hash,       \* hash_granule_id, as a function of the id
    CountMod    \* 2^32 in the code: live_count is a uint32_t

Slots    == 0 .. Capacity - 1
NotFound == CountMod - 1 \* UINT32_MAX, the error value of a close

ASSUME SlotArrayAssumption ==
    /\ Hash \in [Granules -> Nat]
    /\ CountMod \in Nat \ {0, 1}

VARIABLES
    occupied,    \* drainprof_granule_slot.occupied, per slot
    granule_id,  \* drainprof_granule_slot.granule_id, per slot
    live_count,  \* drainprof_granule_slot.live_count, per slot
    probe        \* the loop variable of each thread's linear probe

slotVars == <<occupied, granule_id, live_count>>
vars     == <<slotVars, probe, clientVars>>

SlotInit ==
    /\ occupied   = [s \in Slots |-> 0]
    /\ granule_id = [s \in Slots |-> NoId]
    /\ live_count = [s \in Slots |-> 0]
    /\ probe      = [t \in Threads |-> 0]

Init == SlotInit /\ ClientInit

\* The slot the probe of thread t is at: (hash % capacity + probe) % capacity.
SlotAt(g, p) == (Hash[g] + p) % Capacity
Cur(t) == SlotAt(call[t].id, probe[t])

-----------------------------------------------------------------------------
(* The probe loop: move to the next slot, or give up after Capacity slots. *)

\* Mutant: the bound of the loop is off by one.
NextProbeOver(t, l, exhausted) ==
    IF probe[t] < Capacity
    THEN probe' = [probe EXCEPT ![t] = @ + 1] /\ Goto(t, l) /\ UNCHANGED ret
    ELSE Answer(t, exhausted) /\ UNCHANGED probe

\* Mutant: the loop wraps around instead of giving up.
NextProbeForever(t, l, exhausted) ==
    /\ probe' = [probe EXCEPT ![t] = (@ + 1) % Capacity]
    /\ Goto(t, l)
    /\ UNCHANGED ret

NextProbe(t, l, exhausted) ==
    IF probe[t] + 1 < Capacity
    THEN /\ probe' = [probe EXCEPT ![t] = @ + 1]
         /\ Goto(t, l)
         /\ UNCHANGED ret
    ELSE /\ Answer(t, exhausted)
         /\ UNCHANGED probe

(* find_slot, called by close, alloc and dealloc: stop at the first free   *)
(* slot, or at the slot that stores the id.                                *)

Error(fn) == IF fn = "close" THEN NotFound ELSE -1

AfterFind(fn) == CASE fn = "close"   -> "close_load"
                   [] fn = "alloc"   -> "fetch_add"
                   [] fn = "dealloc" -> "fetch_sub"

FindLoadOccupied(t) ==
    /\ pc[t] = "find_occupied"
    /\ IF occupied[Cur(t)] = 0
       THEN Answer(t, Error(call[t].fn))
       ELSE Goto(t, "find_id") /\ UNCHANGED ret
    /\ UNCHANGED <<slotVars, call, probe, bookVars>>

\* Mutant: an occupied slot on the probe path is taken for the granule's.
FindLoadIdAny(t) ==
    /\ pc[t] = "find_id"
    /\ Goto(t, AfterFind(call[t].fn))
    /\ UNCHANGED <<slotVars, call, probe, ret, bookVars>>

FindLoadId(t) ==
    /\ pc[t] = "find_id"
    /\ IF granule_id[Cur(t)] = call[t].id
       THEN Goto(t, AfterFind(call[t].fn)) /\ UNCHANGED <<probe, ret>>
       ELSE NextProbe(t, "find_occupied", Error(call[t].fn))
    /\ UNCHANGED <<slotVars, call, bookVars>>

-----------------------------------------------------------------------------
(* drainprof_slot_array_open                                               *)

OpenLoadOccupied(t) ==
    /\ pc[t] = "open_occupied"
    /\ Goto(t, IF occupied[Cur(t)] = 0 THEN "open_cas" ELSE "open_id")
    /\ UNCHANGED <<slotVars, call, probe, ret, bookVars>>

\* The slot was occupied: by this granule (idempotent success) or another.
OpenLoadId(t) ==
    /\ pc[t] = "open_id"
    /\ IF granule_id[Cur(t)] = call[t].id
       THEN Answer(t, 0) /\ UNCHANGED probe
       ELSE NextProbe(t, "open_occupied", -1)
    /\ UNCHANGED <<slotVars, call, bookVars>>

\* Mutant: a plain store instead of the compare-and-swap.
OpenClaimBlind(t) ==
    /\ pc[t] = "open_cas"
    /\ occupied' = [occupied EXCEPT ![Cur(t)] = 1]
    /\ Goto(t, "open_set_id")
    /\ UNCHANGED <<granule_id, live_count, call, probe, ret, bookVars>>

\* Claim a slot that was seen free; losing the race moves to the next slot.
OpenClaim(t) ==
    /\ pc[t] = "open_cas"
    /\ IF occupied[Cur(t)] = 0
       THEN /\ occupied' = [occupied EXCEPT ![Cur(t)] = 1]
            /\ Goto(t, "open_set_id")
            /\ UNCHANGED <<probe, ret>>
       ELSE /\ NextProbe(t, "open_occupied", -1)
            /\ UNCHANGED occupied
    /\ UNCHANGED <<granule_id, live_count, call, bookVars>>

\* Mutant: the id is not stored.
OpenStoreIdMissing(t) ==
    /\ pc[t] = "open_set_id"
    /\ Goto(t, "open_set_live")
    /\ UNCHANGED <<slotVars, call, probe, ret, bookVars>>

OpenStoreId(t) ==
    /\ pc[t] = "open_set_id"
    /\ granule_id' = [granule_id EXCEPT ![Cur(t)] = call[t].id]
    /\ Goto(t, "open_set_live")
    /\ UNCHANGED <<occupied, live_count, call, probe, ret, bookVars>>

OpenStoreLive(t) ==
    /\ pc[t] = "open_set_live"
    /\ live_count' = [live_count EXCEPT ![Cur(t)] = 0]
    /\ Answer(t, 0)
    /\ UNCHANGED <<occupied, granule_id, call, probe, bookVars>>

-----------------------------------------------------------------------------
(* drainprof_slot_array_close, after find_slot: the live count read here   *)
(* is the answer; then live_count, granule_id and occupied are cleared.    *)

\* Mutant: the count is read after it was cleared.
CloseLoadLiveCleared(t) ==
    /\ pc[t] = "close_load"
    /\ ret' = [ret EXCEPT ![t] = 0]
    /\ Goto(t, "close_clear_live")
    /\ UNCHANGED <<slotVars, call, probe, bookVars>>

\* Mutant: the slot is released first and cleared afterwards.
CloseLoadLiveReleased(t) ==
    /\ pc[t] = "close_load"
    /\ ret' = [ret EXCEPT ![t] = live_count[Cur(t)]]
    /\ occupied' = [occupied EXCEPT ![Cur(t)] = 0]
    /\ Goto(t, "close_clear_live")
    /\ UNCHANGED <<granule_id, live_count, call, probe, bookVars>>

CloseLoadLive(t) ==
    /\ pc[t] = "close_load"
    /\ ret' = [ret EXCEPT ![t] = live_count[Cur(t)]]
    /\ Goto(t, "close_clear_live")
    /\ UNCHANGED <<slotVars, call, probe, bookVars>>

CloseClearLive(t) ==
    /\ pc[t] = "close_clear_live"
    /\ live_count' = [live_count EXCEPT ![Cur(t)] = 0]
    /\ Goto(t, "close_clear_id")
    /\ UNCHANGED <<occupied, granule_id, call, probe, ret, bookVars>>

\* Mutant: the id stays in the released slot.
CloseClearIdMissing(t) ==
    /\ pc[t] = "close_clear_id"
    /\ Goto(t, "close_release")
    /\ UNCHANGED <<slotVars, call, probe, ret, bookVars>>

CloseClearId(t) ==
    /\ pc[t] = "close_clear_id"
    /\ granule_id' = [granule_id EXCEPT ![Cur(t)] = NoId]
    /\ Goto(t, "close_release")
    /\ UNCHANGED <<occupied, live_count, call, probe, ret, bookVars>>

\* Mutant: the slot is not released.
CloseReleaseMissing(t) ==
    /\ pc[t] = "close_release"
    /\ Goto(t, "ret")
    /\ UNCHANGED <<slotVars, call, probe, ret, bookVars>>

CloseRelease(t) ==
    /\ pc[t] = "close_release"
    /\ occupied' = [occupied EXCEPT ![Cur(t)] = 0]
    /\ Goto(t, "ret")
    /\ UNCHANGED <<granule_id, live_count, call, probe, ret, bookVars>>

-----------------------------------------------------------------------------
(* The hot path, after find_slot: one fetch-and-add on live_count.         *)

AllocFetchAdd(t) ==
    /\ pc[t] = "fetch_add"
    /\ live_count' = [live_count EXCEPT ![Cur(t)] = (@ + 1) % CountMod]
    /\ Answer(t, 0)
    /\ UNCHANGED <<occupied, granule_id, call, probe, bookVars>>

\* Mutant: the deregister is not counted.
DeallocFetchSubMissing(t) ==
    /\ pc[t] = "fetch_sub"
    /\ Answer(t, 0)
    /\ UNCHANGED <<slotVars, call, probe, bookVars>>

DeallocFetchSub(t) ==
    /\ pc[t] = "fetch_sub"
    /\ live_count' = [live_count EXCEPT ![Cur(t)] = (@ - 1) % CountMod]
    /\ Answer(t, 0)
    /\ UNCHANGED <<occupied, granule_id, call, probe, bookVars>>

-----------------------------------------------------------------------------
(* The calls and their answers.                                            *)

Return(t) ==
    /\ pc[t] = "ret"
    /\ ClientReturn(t)
    /\ probe' = [probe EXCEPT ![t] = 0]
    /\ UNCHANGED slotVars

Call(t) ==
    /\ \E g \in Granules :
           \/ CallOpen(t, g, "open_occupied")
           \/ CallClose(t, g, "find_occupied")
           \/ CallAlloc(t, g, "find_occupied")
           \/ CallDealloc(t, g, "find_occupied")
           \/ CallLateDealloc(t, g, "find_occupied")
    /\ UNCHANGED <<slotVars, probe>>

\* One atomic operation of the array's code, in thread t.
SlotStep(t) ==
    \/ FindLoadOccupied(t)
    \/ FindLoadId(t)
    \/ OpenLoadOccupied(t)
    \/ OpenLoadId(t)
    \/ OpenClaim(t)
    \/ OpenStoreId(t)
    \/ OpenStoreLive(t)
    \/ CloseLoadLive(t)
    \/ CloseClearLive(t)
    \/ CloseClearId(t)
    \/ CloseRelease(t)
    \/ AllocFetchAdd(t)
    \/ DeallocFetchSub(t)

Step(t) == SlotStep(t) \/ Return(t)

Next == \E t \in Threads : Call(t) \/ Step(t)

Spec == Init /\ [][Next]_vars

\* A thread that is inside a call is eventually scheduled; nobody has to call.
FairSpec == Spec /\ \A t \in Threads : WF_vars(Step(t))

-----------------------------------------------------------------------------
(* Properties                                                              *)

Labels == {"idle", "ret", "find_occupied", "find_id",
           "open_occupied", "open_id", "open_cas", "open_set_id", "open_set_live",
           "close_load", "close_clear_live", "close_clear_id", "close_release",
           "fetch_add", "fetch_sub"}

SlotTypeOK ==
    /\ ClientTypeOK
    /\ occupied \in [Slots -> {0, 1}]
    /\ granule_id \in [Slots -> Granules \cup {NoId}]
    /\ live_count \in [Slots -> 0 .. CountMod - 1]
    /\ probe \in [Threads -> Slots]

\* The type of every variable; a probe never leaves the array.
TypeOK == SlotTypeOK /\ pc \in [Threads -> Labels]

\* The threads that are initialising or clearing slot s, and those about to
\* count an allocation in it.
Owning(t) ==
    pc[t] \in {"open_set_id", "open_set_live", "close_load",
               "close_clear_live", "close_clear_id", "close_release"}
Owners(s)   == {t \in Threads : Owning(t) /\ Cur(t) = s}
Counting(s) == {t \in Threads : pc[t] \in {"fetch_add", "fetch_sub"} /\ Cur(t) = s}

\* A slot that is being initialised or cleared is touched by one thread only:
\* the lost update the comment of drainprof_slot_array_close describes, and two
\* granules initialising the same slot, cannot happen under the contract.
ExclusiveSlot ==
    \A s \in Slots : \A t \in Owners(s) :
        Owners(s) = {t} /\ Counting(s) = {}

\* What find_slot found stays true until it is used: the slot a thread is about
\* to count in, read or clear still holds the granule of its call, although
\* nothing locks the slot between the probe and the update.
RightSlot ==
    \A t \in Threads :
        pc[t] \in {"fetch_add", "fetch_sub", "close_load",
                   "close_clear_live", "close_clear_id"}
        => /\ occupied[Cur(t)] = 1
           /\ granule_id[Cur(t)] = call[t].id

\* The answer a close is about to give for a granule it found.
Closing(t) == pc[t] = "ret" /\ call[t].fn = "close" /\ ret[t] # NotFound

\* A granule is reported drainable only if none of the allocations registered
\* in it is alive: an error may hide a drainable granule, never a pinned one.
NoFalseDrainable ==
    \A t \in Threads : Closing(t) /\ ret[t] = 0 => held[call[t].id] = 0

\* The live count a close returns is the number of allocations registered in
\* this opening of the granule and not deregistered.
VerdictExact ==
    \A t \in Threads : Closing(t) => ret[t] = held[call[t].id]

\* A granule that is open is found by every call for it: find_slot does not miss
\* it, whatever the other granules do.
FindsOpenGranule ==
    \A t \in Threads :
        /\ pc[t] = "ret"
        /\ call[t].fn \in {"alloc", "dealloc", "close"}
        /\ phase[call[t].id] # "closed"
        => ret[t] # Error(call[t].fn)

\* With no more granules in use than slots, an open finds a slot.
OpenNeverFull ==
    \A t \in Threads : pc[t] = "ret" /\ call[t].fn = "open" => ret[t] = 0

\* Every call returns: the probes are bounded and nothing waits.
CallsReturn == \A t \in Threads : Active(t) ~> ~Active(t)

-----------------------------------------------------------------------------
(* The inductive invariant behind ExclusiveSlot and RightSlot, for every   *)
(* hash function and every number of threads, if no client uses the id 0   *)
(* and none frees an allocation late in a granule whose id it reuses.      *)

SoundIds == NoId \notin Granules /\ ~Careless

\* Each operation belongs to its function.
LabelInv ==
    \A t \in Threads :
        /\ pc[t] \in {"open_occupied", "open_id", "open_cas", "open_set_id", "open_set_live"}
              => call[t].fn = "open"
        /\ pc[t] \in {"close_load", "close_clear_live", "close_clear_id", "close_release"}
              => call[t].fn = "close"
        /\ pc[t] = "fetch_add" => call[t].fn = "alloc"
        /\ pc[t] = "fetch_sub" => call[t].fn = "dealloc"
        /\ pc[t] \in {"find_occupied", "find_id"}
              => call[t].fn \in {"close", "alloc", "dealloc"}

\* A free slot stores no id, a slot being initialised or released stores none
\* although it is occupied, and a slot has at most one owner.
OwnerInv ==
    /\ \A s \in Slots : occupied[s] = 0 => granule_id[s] = NoId
    /\ \A t \in Threads :
          /\ pc[t] \in {"open_set_id", "close_release"}
                => occupied[Cur(t)] = 1 /\ granule_id[Cur(t)] = NoId
          /\ pc[t] = "open_set_live"
                => occupied[Cur(t)] = 1 /\ granule_id[Cur(t)] = call[t].id
    /\ \A t, u \in Threads :
          Owning(t) /\ Owning(u) /\ Cur(t) = Cur(u) => t = u

SlotInv == TypeOK /\ ContractInv /\ LabelInv /\ OwnerInv /\ RightSlot

-----------------------------------------------------------------------------
(* The allocations of a granule that its slot has to count: those the      *)
(* client holds, those registered in the array by a call that has not      *)
(* returned yet, and those the client has given up but no call has         *)
(* deregistered in the array yet.                                          *)

Counted(g) == {t \in Threads : pc[t] = "ret" /\ ret[t] = 0 /\ call[t] = [fn |-> "alloc", id |-> g]}
Pending(g) == {t \in Threads : Active(t) /\ pc[t] # "ret" /\ call[t] = [fn |-> "dealloc", id |-> g]}
Living(g)  == held[g] + Cardinality(Counted(g)) + Cardinality(Pending(g))

FindLabels == {"find_occupied", "find_id"}
OpenLabels == {"open_occupied", "open_id", "open_cas", "open_set_id", "open_set_live"}

\* A closed granule has no allocations that count, and none is opened without.
HeldInv == \A g \in Granules : phase[g] \in {"closed", "opening"} => held[g] = 0

\* The first p probes of a granule's id meet none of its slots; the next one does.
Passed(g, p)  == \A q \in 0 .. p - 1 : granule_id[SlotAt(g, q)] # g
FirstAt(g, p) == granule_id[SlotAt(g, p)] = g /\ Passed(g, p)

\* What find_slot has passed stays passed, and what it has found is the first.
ProbeInv ==
    \A t \in Threads :
        /\ pc[t] = "idle" => probe[t] = 0
        /\ pc[t] \in FindLabels \cup {"fetch_add", "fetch_sub", "close_load"}
              => Passed(call[t].id, probe[t])

\* A close of the granule has not yet taken the live count out of its slot.
Unread(t)    == pc[t] \in FindLabels \cup {"close_load"}
Accounted(g) ==
    /\ phase[g] # "closed"
    /\ \A t \in Threads : Calling(t, "close") /\ call[t].id = g => Unread(t)

\* Wherever the probes find a granule, they find at least its living
\* allocations: what an error leaves behind is too much, never too little.
UpperCountInv ==
    /\ \A g \in Granules : \A p \in Slots :
          Accounted(g) /\ FirstAt(g, p) => live_count[SlotAt(g, p)] >= Living(g)
    /\ \A t \in Threads :
          Calling(t, "close") /\ ~Unread(t) /\ ret[t] # NotFound
          => ret[t] >= held[call[t].id]

\* The invariant behind NoFalseDrainable.
CountInv == HeldInv /\ ProbeInv /\ UpperCountInv

\* No register finds a slot whose count is at its maximum.
NoOverflow ==
    \A t \in Threads : pc[t] = "fetch_add" => live_count[Cur(t)] + 1 < CountMod

-----------------------------------------------------------------------------
(* When ids do not collide every granule lives in the slot it hashes to,   *)
(* and is counted exactly.                                                 *)

Home(g)    == SlotAt(g, 0)
Vacant(g)  == occupied[Home(g)] = 0
Present(g) == occupied[Home(g)] = 1 /\ granule_id[Home(g)] = g

HomesDistinct == \A g, h \in Granules : Home(g) = Home(h) => g = h

\* The live count is wide enough for the allocations of one granule and one call
\* of every thread.
WideCounts == IsFiniteSet(Threads) /\ MaxLive + Cardinality(Threads) < CountMod

\* Where thread t finds the slot of its granule.
AtHome(t) ==
    /\ probe[t] = 0
    /\ pc[t] # "open_id"
    /\ Calling(t, "open") =>
          /\ pc[t] \in {"open_occupied", "open_cas"} => Vacant(call[t].id)
          /\ pc[t] \notin OpenLabels => Present(call[t].id) /\ ret[t] = 0
    /\ Calling(t, "close") =>
          /\ Unread(t) => Present(call[t].id)
          /\ pc[t] \notin FindLabels /\ ~Owning(t) => Vacant(call[t].id)
    /\ Calling(t, "alloc") /\ pc[t] = "ret" => ret[t] = 0
    /\ Calling(t, "dealloc") =>
          /\ pc[t] \in {"find_id", "fetch_sub"} => phase[call[t].id] = "open"
          /\ pc[t] = "ret" => ret[t] = IF phase[call[t].id] = "open" THEN 0 ELSE -1

HomeInv ==
    /\ \A g \in Granules :
          /\ phase[g] = "open"   => Present(g)
          /\ phase[g] = "closed" => Vacant(g)
          /\ \A s \in Slots : granule_id[s] = g => s = Home(g)
    /\ \A t \in Threads : AtHome(t)

\* The count of every slot, and the answer of every close.
ExactInv ==
    /\ \A g \in Granules :
          /\ phase[g] = "open" => live_count[Home(g)] = Living(g)
          /\ held[g] + Cardinality(Registering(g)) <= MaxLive
    /\ \A t \in Threads :
          /\ Calling(t, "open") /\ pc[t] \notin OpenLabels => live_count[Home(call[t].id)] = 0
          /\ Calling(t, "close") =>
                held[call[t].id] = IF Unread(t) THEN live_count[Home(call[t].id)] ELSE ret[t]

DistinctInv == HeldInv /\ HomeInv /\ ExactInv

-----------------------------------------------------------------------------
(* The array implements the ledger.  A granule is open in the ledger from  *)
(* the store of live_count that ends its open until the load of live_count *)
(* that decides its close.                                                 *)

Holds(s, g) ==
    /\ occupied[s] = 1
    /\ granule_id[s] = g
    /\ \A t \in Threads :
          pc[t] \in {"open_set_live", "close_clear_live", "close_clear_id"} => Cur(t) # s

LedgerEntry(g) ==
    LET at == {s \in Slots : Holds(s, g)}
    IN  IF at = {} THEN [open |-> FALSE, live |-> 0]
        ELSE [open |-> TRUE, live |-> live_count[CHOOSE s \in at : TRUE]]

LedgerPc(t) ==
    CASE pc[t] = "idle" -> "idle"
      [] pc[t] \in {"ret", "close_clear_live", "close_clear_id", "close_release"} -> "ret"
      [] OTHER -> "pending"

Ledger == INSTANCE GranuleLedger WITH
            ledger <- [g \in Granules |-> LedgerEntry(g)],
            pc     <- [t \in Threads |-> LedgerPc(t)],
            Refuses <- FALSE

\* When ids do not collide, every interleaving of the array's operations looks
\* to the client as if each call acted at once; and no call is starved.
ImplementsLedger == Ledger!FairSpec
=============================================================================
