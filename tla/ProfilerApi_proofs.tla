--------------------------- MODULE ProfilerApi_proofs ---------------------------
(***************************************************************************)
(* What the functions of the public API keep, over any storage: the type   *)
(* of their variables, the peak, the verdict counters and the snapshots.   *)
(* A storage has a say in none of this: its operations move a thread from  *)
(* one of its own labels to another, or to "ret".                          *)
(***************************************************************************)
EXTENDS ProfilerApi, Client_proofs

\* An operation of a storage, as far as the API can see it.
StorageMove(t) ==
    /\ Active(t) /\ pc[t] \notin ApiLabels /\ pc'[t] \notin ApiLabels \cup {"idle"}
    /\ \A u \in Threads \ {t} : pc'[u] = pc[u] /\ ret'[u] = ret[u]
    /\ UNCHANGED <<call, bookVars>>
    /\ StorageOnly

Typed == ClientTypeOK /\ PcIsFun /\ ApiTypeOK

LEMMA CounterRange == \A i \in Int : i % CounterMod \in 0 .. CounterMod - 1
  BY CountersAssumption

\* A counter counts up to the largest it can hold, and down to 0.
LEMMA CountsOne ==
    ASSUME NEW n \in 0 .. CounterMod - 1
    PROVE  /\ n + 1 < CounterMod => (n + 1) % CounterMod = n + 1
           /\ n > 0 => (n + (-1)) % CounterMod = n - 1
  BY CountersAssumption

LEMMA ToldCounts ==
    ASSUME told \in [drainable : Nat, pinned : Nat], NEW t
    PROVE  /\ [told EXCEPT ![ClosedAs(t)] = @ + 1] \in [drainable : Nat, pinned : Nat]
           /\ Drainable(t) => [told EXCEPT ![ClosedAs(t)] = @ + 1].drainable = told.drainable + 1
           /\ Drainable(t) => [told EXCEPT ![ClosedAs(t)] = @ + 1].pinned = told.pinned
           /\ ~Drainable(t) => [told EXCEPT ![ClosedAs(t)] = @ + 1].drainable = told.drainable
           /\ ~Drainable(t) => [told EXCEPT ![ClosedAs(t)] = @ + 1].pinned = told.pinned + 1
  BY DEF ClosedAs

-----------------------------------------------------------------------------
(* What each action leaves alone                                           *)

\* A call starts one idle thread, at an operation of the storage or one that counts.
LEMMA ApiCallFrame ==
    ASSUME Typed, NEW t \in Threads, NEW g \in Granules, NEW o, NEW c,
           {o, c} \cap (ApiLabels \cup {"idle", "ret"}) = {}, ApiCall(t, g, o, c)
    PROVE  /\ ClientTypeOK' /\ PcIsFun'
           /\ pc[t] = "idle" /\ call'[t] \in Calls /\ call'[t].id = g
           /\ pc'[t] \in {o, c, "count_alloc", "count_dealloc"}
           /\ call'[t].fn = "open"  => pc'[t] = o
           /\ call'[t].fn = "close" => pc'[t] = c
           /\ pc'[t] = "count_alloc"   => call'[t].fn = "alloc"
           /\ pc'[t] = "count_dealloc" => call'[t].fn = "dealloc"
           /\ \A u \in Threads \ {t} : pc'[u] = pc[u] /\ call'[u] = call[u]
           /\ \E f \in {c, "count_alloc", "count_dealloc"} : ClientCall(t, g, o, f)
           /\ ~Resetting /\ ~Resetting'
           /\ UNCHANGED <<ret, counters, peakVars, queryVars, told, maxOpen>>
  <1> USE DEF Typed
  <1>1. PICK f \in {c, "count_alloc", "count_dealloc"} :
           /\ ClientCall(t, g, o, f)
           /\ call'[t].fn = "close" => f = c
           /\ f = "count_alloc"   => call'[t].fn # "dealloc"
           /\ f = "count_dealloc" => call'[t].fn # "alloc"
           /\ call'[t].fn \in {"alloc", "dealloc"} => f # c
    <2> USE DEF ClientCall, ApiCall, Enter, ClientTypeOK
    <2>0. c # "count_alloc" /\ c # "count_dealloc"
      BY DEF ApiLabels
    <2>1. CASE CallOpen(t, g, o)
      BY <2>1 DEF CallOpen
    <2>2. CASE CallClose(t, g, c)
      BY <2>2 DEF CallClose
    <2>3. CASE CallAlloc(t, g, "count_alloc")
      BY <2>0, <2>3 DEF CallAlloc
    <2>4. CASE CallDealloc(t, g, "count_dealloc")
      BY <2>0, <2>4 DEF CallDealloc
    <2>5. CASE CallLateDealloc(t, g, "count_dealloc")
      BY <2>0, <2>5 DEF CallLateDealloc
    <2> QED
      BY <2>1, <2>2, <2>3, <2>4, <2>5
  <1>2. o # "idle" /\ f # "idle" /\ f \notin {"ret"}
    BY DEF ApiLabels
  <1>3. /\ pc[t] = "idle"
        /\ pc' = [pc EXCEPT ![t] = IF call'[t].fn = "open" THEN o ELSE f]
        /\ call'[t].id = g /\ call'[t] \in Calls /\ UNCHANGED ret
        /\ \A u \in Threads \ {t} : pc'[u] = pc[u] /\ call'[u] = call[u]
    BY <1>1, <1>2, CallFrame
  <1>4. ClientTypeOK' /\ PcIsFun'
    BY <1>1, <1>2, <1>3, CallType DEF PcIsFun
  <1>5. pc'[t] = IF call'[t].fn = "open" THEN o ELSE f
    BY <1>3 DEF PcIsFun
  <1>6. call'[t].fn \in {"open", "close", "alloc", "dealloc"}
    BY <1>3 DEF Calls
  <1>7. ~Resetting /\ ~Resetting' /\ UNCHANGED <<counters, peakVars, queryVars, told, maxOpen>>
    BY DEF ApiCall, Resetting, queryVars
  <1>8. {o, c} \cap {"count_alloc", "count_dealloc"} = {}
    BY DEF ApiLabels
  <1> QED
    BY <1>1, <1>3, <1>4, <1>5, <1>6, <1>7, <1>8

\* The operations between a call and its answer that count.
Count(t) ==
    CountCall(t) \/ CountOpen(t) \/ PeakLoad(t) \/ PeakSwap(t)
    \/ CountClose(t) \/ CountTotal(t) \/ CountVerdict(t)

LEMMA StepKinds == \A t : ApiStep(t) <=> Count(t) \/ ApiReturn(t)
  BY DEF ApiStep, Count

\* Where the operations that count lead.
LEMMA CountFrame ==
    ASSUME Typed, CountingInv, NEW t \in Threads, Count(t)
    PROVE  /\ ClientTypeOK' /\ PcIsFun' /\ CountingInv'
           /\ Active(t) /\ pc'[t] \in {"find_occupied", "peak_load", "peak_cas", "done"} \cup Totalling
           /\ \A u \in Threads \ {t} : pc'[u] = pc[u]
           /\ UNCHANGED <<call, ret, bookVars, queryVars, told, moved, overlap>>
           /\ pc[t] \in {"count_alloc", "count_dealloc", "ret"} \cup Raising \cup Totalling
           /\ pc[t] \in {"count_alloc", "count_dealloc"} <=> pc'[t] = "find_occupied"
           /\ pc[t] = "ret" => call[t].fn \in {"open", "close"} /\ pc'[t] \in {"peak_load", "count_total"}
  <1> USE DEF Typed, PcIsFun, CountingInv, Goto, Raising, Totalling, Active, PeakTest,
              historyVars, peakVars, StorageOnly
  <1>0. /\ UNCHANGED <<call, ret, bookVars, queryVars, told, moved, overlap>>
        /\ \E l \in {"find_occupied", "peak_load", "peak_cas", "done", "count_total", "count_verdict"} :
              pc' = [pc EXCEPT ![t] = l]
        /\ pc[t] # "idle"
    <2>1. CASE CountCall(t)     BY <2>1 DEF CountCall
    <2>2. CASE CountOpen(t)     BY <2>2 DEF CountOpen
    <2>3. CASE PeakLoad(t)      BY <2>3 DEF PeakLoad
    <2>4. CASE PeakSwap(t)      BY <2>4 DEF PeakSwap
    <2>5. CASE CountClose(t)    BY <2>5 DEF CountClose, Closed
    <2>6. CASE CountTotal(t)    BY <2>6 DEF CountTotal
    <2>7. CASE CountVerdict(t)  BY <2>7 DEF CountVerdict
    <2> QED
      BY <2>1, <2>2, <2>3, <2>4, <2>5, <2>6, <2>7 DEF Count
  <1>1. ClientTypeOK' /\ PcIsFun' /\ \A u \in Threads \ {t} : pc'[u] = pc[u]
    BY <1>0 DEF ClientTypeOK, bookVars
  <1>2. CASE CountCall(t)
    BY <1>0, <1>1, <1>2 DEF CountCall
  <1>3. CASE CountOpen(t)
    BY <1>0, <1>1, <1>3 DEF CountOpen
  <1>4. CASE PeakLoad(t)
    BY <1>0, <1>1, <1>4 DEF PeakLoad
  <1>5. CASE PeakSwap(t)
    BY <1>0, <1>1, <1>5 DEF PeakSwap
  <1>6. CASE CountClose(t)
    BY <1>0, <1>1, <1>6 DEF CountClose, Closed
  <1>7. CASE CountTotal(t)
    BY <1>0, <1>1, <1>7 DEF CountTotal
  <1>8. CASE CountVerdict(t)
    BY <1>0, <1>1, <1>8 DEF CountVerdict
  <1> QED
    BY <1>2, <1>3, <1>4, <1>5, <1>6, <1>7, <1>8 DEF Count

\* An answer is given for a call that is done, or that the storage refused.
LEMMA AnswerFrame ==
    ASSUME Typed, CountingInv, NEW t \in Threads, ApiReturn(t)
    PROVE  /\ ClientTypeOK' /\ PcIsFun' /\ CountingInv'
           /\ pc[t] \in {"done", "ret"} /\ Active(t) /\ ClientReturn(t)
           /\ pc' = [pc EXCEPT ![t] = "idle"] /\ pc'[t] = "idle"
           /\ \A u \in Threads \ {t} : pc'[u] = pc[u] /\ call'[u] = call[u] /\ ret'[u] = ret[u]
           /\ pc[t] = "done" => call[t].fn \in {"open", "close"}
           /\ UNCHANGED <<counters, queryVars, maxOpen, moved, overlap>>
  <1> USE DEF Typed
  <1>1. ClientReturn(t) /\ Active(t) /\ pc[t] \in {"done", "ret"}
    BY DEF ApiReturn, Finished, Active
  <1>2. ClientTypeOK' /\ pc' = [pc EXCEPT ![t] = "idle"]
        /\ \A u \in Threads \ {t} : pc'[u] = pc[u] /\ call'[u] = call[u] /\ ret'[u] = ret[u]
    BY <1>1, ReturnType, ReturnFrame
  <1>3. PcIsFun' /\ pc'[t] = "idle"
    BY <1>2 DEF PcIsFun
  <1>4. CountingInv'
    BY <1>2, <1>3 DEF CountingInv, Raising, Totalling
  <1> QED
    BY <1>1, <1>2, <1>3, <1>4 DEF ApiReturn, CountingInv

-----------------------------------------------------------------------------
(* The types                                                               *)

LEMMA CounterNat ==
    ASSUME ApiTypeOK, NEW f \in CounterNames
    PROVE  counters[f] \in 0 .. CounterMod - 1 /\ counters[f] \in Nat
  BY CountersAssumption DEF ApiTypeOK

LEMMA CountTypes ==
    ASSUME Typed, CountingInv, NEW t \in Threads, Count(t)
    PROVE  ApiTypeOK'
  <1>1. UNCHANGED <<queryVars, told, moved, overlap>>
    BY CountFrame
  <1>2. ASSUME NEW f \in CounterNames, NEW n \in Int, FetchAdd(f, n)
        PROVE  counters' \in [CounterNames -> 0 .. CounterMod - 1]
    BY <1>2, CounterRange DEF FetchAdd, Typed, ApiTypeOK
  <1>3. /\ "total_closes" \in CounterNames /\ "drainable_closes" \in CounterNames
        /\ "pinned_closes" \in CounterNames /\ "open_granules" \in CounterNames
        /\ "peak_open_granules" \in CounterNames /\ "total_allocs" \in CounterNames
        /\ "total_deallocs" \in CounterNames
    BY DEF CounterNames
  <1>4. \A i \in 0 .. CounterMod - 1 : i \in Nat
    BY CountersAssumption
  <1>5. /\ counters' \in [CounterNames -> 0 .. CounterMod - 1]
        /\ mine' \in [Threads -> 0 .. CounterMod - 1]
        /\ seen' \in [Threads -> 0 .. CounterMod - 1]
        /\ maxOpen' \in Nat
    <2>1. CASE CountCall(t)
      <3>1. FetchAdd("total_allocs", 1) \/ FetchAdd("total_deallocs", 1)
        BY <2>1 DEF CountCall
      <3>2. counters' \in [CounterNames -> 0 .. CounterMod - 1]
        BY <1>2, <1>3, <3>1
      <3> QED
        BY <2>1, <3>2 DEF Typed, ApiTypeOK, CountCall, peakVars, historyVars
    <2>2. CASE CountOpen(t)
      <3>1. counters' \in [CounterNames -> 0 .. CounterMod - 1]
        BY <1>2, <1>3, <2>2 DEF CountOpen
      <3>2. counters'["open_granules"] \in 0 .. CounterMod - 1 /\ counters'["open_granules"] \in Nat
        BY <1>3, <1>4, <3>1
      <3> QED
        BY <2>2, <3>1, <3>2 DEF Typed, ApiTypeOK, CountOpen
    <2>3. CASE PeakLoad(t)
      <3>1. counters["peak_open_granules"] \in 0 .. CounterMod - 1
        BY <1>3, <1>4 DEF Typed, ApiTypeOK
      <3> QED
        BY <2>3, <3>1 DEF Typed, ApiTypeOK, PeakLoad, PeakTest, historyVars
    <2>4. CASE PeakSwap(t)
      <3>1. counters["peak_open_granules"] \in 0 .. CounterMod - 1
        BY <1>3, <1>4 DEF Typed, ApiTypeOK
      <3>2. UNCHANGED <<mine, maxOpen>>
        BY <2>4 DEF PeakSwap, historyVars
      <3>3. CASE counters["peak_open_granules"] = seen[t]
        <4>1. counters' = [counters EXCEPT !["peak_open_granules"] = mine[t]] /\ UNCHANGED seen
          BY <2>4, <3>3 DEF PeakSwap, Store
        <4> QED
          BY <1>3, <3>2, <4>1 DEF Typed, ApiTypeOK
      <3>4. CASE counters["peak_open_granules"] # seen[t]
        BY <2>4, <3>1, <3>2, <3>4 DEF Typed, ApiTypeOK, PeakSwap, PeakTest
      <3> QED
        BY <3>3, <3>4
    <2>5. CASE CountClose(t)
      <3>1. FetchAdd("open_granules", -1)
        BY <2>5 DEF CountClose
      <3>2. counters' \in [CounterNames -> 0 .. CounterMod - 1]
        BY <1>2, <1>3, <3>1
      <3> QED
        BY <2>5, <3>2 DEF Typed, ApiTypeOK, CountClose, peakVars, historyVars
    <2>6. CASE CountTotal(t)
      <3>1. FetchAdd("total_closes", 1)
        BY <2>6 DEF CountTotal
      <3>2. counters' \in [CounterNames -> 0 .. CounterMod - 1]
        BY <1>2, <1>3, <3>1
      <3> QED
        BY <2>6, <3>2 DEF Typed, ApiTypeOK, CountTotal, peakVars, historyVars
    <2>7. CASE CountVerdict(t)
      <3>1. FetchAdd("drainable_closes", 1) \/ FetchAdd("pinned_closes", 1)
        BY <2>7 DEF CountVerdict
      <3>2. counters' \in [CounterNames -> 0 .. CounterMod - 1]
        BY <1>2, <1>3, <3>1
      <3> QED
        BY <2>7, <3>2 DEF Typed, ApiTypeOK, CountVerdict, peakVars, historyVars
    <2> QED
      BY <2>1, <2>2, <2>3, <2>4, <2>5, <2>6, <2>7 DEF Count
  <1> QED
    BY <1>1, <1>5 DEF queryVars, Typed, ApiTypeOK

-----------------------------------------------------------------------------
(* The peak                                                                *)

\* The peak, and what the opens under way will make of it.
Peak == counters["peak_open_granules"]

LEMMA CountPeak ==
    ASSUME Typed, CountingInv, PeakInv, NEW t \in Threads, Count(t), ~Resetting
    PROVE  PeakInv'
  <1>1. /\ \A u \in Threads \ {t} : pc'[u] = pc[u]
        /\ ~Resetting' /\ PcIsFun'
    BY CountFrame DEF Resetting, queryVars
  <1>2. /\ Peak \in 0 .. CounterMod - 1 /\ maxOpen \in Nat /\ CounterMod \in Nat
        /\ \A u \in Threads : mine[u] \in 0 .. CounterMod - 1 /\ seen[u] \in 0 .. CounterMod - 1
        /\ counters["open_granules"] \in 0 .. CounterMod - 1
    BY CountersAssumption DEF Typed, ApiTypeOK, Peak, CounterNames
  <1>3. /\ \A u \in Threads : pc[u] \in Raising => mine[u] <= maxOpen
        /\ \A u \in Threads : pc[u] = "peak_cas" => seen[u] < mine[u]
        /\ Peak <= maxOpen
        /\ Peak = maxOpen \/ \E u \in Threads : pc[u] \in Raising /\ mine[u] = maxOpen
    BY DEF PeakInv, Peak
  <1>4. CASE CountCall(t) \/ CountClose(t) \/ CountTotal(t) \/ CountVerdict(t)
    <2>1. UNCHANGED <<mine, seen, maxOpen>> /\ pc[t] \notin Raising /\ pc'[t] \notin Raising
      BY <1>4, CountFrame DEF CountCall, CountClose, CountTotal, CountVerdict, Closed,
                              peakVars, historyVars, Goto, Raising, Typed, PcIsFun
    <2>2. \E f \in CounterNames \ {"peak_open_granules"}, n \in Int : FetchAdd(f, n)
      BY <1>4 DEF CountCall, CountClose, CountTotal, CountVerdict, CounterNames
    <2>3. Peak' = Peak
      BY <2>2 DEF FetchAdd, Peak, Typed, ApiTypeOK, CounterNames
    <2>4. \A u \in Threads : /\ pc'[u] \in Raising <=> pc[u] \in Raising
                             /\ pc'[u] = "peak_cas" <=> pc[u] = "peak_cas"
      BY <1>1, <2>1 DEF Raising
    <2> QED
      BY <1>3, <2>1, <2>3, <2>4 DEF PeakInv, Peak
  <1>5. CASE CountOpen(t)
    <2>1. /\ pc[t] = "ret" /\ pc'[t] = "peak_load" /\ UNCHANGED seen
          /\ counters' = [counters EXCEPT !["open_granules"] = (@ + 1) % CounterMod]
          /\ mine' = [mine EXCEPT ![t] = counters'["open_granules"]]
          /\ maxOpen' = IF counters'["open_granules"] > maxOpen
                        THEN counters'["open_granules"] ELSE maxOpen
      BY <1>5 DEF CountOpen, FetchAdd, Goto, Typed, PcIsFun
    <2>2. Peak' = Peak
      BY <2>1 DEF Peak, Typed, ApiTypeOK, CounterNames
    <2>3. counters'["open_granules"] \in Nat
      BY CountTypes, CountersAssumption DEF Count, ApiTypeOK, CounterNames
    <2>4. /\ mine'[t] = counters'["open_granules"]
          /\ \A u \in Threads \ {t} : mine'[u] = mine[u]
      BY <2>1 DEF Typed, ApiTypeOK
    <2>5. pc[t] \notin Raising /\ pc'[t] \in Raising /\ pc'[t] # "peak_cas"
      BY <2>1 DEF Raising
    <2>6. maxOpen' >= maxOpen /\ mine'[t] <= maxOpen' /\ maxOpen' \in Nat
      BY <1>2, <2>1, <2>3, <2>4, SMT
    <2>7. ASSUME NEW u \in Threads
          PROVE  /\ pc'[u] \in Raising    => mine'[u] <= maxOpen'
                 /\ pc'[u] = "peak_cas" => seen'[u] < mine'[u]
      BY <1>1, <1>2, <1>3, <2>1, <2>4, <2>5, <2>6
    <2>8. Peak' <= maxOpen'
      BY <1>2, <1>3, <2>2, <2>6
    <2>9. Peak' = maxOpen' \/ \E u \in Threads : pc'[u] \in Raising /\ mine'[u] = maxOpen'
      <3>1. CASE counters'["open_granules"] > maxOpen
        BY <2>1, <2>4, <2>5, <3>1
      <3>2. CASE ~(counters'["open_granules"] > maxOpen)
        BY <1>1, <1>3, <2>1, <2>2, <2>4, <2>5, <3>2
      <3> QED
        BY <3>1, <3>2
    <2> QED
      BY <1>1, <2>7, <2>8, <2>9 DEF PeakInv, Peak
  <1>6. ASSUME pc[t] \in Raising, UNCHANGED <<counters, mine, maxOpen>>, PeakTest(t, Peak)
        PROVE  PeakInv'
    <2>1. /\ seen'[t] = Peak /\ \A u \in Threads \ {t} : seen'[u] = seen[u]
          /\ pc'[t] = IF mine[t] > Peak THEN "peak_cas" ELSE "done"
      BY <1>6 DEF PeakTest, Goto, Typed, PcIsFun, ApiTypeOK
    <2>2. ASSUME NEW u \in Threads
          PROVE  /\ pc'[u] \in Raising    => mine'[u] <= maxOpen'
                 /\ pc'[u] = "peak_cas" => seen'[u] < mine'[u]
      BY <1>1, <1>2, <1>3, <1>6, <2>1 DEF Raising
    <2>3. Peak = maxOpen \/ \E u \in Threads : pc'[u] \in Raising /\ mine[u] = maxOpen
      <3>1. CASE Peak = maxOpen
        BY <3>1
      <3>2. CASE Peak # maxOpen
        <4>1. PICK u \in Threads : pc[u] \in Raising /\ mine[u] = maxOpen
          BY <1>3, <3>2
        <4>2. CASE u = t
          <5>1. mine[t] > Peak
            BY <1>2, <1>3, <3>2, <4>1, <4>2
          <5> QED
            BY <2>1, <4>1, <4>2, <5>1 DEF Raising
        <4> QED
          BY <1>1, <4>1, <4>2
      <3> QED
        BY <3>1, <3>2
    <2> QED
      BY <1>3, <1>6, <2>2, <2>3 DEF PeakInv, Peak
  <1>7. CASE PeakLoad(t)
    BY <1>6, <1>7 DEF PeakLoad, Raising, historyVars, Peak
  <1>8. CASE PeakSwap(t)
    <2>1. CASE counters["peak_open_granules"] # seen[t]
      BY <1>6, <1>8, <2>1 DEF PeakSwap, Raising, historyVars, Peak
    <2>2. CASE counters["peak_open_granules"] = seen[t]
      <3>1. /\ pc[t] = "peak_cas" /\ pc'[t] = "done" /\ UNCHANGED <<mine, seen, maxOpen>>
            /\ counters' = [counters EXCEPT !["peak_open_granules"] = mine[t]]
        BY <1>8, <2>2 DEF PeakSwap, Store, Goto, historyVars, Typed, PcIsFun
      <3>2. Peak' = mine[t]
        BY <3>1 DEF Peak, Typed, ApiTypeOK, CounterNames
      <3>3. Peak < mine[t] /\ mine[t] <= maxOpen
        BY <1>3, <2>2, <3>1 DEF Peak, Raising
      <3>4. ASSUME NEW u \in Threads
            PROVE  /\ pc'[u] \in Raising    => mine'[u] <= maxOpen'
                   /\ pc'[u] = "peak_cas" => seen'[u] < mine'[u]
        BY <1>1, <1>3, <3>1 DEF Raising
      <3>5. Peak' = maxOpen \/ \E u \in Threads : pc'[u] \in Raising /\ mine[u] = maxOpen
        <4>1. PICK u \in Threads : pc[u] \in Raising /\ mine[u] = maxOpen
          BY <1>2, <1>3, <3>3
        <4> QED
          BY <1>1, <3>2, <4>1
      <3> QED
        BY <3>1, <3>2, <3>3, <3>4, <3>5 DEF PeakInv, Peak
    <2> QED
      BY <2>1, <2>2
  <1> QED
    BY <1>4, <1>5, <1>7, <1>8 DEF Count

\* Steps that change neither the peak nor the opens under way.
LEMMA SamePeak ==
    ASSUME PeakInv, UNCHANGED <<counters, maxOpen>>, Resetting => Resetting',
           \A u \in Threads :
              /\ pc'[u] \in Raising <=> pc[u] \in Raising
              /\ pc'[u] = "peak_cas" <=> pc[u] = "peak_cas"
              /\ pc[u] \in Raising => mine'[u] = mine[u] /\ seen'[u] = seen[u]
    PROVE  PeakInv'
  BY DEF PeakInv, Raising

-----------------------------------------------------------------------------
(* The invariant of the API                                                *)

ApiInv == Typed /\ CountingInv /\ PeakInv /\ ResetInv

LEMMA ActiveRuns == ASSUME ResetInv, NEW t \in Threads, Active(t) PROVE ~Resetting
  BY DEF ResetInv

LEMMA ApiInitInv == ASSUME ClientInit, ApiInit PROVE ApiInv
  <1> USE DEF ClientInit, ApiInit, CountersInit
  <1>1. ClientTypeOK /\ PcIsFun
    BY ClientAssumption DEF ClientTypeOK, PcIsFun, Active
  <1>2. ApiTypeOK
    BY CountersAssumption, ClientAssumption DEF ApiTypeOK, NoCounts
  <1>3. CountingInv /\ PeakInv /\ ResetInv
    BY DEF CountingInv, PeakInv, ResetInv, Resetting, Raising, Totalling, CounterNames
  <1> QED
    BY <1>1, <1>2, <1>3 DEF ApiInv, Typed

LEMMA CallApi ==
    ASSUME ApiInv, NEW t \in Threads, NEW g \in Granules, NEW o, NEW c,
           {o, c} \cap (ApiLabels \cup {"idle", "ret"}) = {}, ApiCall(t, g, o, c)
    PROVE  ApiInv'
  <1>1. /\ ClientTypeOK' /\ PcIsFun'
        /\ pc[t] = "idle" /\ pc'[t] \in {o, c, "count_alloc", "count_dealloc"}
        /\ pc'[t] = "count_alloc"   => call'[t].fn = "alloc"
        /\ pc'[t] = "count_dealloc" => call'[t].fn = "dealloc"
        /\ \A u \in Threads \ {t} : pc'[u] = pc[u] /\ call'[u] = call[u]
        /\ ~Resetting /\ ~Resetting'
        /\ UNCHANGED <<ret, counters, peakVars, queryVars, told, maxOpen>>
    BY ApiCallFrame DEF ApiInv
  <1>2. moved' \subseteq Granules
    BY DEF ApiCall, ApiInv, Typed, ApiTypeOK
  <1>3. ApiTypeOK'
    BY <1>1, <1>2 DEF ApiInv, Typed, ApiTypeOK, queryVars, peakVars
  <1>4. pc'[t] \notin ApiLabels \ {"count_alloc", "count_dealloc"}
    BY <1>1
  <1>5. CountingInv'
    BY <1>1, <1>4 DEF ApiInv, CountingInv, Raising, Totalling, ApiLabels
  <1>6. PeakInv'
    <2>1. pc'[t] \notin Raising /\ pc'[t] # "peak_cas" /\ pc[t] \notin Raising
      BY <1>1, <1>4 DEF Raising, ApiLabels
    <2> QED
      BY <1>1, <2>1, SamePeak DEF ApiInv, peakVars
  <1>7. ResetInv'
    BY <1>1 DEF ResetInv, Resetting
  <1> QED
    BY <1>1, <1>3, <1>5, <1>6, <1>7 DEF ApiInv, Typed

LEMMA StorageApi ==
    ASSUME ApiInv, NEW t \in Threads, StorageMove(t), ClientTypeOK', PcIsFun'
    PROVE  ApiInv'
  <1>1. ~Resetting /\ ~Resetting'
    BY ActiveRuns DEF ApiInv, StorageMove, StorageOnly, queryVars, Resetting
  <1>2. ApiTypeOK'
    BY DEF ApiInv, Typed, ApiTypeOK, StorageMove, StorageOnly, queryVars, peakVars, historyVars
  <1>3. CountingInv'
    BY DEF ApiInv, CountingInv, StorageMove, Raising, Totalling, ApiLabels
  <1>4. PeakInv'
    BY <1>1, SamePeak DEF ApiInv, StorageMove, StorageOnly, Raising, ApiLabels, peakVars, historyVars
  <1>5. ResetInv'
    BY <1>1 DEF ResetInv, Resetting
  <1> QED
    BY <1>2, <1>3, <1>4, <1>5 DEF ApiInv, Typed

LEMMA CountApi ==
    ASSUME ApiInv, NEW t \in Threads, Count(t)
    PROVE  ApiInv'
  <1>1. /\ ClientTypeOK' /\ PcIsFun' /\ CountingInv' /\ Active(t)
        /\ UNCHANGED queryVars
    BY CountFrame DEF ApiInv
  <1>2. ~Resetting /\ ~Resetting'
    BY <1>1, ActiveRuns DEF ApiInv, queryVars, Resetting
  <1>3. ApiTypeOK' /\ PeakInv'
    BY <1>2, CountTypes, CountPeak DEF ApiInv
  <1>4. ResetInv'
    BY <1>2 DEF ResetInv, Resetting
  <1> QED
    BY <1>1, <1>3, <1>4 DEF ApiInv, Typed

LEMMA AnswerApi ==
    ASSUME ApiInv, NEW t \in Threads, ApiReturn(t)
    PROVE  ApiInv'
  <1>1. /\ ClientTypeOK' /\ PcIsFun' /\ CountingInv' /\ Active(t)
        /\ pc[t] \in {"done", "ret"} /\ pc'[t] = "idle"
        /\ \A u \in Threads \ {t} : pc'[u] = pc[u]
        /\ UNCHANGED <<counters, queryVars, maxOpen, moved, overlap>>
    BY AnswerFrame DEF ApiInv
  <1>2. ~Resetting /\ ~Resetting'
    BY <1>1, ActiveRuns DEF ApiInv, queryVars, Resetting
  <1>3. /\ mine' = [mine EXCEPT ![t] = 0] /\ seen' = [seen EXCEPT ![t] = 0]
        /\ told' \in [drainable : Nat, pinned : Nat]
    BY ToldCounts DEF ApiReturn, ApiInv, Typed, ApiTypeOK
  <1>4. 0 \in 0 .. CounterMod - 1
    BY CountersAssumption
  <1>5. ApiTypeOK'
    BY <1>1, <1>3, <1>4 DEF ApiInv, Typed, ApiTypeOK, queryVars
  <1>6. PeakInv'
    <2>1. pc[t] \notin Raising /\ pc'[t] \notin Raising
      BY <1>1 DEF Raising
    <2>2. \A u \in Threads \ {t} : mine'[u] = mine[u] /\ seen'[u] = seen[u]
      BY <1>3 DEF ApiInv, Typed, ApiTypeOK
    <2> QED
      BY <1>1, <1>2, <2>1, <2>2, SamePeak DEF ApiInv, Raising
  <1>7. ResetInv'
    BY <1>2 DEF ResetInv, Resetting
  <1> QED
    BY <1>1, <1>5, <1>6, <1>7 DEF ApiInv, Typed

\* The monitor leaves the calls alone.
LEMMA SameClient ==
    ASSUME Typed, CountingInv, UNCHANGED clientVars
    PROVE  /\ ClientTypeOK' /\ PcIsFun' /\ CountingInv'
           /\ \A t \in Threads : Active(t)' = Active(t)
  BY DEF Typed, ClientTypeOK, PcIsFun, CountingInv, clientVars, bookVars, Active

\* A step of the monitor outside of a reset, or before it.
LEMMA MonitorApi ==
    ASSUME ApiInv, ApiTypeOK',
           UNCHANGED <<clientVars, counters, mine, seen, maxOpen>>,
           \/ ~Resetting /\ ~Resetting'
           \/ /\ mpc' = "reset_counter" /\ cursor' = 1
              /\ \A t \in Threads : ~Active(t)
    PROVE  ApiInv'
  <1>1. ClientTypeOK' /\ PcIsFun' /\ CountingInv' /\ \A t \in Threads : Active(t)' = Active(t)
    BY SameClient DEF ApiInv
  <1>2. Resetting => Resetting'
    BY DEF Resetting
  <1>3. PeakInv'
    BY <1>2, SamePeak DEF ApiInv, clientVars
  <1>4. ResetInv'
    <2>1. CASE ~Resetting'
      BY <2>1 DEF ResetInv, Resetting
    <2>2. CASE mpc' = "reset_counter" /\ cursor' = 1 /\ \A t \in Threads : ~Active(t)
      <3>1. 1 .. cursor' - 1 = {}
        BY <2>2
      <3> QED
        BY <1>1, <2>2, <3>1 DEF ResetInv, Resetting
    <2> QED
      BY <2>1, <2>2
  <1> QED
    BY <1>1, <1>3, <1>4 DEF ApiInv, Typed

LEMMA OrderLengths == Len(SnapshotOrder) = 7 /\ Len(ResetOrder) = 7 /\ Len(SweepOrder) = 4
  BY DEF SnapshotOrder, ResetOrder, SweepOrder

LEMMA OrderNames ==
    /\ \A i \in 1 .. 7 : SnapshotOrder[i] \in CounterNames /\ ResetOrder[i] \in CounterNames
    /\ \A i \in 1 .. 4 : SweepOrder[i] \in CounterNames
    /\ \A f \in CounterNames : \E i \in 1 .. 7 : ResetOrder[i] = f
  BY DEF SnapshotOrder, ResetOrder, SweepOrder, CounterNames

LEMMA CapacityPositive == Capacity \in Nat \ {0} /\ 0 \in 0 .. Capacity - 1
  BY ClientAssumption

LEMMA BeginQueryApi == ASSUME ApiInv, BeginQuery PROVE ApiInv'
  <1>1. mpc' \in {"snapshot", "sweep"} /\ cursor' = 1 /\ ~Resetting /\ ~Resetting'
    BY ApiAssumption DEF BeginQuery, Resetting
  <1>2. moved' \subseteq Granules
    BY DEF BeginQuery, ApiInv, Typed, ClientTypeOK, Calls
  <1>3. ApiTypeOK'
    BY <1>1, <1>2, OrderLengths DEF ApiInv, Typed, ApiTypeOK, BeginQuery, NoCounts, peakVars
  <1> QED
    BY <1>1, <1>3, MonitorApi DEF BeginQuery, peakVars

LEMMA BeginResetApi == ASSUME ApiInv, BeginReset PROVE ApiInv'
  <1>1. ApiTypeOK'
    BY OrderLengths DEF ApiInv, Typed, ApiTypeOK, BeginReset, peakVars, historyVars
  <1> QED
    BY <1>1, MonitorApi DEF BeginReset, peakVars, historyVars

\* One load of a snapshot or of a sweep.
LEMMA LoadApi ==
    ASSUME ApiInv, SnapshotLoad \/ SweepLoad
    PROVE  ApiInv'
  <1>1. CASE SnapshotLoad
    <2>1. /\ mpc = "snapshot" /\ cursor \in 1 .. 7
          /\ IF cursor < 7 THEN cursor' = cursor + 1 /\ mpc' = mpc
             ELSE cursor' = 0 /\ mpc' = "snapshot_done"
          /\ out' = [out EXCEPT ![SnapshotOrder[cursor]] = counters[SnapshotOrder[cursor]]]
          /\ MonitorOnly
      BY <1>1, OrderLengths DEF SnapshotLoad, LoadCounter, ApiInv, Typed, ApiTypeOK
    <2>2. ~Resetting /\ ~Resetting'
      BY <2>1 DEF Resetting
    <2>3. counters[SnapshotOrder[cursor]] \in Nat
      <3>1. SnapshotOrder[cursor] \in CounterNames
        BY <2>1, OrderNames
      <3> QED
        BY <3>1, CounterNat DEF ApiInv, Typed
    <2>4. cursor' \in IF mpc' \in {"snapshot", "reset_counter"} THEN 1 .. Len(SnapshotOrder)
                      ELSE IF mpc' = "sweep" THEN 1 .. Len(SweepOrder) ELSE 0 .. Capacity - 1
      BY <2>1, OrderLengths, CapacityPositive
    <2>5. ApiTypeOK'
      BY <2>1, <2>3, <2>4 DEF ApiInv, Typed, ApiTypeOK, MonitorOnly, peakVars, historyVars
    <2> QED
      BY <2>1, <2>2, <2>5, MonitorApi DEF MonitorOnly, peakVars, historyVars
  <1>2. CASE SweepLoad
    <2>1. /\ mpc = "sweep" /\ cursor \in 1 .. 4
          /\ IF cursor < 4 THEN cursor' = cursor + 1 /\ mpc' = mpc
             ELSE cursor' = 0 /\ mpc' = "sweep_occupied"
          /\ out' = [out EXCEPT ![SweepOrder[cursor]] = counters[SweepOrder[cursor]]]
          /\ MonitorOnly
      BY <1>2, OrderLengths DEF SweepLoad, LoadCounter, ApiInv, Typed, ApiTypeOK
    <2>2. ~Resetting /\ ~Resetting'
      BY <2>1 DEF Resetting
    <2>3. counters[SweepOrder[cursor]] \in Nat
      <3>1. SweepOrder[cursor] \in CounterNames
        BY <2>1, OrderNames
      <3> QED
        BY <3>1, CounterNat DEF ApiInv, Typed
    <2>4. cursor' \in IF mpc' \in {"snapshot", "reset_counter"} THEN 1 .. Len(SnapshotOrder)
                      ELSE IF mpc' = "sweep" THEN 1 .. Len(SweepOrder) ELSE 0 .. Capacity - 1
      BY <2>1, OrderLengths, CapacityPositive
    <2>5. ApiTypeOK'
      BY <2>1, <2>3, <2>4 DEF ApiInv, Typed, ApiTypeOK, MonitorOnly, peakVars, historyVars
    <2> QED
      BY <2>1, <2>2, <2>5, MonitorApi DEF MonitorOnly, peakVars, historyVars
  <1> QED
    BY <1>1, <1>2

LEMMA EndQueryApi == ASSUME ApiInv, EndQuery PROVE ApiInv'
  <1>1. ~Resetting /\ ~Resetting'
    BY DEF EndQuery, Resetting
  <1>2. ApiTypeOK'
    BY DEF EndQuery, ApiInv, Typed, ApiTypeOK, NoCounts, peakVars
  <1> QED
    BY <1>1, <1>2, MonitorApi DEF EndQuery, peakVars

\* A step of a sweep over the slots, at a label of the storage.
LEMMA SweepApi ==
    ASSUME ApiInv, ~Resetting, NEW l, NEW o, NEW n, NEW w,
           mpc \notin {"snapshot", "sweep"},
           l \notin {"snapshot", "sweep", "reset_counter", "reset_live", "reset_occupied", "reset_id"},
           SweepTest(w, o, l) \/ SweepCount(n)
    PROVE  ApiInv' /\ ~Resetting'
  <1>1. cursor \in 0 .. Capacity - 1
    BY DEF ApiInv, Typed, ApiTypeOK, Resetting
  <1>2. /\ cursor' \in 0 .. Capacity - 1
        /\ mpc' \notin {"snapshot", "sweep", "reset_counter", "reset_live", "reset_occupied", "reset_id"}
    BY <1>1, CapacityPositive DEF SweepTest, SweepCount, NextSlot
  <1>3. out' \in [CounterNames -> Nat]
    <2>1. out \in [CounterNames -> Nat]
      BY DEF ApiInv, Typed, ApiTypeOK
    <2>2. CASE SweepTest(w, o, l)
      BY <2>1, <2>2 DEF SweepTest
    <2>3. CASE SweepCount(n)
      <3>1. \/ out' = [out EXCEPT !["drainable_closes"] = @ + 1, !["total_closes"] = @ + 1]
            \/ out' = [out EXCEPT !["pinned_closes"] = @ + 1, !["total_closes"] = @ + 1]
        BY <2>3 DEF SweepCount
      <3> QED
        BY <2>1, <3>1 DEF CounterNames
    <2> QED
      BY <2>2, <2>3
  <1>4. MonitorOnly
    BY DEF SweepTest, SweepCount
  <1>5. ApiTypeOK' /\ ~Resetting'
    BY <1>2, <1>3, <1>4 DEF ApiInv, Typed, ApiTypeOK, MonitorOnly, Resetting, peakVars, historyVars
  <1> QED
    BY <1>4, <1>5, MonitorApi DEF MonitorOnly, peakVars, historyVars

\* A reset of one counter more.
LEMMA ResetCounterApi ==
    ASSUME ApiInv, NEW l \in {"reset_live", "reset_occupied", "reset_id", "idle"}, ResetCounter(l)
    PROVE  /\ ApiInv'
           /\ mpc' # "reset_counter" =>
                 mpc' = l /\ counters' = NoCounts /\ told' = [drainable |-> 0, pinned |-> 0]
  <1>1. /\ mpc = "reset_counter" /\ cursor \in 1 .. 7
        /\ counters' = [counters EXCEPT ![ResetOrder[cursor]] = 0]
        /\ UNCHANGED <<clientVars, peakVars, out, queries, resets, moved, overlap>>
    BY OrderLengths DEF ResetCounter, Store, ApiInv, Typed, ApiTypeOK, Resetting
  <1>2. ClientTypeOK' /\ PcIsFun' /\ CountingInv' /\ \A t \in Threads : ~Active(t) /\ ~Active(t)'
    BY <1>1, SameClient DEF ApiInv, ResetInv, Resetting
  <1>3. counters' \in [CounterNames -> 0 .. CounterMod - 1]
    <2>1. 0 \in 0 .. CounterMod - 1
      BY CountersAssumption
    <2>2. counters \in [CounterNames -> 0 .. CounterMod - 1]
      BY DEF ApiInv, Typed, ApiTypeOK
    <2> QED
      BY <1>1, <2>1, <2>2
  <1>4. \A i \in 1 .. cursor : counters'[ResetOrder[i]] = 0
    <2>1. ASSUME NEW i \in 1 .. cursor
          PROVE  counters'[ResetOrder[i]] = 0
      <3>1. i \in 1 .. 7 /\ (i # cursor => i \in 1 .. cursor - 1)
        BY <1>1
      <3>2. ResetOrder[i] \in CounterNames /\ (i # cursor => counters[ResetOrder[i]] = 0)
        BY <1>1, <3>1, OrderNames DEF ApiInv, ResetInv
      <3> QED
        BY <1>1, <3>2 DEF ApiInv, Typed, ApiTypeOK
    <2> QED
      BY <2>1
  <1>5. CASE cursor < 7
    <2>1. cursor' = cursor + 1 /\ UNCHANGED <<mpc, told, maxOpen>> /\ cursor' \in 1 .. 7
      BY <1>1, <1>5, OrderLengths DEF ResetCounter
    <2>2. ApiTypeOK'
      BY <1>1, <1>3, <2>1, OrderLengths DEF ApiInv, Typed, ApiTypeOK, peakVars
    <2>3. 1 .. cursor' - 1 = 1 .. cursor
      BY <1>1, <2>1
    <2>4. ResetInv'
      BY <1>1, <1>2, <1>4, <2>1, <2>3 DEF ResetInv
    <2>5. PeakInv'
      BY <1>1, <1>2, <2>1 DEF PeakInv, Raising, Active, Resetting
    <2> QED
      BY <1>1, <1>2, <2>1, <2>2, <2>4, <2>5 DEF ApiInv, Typed
  <1>6. CASE ~(cursor < 7)
    <2>1. /\ cursor' = 0 /\ mpc' = l /\ maxOpen' = 0
          /\ told' = [drainable |-> 0, pinned |-> 0]
      BY <1>1, <1>6, OrderLengths DEF ResetCounter
    <2>2. counters' = NoCounts
      <3>1. 1 .. cursor = 1 .. 7
        BY <1>1, <1>6
      <3>2. \A f \in CounterNames : counters'[f] = 0
        BY <1>4, <3>1, OrderNames
      <3> QED
        BY <1>3, <3>2 DEF NoCounts
    <2>3. ApiTypeOK'
      BY <1>1, <1>3, <2>1, CapacityPositive DEF ApiInv, Typed, ApiTypeOK, peakVars
    <2>4. ResetInv'
      BY <1>2, <2>1, <2>2 DEF ResetInv, Resetting
    <2>5. PeakInv'
      BY <1>2, <2>1, <2>2 DEF PeakInv, Raising, Active, NoCounts, CounterNames
    <2> QED
      BY <1>2, <2>1, <2>2, <2>3, <2>4, <2>5 DEF ApiInv, Typed
  <1> QED
    BY <1>5, <1>6

-----------------------------------------------------------------------------
(* The verdicts                                                            *)

LEMMA ThreeApart ==
    ASSUME NEW S, NEW T, NEW F, NEW V, IsFiniteSet(S), T \subseteq S, F \subseteq S, V \subseteq S,
           T \cap F = {}, (T \cup F) \cap V = {}
    PROVE  /\ IsFiniteSet(T) /\ IsFiniteSet(F) /\ IsFiniteSet(V)
           /\ Cardinality(T) \in Nat /\ Cardinality(F) \in Nat /\ Cardinality(V) \in Nat
           /\ Cardinality(S) \in Nat
           /\ Cardinality(T) + Cardinality(F) + Cardinality(V) <= Cardinality(S)
           /\ \A t \in S \ (T \cup F \cup V) :
                 Cardinality(T) + Cardinality(F) + Cardinality(V) < Cardinality(S)
  <1>1. IsFiniteSet(T) /\ IsFiniteSet(F) /\ IsFiniteSet(V)
    BY FS_Subset
  <1>2. /\ Cardinality(S) \in Nat /\ Cardinality(T) \in Nat
        /\ Cardinality(F) \in Nat /\ Cardinality(V) \in Nat
    BY <1>1, FS_CardinalityType
  <1>3. Cardinality(T \cap F) = 0 /\ Cardinality((T \cup F) \cap V) = 0
    BY FS_EmptySet
  <1>4. /\ IsFiniteSet(T \cup F)
        /\ Cardinality(T \cup F) = Cardinality(T) + Cardinality(F) - Cardinality(T \cap F)
    BY <1>1, FS_Union
  <1>5. /\ IsFiniteSet((T \cup F) \cup V)
        /\ Cardinality((T \cup F) \cup V) =
              Cardinality(T \cup F) + Cardinality(V) - Cardinality((T \cup F) \cap V)
    BY <1>1, <1>4, FS_Union
  <1>6. /\ Cardinality((T \cup F) \cup V) <= Cardinality(S)
        /\ Cardinality((T \cup F) \cup V) = Cardinality(S) => S = (T \cup F) \cup V
    <2>1. (T \cup F) \cup V \in SUBSET S
      OBVIOUS
    <2> QED
      BY <2>1, FS_Subset
  <1>7. Cardinality((T \cup F) \cup V) = Cardinality(T) + Cardinality(F) + Cardinality(V)
    BY <1>2, <1>3, <1>4, <1>5
  <1> QED
    BY <1>1, <1>2, <1>6, <1>7

\* The closes about to be answered, and those about to be counted, are apart.
LEMMA VerdictSets ==
    ASSUME IsFiniteSet(Threads)
    PROVE  /\ Cardinality(Threads) \in Nat
           /\ IsFiniteSet(Answered("drainable")) /\ IsFiniteSet(Answered("pinned"))
           /\ IsFiniteSet(At("count_verdict"))
           /\ Cardinality(Answered("drainable")) \in Nat /\ Cardinality(Answered("pinned")) \in Nat
           /\ Cardinality(At("count_verdict")) \in Nat
           /\ Cardinality(Answered("drainable")) + Cardinality(Answered("pinned"))
                 + Cardinality(At("count_verdict")) <= Cardinality(Threads)
           /\ \A t \in Threads : pc[t] \notin {"done", "count_verdict"} =>
                 Cardinality(Answered("drainable")) + Cardinality(Answered("pinned"))
                    + Cardinality(At("count_verdict")) < Cardinality(Threads)
  <1>1. /\ Answered("drainable") \subseteq Threads /\ Answered("pinned") \subseteq Threads
        /\ At("count_verdict") \subseteq Threads
    BY DEF Answered, At
  <1>2. /\ Answered("drainable") \cap Answered("pinned") = {}
        /\ (Answered("drainable") \cup Answered("pinned")) \cap At("count_verdict") = {}
    BY DEF Answered, At
  <1>3. \A t \in Threads : pc[t] \notin {"done", "count_verdict"} =>
           t \notin (Answered("drainable") \cup Answered("pinned")) \cup At("count_verdict")
    BY DEF Answered, At
  <1> QED
    BY <1>1, <1>2, <1>3, ThreeApart

\* A step of thread t moves no other close.
LEMMA VerdictMoves ==
    ASSUME IsFiniteSet(Threads), NEW t \in Threads,
           \A u \in Threads \ {t} : pc'[u] = pc[u] /\ call'[u] = call[u] /\ ret'[u] = ret[u]
    PROVE  /\ IsFiniteSet(Answered("drainable")') /\ IsFiniteSet(Answered("pinned")')
           /\ Answered("drainable") \ {t} = Answered("drainable")' \ {t}
           /\ Answered("pinned") \ {t} = Answered("pinned")' \ {t}
           /\ IsFiniteSet(At("count_verdict")')
           /\ At("count_verdict") \ {t} = At("count_verdict")' \ {t}
  <1>1. /\ Answered("drainable")' \subseteq Threads /\ Answered("pinned")' \subseteq Threads
        /\ At("count_verdict")' \subseteq Threads
    BY DEF Answered, At
  <1>2. /\ Answered("drainable") \ {t} = Answered("drainable")' \ {t}
        /\ Answered("pinned") \ {t} = Answered("pinned")' \ {t}
    BY DEF Answered, At, ClosedAs, Drainable
  <1>3. At("count_verdict") \ {t} = At("count_verdict")' \ {t}
    BY DEF At
  <1> QED
    BY <1>1, <1>2, <1>3, FS_Subset

\* Steps that neither count a close nor answer one.
LEMMA SameVerdicts ==
    ASSUME VerdictsCounted, ~Resetting, UNCHANGED told,
           \A f \in {"drainable_closes", "pinned_closes", "total_closes"} : counters'[f] = counters[f],
           \A u \in Threads :
              /\ pc'[u] = "count_verdict" <=> pc[u] = "count_verdict"
              /\ pc'[u] = "done" /\ call'[u].fn = "close" <=> pc[u] = "done" /\ call[u].fn = "close"
              /\ pc[u] = "done" /\ call[u].fn = "close" => ret'[u] = ret[u]
    PROVE  VerdictsCounted'
  <1>1. Answered("drainable")' = Answered("drainable") /\ Answered("pinned")' = Answered("pinned")
    BY DEF Answered, At, ClosedAs, Drainable
  <1>2. At("count_verdict")' = At("count_verdict")
    BY DEF At
  <1> QED
    BY <1>1, <1>2 DEF VerdictsCounted

\* No counter of closes wraps around while few closes have been answered.
LEMMA CountVerdicts ==
    ASSUME ApiInv, VerdictsCounted, FewCloses, IsFiniteSet(Threads), NEW t \in Threads, Count(t)
    PROVE  VerdictsCounted'
  <1>1. /\ Active(t) /\ \A u \in Threads \ {t} : pc'[u] = pc[u]
        /\ UNCHANGED <<call, ret, bookVars, queryVars, told, moved, overlap>>
        /\ pc[t] # "done" /\ PcIsFun
        /\ pc[t] = "count_verdict" => call[t].fn = "close"
        /\ pc[t] \in Raising => call[t].fn = "open"
    BY CountFrame DEF ApiInv, Typed, CountingInv, Raising, Totalling
  <1>2. ~Resetting /\ ~Resetting'
    BY <1>1, ActiveRuns DEF ApiInv, Resetting, queryVars
  <1>3. /\ counters["drainable_closes"] = told.drainable + Cardinality(Answered("drainable"))
        /\ counters["pinned_closes"] = told.pinned + Cardinality(Answered("pinned"))
        /\ counters["total_closes"] =
              counters["drainable_closes"] + counters["pinned_closes"]
              + Cardinality(At("count_verdict"))
    BY <1>2 DEF VerdictsCounted
  <1>4. /\ told.drainable \in Nat /\ told.pinned \in Nat /\ CounterMod \in Nat
        /\ counters \in [CounterNames -> 0 .. CounterMod - 1]
    BY CountersAssumption DEF ApiInv, Typed, ApiTypeOK
  <1>5. /\ IsFiniteSet(Answered("drainable")') /\ IsFiniteSet(Answered("pinned")')
        /\ Answered("drainable") \ {t} = Answered("drainable")' \ {t}
        /\ Answered("pinned") \ {t} = Answered("pinned")' \ {t}
        /\ IsFiniteSet(At("count_verdict")')
        /\ At("count_verdict") \ {t} = At("count_verdict")' \ {t}
    BY <1>1, VerdictMoves
  <1>9. /\ t \in Answered("drainable")' <=> pc'[t] = "done" /\ call[t].fn = "close" /\ Drainable(t)
        /\ t \in Answered("pinned")' <=> pc'[t] = "done" /\ call[t].fn = "close" /\ ~Drainable(t)
        /\ t \notin Answered("drainable") /\ t \notin Answered("pinned")
        /\ t \in At("count_verdict") <=> pc[t] = "count_verdict"
        /\ t \in At("count_verdict")' <=> pc'[t] = "count_verdict"
    BY <1>1 DEF Answered, At, ClosedAs, Drainable
  <1>10. /\ IsFiniteSet(Answered("drainable")) /\ IsFiniteSet(Answered("pinned"))
         /\ IsFiniteSet(At("count_verdict"))
         /\ Cardinality(Answered("drainable")) \in Nat /\ Cardinality(Answered("pinned")) \in Nat
         /\ Cardinality(At("count_verdict")) \in Nat /\ Cardinality(Threads) \in Nat
         /\ Cardinality(Answered("drainable")) + Cardinality(Answered("pinned"))
               + Cardinality(At("count_verdict")) <= Cardinality(Threads)
    BY VerdictSets
  <1>11. told.drainable + told.pinned + Cardinality(Threads) < CounterMod
    BY DEF FewCloses
  <1>12. /\ counters["drainable_closes"] \in Nat /\ counters["pinned_closes"] \in Nat
         /\ counters["total_closes"] \in Nat
    BY CounterNat DEF ApiInv, Typed, CounterNames
  <1>6. CASE CountTotal(t)
    <2>1. /\ pc[t] = "count_total" /\ pc'[t] = "count_verdict"
          /\ counters' = [counters EXCEPT !["total_closes"] = (@ + 1) % CounterMod]
      BY <1>1, <1>6 DEF CountTotal, FetchAdd, Goto, PcIsFun
    <2>2. counters["total_closes"] + 1 < CounterMod
      <3>1. Cardinality(Answered("drainable")) + Cardinality(Answered("pinned"))
               + Cardinality(At("count_verdict")) < Cardinality(Threads)
        BY <2>1, VerdictSets
      <3> QED
        BY <1>3, <1>4, <1>10, <1>11, <1>12, <3>1
    <2>3. counters'["total_closes"] = counters["total_closes"] + 1
      BY <1>4, <2>1, <2>2, CountsOne DEF CounterNames
    <2>4. /\ counters'["drainable_closes"] = counters["drainable_closes"]
          /\ counters'["pinned_closes"] = counters["pinned_closes"]
      BY <1>4, <2>1 DEF CounterNames
    <2>5. Cardinality(At("count_verdict")') = Cardinality(At("count_verdict")) + 1
      BY <1>5, <1>9, <1>10, <2>1, MovedOne
    <2>6. /\ Cardinality(Answered("drainable")') = Cardinality(Answered("drainable"))
          /\ Cardinality(Answered("pinned")') = Cardinality(Answered("pinned"))
      BY <1>5, <1>9, <1>10, <2>1, MovedOne
    <2> QED
      BY <1>1, <1>3, <1>4, <1>10, <2>3, <2>4, <2>5, <2>6 DEF VerdictsCounted, CounterNames
  <1>7. CASE CountVerdict(t)
    <2>1. /\ pc[t] = "count_verdict" /\ pc'[t] = "done" /\ call[t].fn = "close"
          /\ FetchAdd(IF Drainable(t) THEN "drainable_closes" ELSE "pinned_closes", 1)
      BY <1>1, <1>7 DEF CountVerdict, Goto, PcIsFun
    <2>2. Cardinality(At("count_verdict")') = Cardinality(At("count_verdict")) - 1
      BY <1>5, <1>9, <1>10, <2>1, MovedOne
    <2>3. Cardinality(At("count_verdict")) > 0
      BY <1>9, <1>10, <2>1, FS_EmptySet
    <2>4. /\ counters["drainable_closes"] + 1 < CounterMod
          /\ counters["pinned_closes"] + 1 < CounterMod
      BY <1>3, <1>4, <1>10, <1>11, <1>12, <2>3
    <2>5. CASE Drainable(t)
      <3>1. counters' = [counters EXCEPT !["drainable_closes"] = (@ + 1) % CounterMod]
        BY <2>1, <2>5 DEF FetchAdd
      <3>2. counters'["drainable_closes"] = counters["drainable_closes"] + 1
        BY <1>4, <2>4, <3>1, CountsOne DEF CounterNames
      <3>3. /\ counters'["total_closes"] = counters["total_closes"]
            /\ counters'["pinned_closes"] = counters["pinned_closes"]
        BY <1>4, <3>1 DEF CounterNames
      <3>4. Cardinality(Answered("drainable")') = Cardinality(Answered("drainable")) + 1
        BY <1>5, <1>9, <1>10, <2>1, <2>5, MovedOne
      <3>5. Cardinality(Answered("pinned")') = Cardinality(Answered("pinned"))
        BY <1>5, <1>9, <1>10, <2>1, <2>5, MovedOne
      <3> QED
        BY <1>1, <1>3, <1>4, <1>10, <2>2, <3>2, <3>3, <3>4, <3>5 DEF VerdictsCounted, CounterNames
    <2>6. CASE ~Drainable(t)
      <3>1. counters' = [counters EXCEPT !["pinned_closes"] = (@ + 1) % CounterMod]
        BY <2>1, <2>6 DEF FetchAdd
      <3>2. counters'["pinned_closes"] = counters["pinned_closes"] + 1
        BY <1>4, <2>4, <3>1, CountsOne DEF CounterNames
      <3>3. /\ counters'["total_closes"] = counters["total_closes"]
            /\ counters'["drainable_closes"] = counters["drainable_closes"]
        BY <1>4, <3>1 DEF CounterNames
      <3>4. Cardinality(Answered("pinned")') = Cardinality(Answered("pinned")) + 1
        BY <1>5, <1>9, <1>10, <2>1, <2>6, MovedOne
      <3>5. Cardinality(Answered("drainable")') = Cardinality(Answered("drainable"))
        BY <1>5, <1>9, <1>10, <2>1, <2>6, MovedOne
      <3> QED
        BY <1>1, <1>3, <1>4, <1>10, <2>2, <3>2, <3>3, <3>4, <3>5 DEF VerdictsCounted, CounterNames
    <2> QED
      BY <2>5, <2>6
  <1>8. CASE CountCall(t) \/ CountOpen(t) \/ PeakLoad(t) \/ PeakSwap(t) \/ CountClose(t)
    <2>1. /\ pc[t] # "count_verdict" /\ pc'[t] # "count_verdict"
          /\ ~(pc'[t] = "done" /\ call'[t].fn = "close")
      BY <1>1, <1>8 DEF CountCall, CountOpen, PeakLoad, PeakSwap, PeakTest, CountClose, Closed, Goto,
                        PcIsFun, Raising
    <2>2. \A f \in {"drainable_closes", "pinned_closes", "total_closes"} : counters'[f] = counters[f]
      <3>1. CASE CountCall(t)
        BY <1>4, <3>1 DEF CountCall, FetchAdd, CounterNames
      <3>2. CASE CountOpen(t)
        BY <1>4, <3>2 DEF CountOpen, FetchAdd, CounterNames
      <3>3. CASE PeakLoad(t)
        BY <1>4, <3>3 DEF PeakLoad
      <3>4. CASE PeakSwap(t)
        BY <1>4, <3>4 DEF PeakSwap, Store, CounterNames
      <3>5. CASE CountClose(t)
        BY <1>4, <3>5 DEF CountClose, FetchAdd, CounterNames
      <3> QED
        BY <1>8, <3>1, <3>2, <3>3, <3>4, <3>5
    <2> QED
      BY <1>1, <1>2, <2>1, <2>2, SameVerdicts
  <1> QED
    BY <1>6, <1>7, <1>8 DEF Count

\* An answer tells the client what was counted.
LEMMA AnswerVerdicts ==
    ASSUME ApiInv, VerdictsCounted, IsFiniteSet(Threads), NEW t \in Threads, ApiReturn(t)
    PROVE  VerdictsCounted'
  <1>1. /\ pc[t] \in {"done", "ret"} /\ Active(t) /\ pc'[t] = "idle"
        /\ \A u \in Threads \ {t} : pc'[u] = pc[u] /\ call'[u] = call[u] /\ ret'[u] = ret[u]
        /\ UNCHANGED <<counters, queryVars, maxOpen, moved, overlap>>
    BY AnswerFrame DEF ApiInv
  <1>2. ~Resetting /\ ~Resetting'
    BY <1>1, ActiveRuns DEF ApiInv, Resetting, queryVars
  <1>3. CASE ~(pc[t] = "done" /\ call[t].fn = "close")
    <2>1. UNCHANGED told
      BY <1>3 DEF ApiReturn
    <2> QED
      BY <1>1, <1>2, <1>3, <2>1, SameVerdicts
  <1>4. CASE pc[t] = "done" /\ call[t].fn = "close"
    <2>1. told' = [told EXCEPT ![ClosedAs(t)] = @ + 1]
      BY <1>4 DEF ApiReturn
    <2>2. told \in [drainable : Nat, pinned : Nat]
      BY DEF ApiInv, Typed, ApiTypeOK
    <2>3. /\ IsFiniteSet(Answered("drainable")') /\ IsFiniteSet(Answered("pinned")')
          /\ Answered("drainable") \ {t} = Answered("drainable")' \ {t}
          /\ Answered("pinned") \ {t} = Answered("pinned")' \ {t}
          /\ IsFiniteSet(At("count_verdict")')
          /\ At("count_verdict") \ {t} = At("count_verdict")' \ {t}
      BY <1>1, VerdictMoves
    <2>4. /\ t \notin Answered("drainable")' /\ t \notin Answered("pinned")'
          /\ t \in Answered("drainable") <=> Drainable(t)
          /\ t \in Answered("pinned") <=> ~Drainable(t)
          /\ t \notin At("count_verdict") /\ t \notin At("count_verdict")'
      BY <1>1, <1>4 DEF Answered, At, ClosedAs
    <2>5. /\ IsFiniteSet(Answered("drainable")) /\ IsFiniteSet(Answered("pinned"))
          /\ IsFiniteSet(At("count_verdict"))
          /\ Cardinality(Answered("drainable")) \in Nat /\ Cardinality(Answered("pinned")) \in Nat
      BY VerdictSets
    <2>6. Cardinality(At("count_verdict")') = Cardinality(At("count_verdict"))
      BY <2>3, <2>4, <2>5, MovedOne
    <2>7. /\ counters["drainable_closes"] = told.drainable + Cardinality(Answered("drainable"))
          /\ counters["pinned_closes"] = told.pinned + Cardinality(Answered("pinned"))
          /\ counters["total_closes"] =
                counters["drainable_closes"] + counters["pinned_closes"]
                + Cardinality(At("count_verdict"))
      BY <1>2 DEF VerdictsCounted
    <2>8. CASE Drainable(t)
      <3>1. told'.drainable = told.drainable + 1 /\ told'.pinned = told.pinned
        BY <2>1, <2>2, <2>8, ToldCounts
      <3>2. Cardinality(Answered("drainable")') = Cardinality(Answered("drainable")) - 1
        BY <2>3, <2>4, <2>5, <2>8, MovedOne
      <3>3. Cardinality(Answered("pinned")') = Cardinality(Answered("pinned"))
        BY <2>3, <2>4, <2>5, <2>8, MovedOne
      <3> QED
        BY <1>1, <2>2, <2>5, <2>6, <2>7, <3>1, <3>2, <3>3 DEF VerdictsCounted
    <2>9. CASE ~Drainable(t)
      <3>1. told'.pinned = told.pinned + 1 /\ told'.drainable = told.drainable
        BY <2>1, <2>2, <2>9, ToldCounts
      <3>2. Cardinality(Answered("pinned")') = Cardinality(Answered("pinned")) - 1
        BY <2>3, <2>4, <2>5, <2>9, MovedOne
      <3>3. Cardinality(Answered("drainable")') = Cardinality(Answered("drainable"))
        BY <2>3, <2>4, <2>5, <2>9, MovedOne
      <3> QED
        BY <1>1, <2>2, <2>5, <2>6, <2>7, <3>1, <3>2, <3>3 DEF VerdictsCounted
    <2> QED
      BY <2>8, <2>9
  <1> QED
    BY <1>3, <1>4

LEMMA CallVerdicts ==
    ASSUME ApiInv, VerdictsCounted, NEW t \in Threads, NEW g \in Granules, NEW o, NEW c,
           {o, c} \cap (ApiLabels \cup {"idle", "ret"}) = {}, ApiCall(t, g, o, c)
    PROVE  VerdictsCounted'
  <1>1. /\ pc[t] = "idle" /\ pc'[t] \in {o, c, "count_alloc", "count_dealloc"}
        /\ \A u \in Threads \ {t} : pc'[u] = pc[u] /\ call'[u] = call[u]
        /\ ~Resetting /\ UNCHANGED <<ret, counters, told>>
    BY ApiCallFrame DEF ApiInv
  <1>2. pc'[t] \notin {"count_verdict", "done"}
    BY <1>1 DEF ApiLabels
  <1> QED
    BY <1>1, <1>2, SameVerdicts

LEMMA StorageVerdicts ==
    ASSUME ApiInv, VerdictsCounted, NEW t \in Threads, StorageMove(t)
    PROVE  VerdictsCounted'
  <1>1. ~Resetting
    BY ActiveRuns DEF ApiInv, StorageMove
  <1>2. pc[t] \notin {"count_verdict", "done"} /\ pc'[t] \notin {"count_verdict", "done"}
    BY DEF StorageMove, ApiLabels
  <1> QED
    BY <1>1, <1>2, SameVerdicts DEF StorageMove, StorageOnly, historyVars

\* A snapshot or a sweep counts in variables of its own.
LEMMA MonitorVerdicts ==
    ASSUME VerdictsCounted, ~Resetting, UNCHANGED <<clientVars, counters, told>>
    PROVE  VerdictsCounted'
  BY SameVerdicts DEF clientVars

-----------------------------------------------------------------------------
(* The snapshots                                                           *)

\* The closes under way, counted and not.
LEMMA CloseSets ==
    ASSUME IsFiniteSet(Threads)
    PROVE  /\ IsFiniteSet(Underway) /\ IsFiniteSet(Uncounted)
           /\ Cardinality(Underway) \in Nat /\ Cardinality(Uncounted) \in Nat
           /\ Cardinality(Uncounted) <= Cardinality(Underway)
           /\ CountingInv => Cardinality(At("count_verdict")) <= Cardinality(Underway)
  <1>1. Underway \subseteq Threads /\ Uncounted \subseteq Underway
    BY DEF Underway, Uncounted
  <1>2. IsFiniteSet(Underway) /\ IsFiniteSet(Uncounted)
    BY <1>1, FS_Subset
  <1>3. CountingInv => At("count_verdict") \subseteq Underway
    BY DEF CountingInv, Totalling, At, Underway, Calling, Active
  <1> QED
    BY <1>1, <1>2, <1>3, FS_Subset, FS_CardinalityType

LEMMA CloseMoves ==
    ASSUME IsFiniteSet(Threads), NEW t \in Threads,
           \A u \in Threads \ {t} : pc'[u] = pc[u] /\ call'[u] = call[u]
    PROVE  /\ IsFiniteSet(Underway') /\ IsFiniteSet(Uncounted')
           /\ Cardinality(Underway') \in Nat /\ Cardinality(Uncounted') \in Nat
           /\ Underway \ {t} = Underway' \ {t} /\ Uncounted \ {t} = Uncounted' \ {t}
           /\ t \in Underway <=> pc[t] # "idle" /\ call[t].fn = "close"
           /\ t \in Underway' <=> pc'[t] # "idle" /\ call'[t].fn = "close"
           /\ t \in Uncounted <=> t \in Underway /\ pc[t] \notin {"count_verdict", "done"}
           /\ t \in Uncounted' <=> t \in Underway' /\ pc'[t] \notin {"count_verdict", "done"}
  <1>1. Underway' \subseteq Threads /\ Uncounted' \subseteq Threads
    BY DEF Underway, Uncounted
  <1>2. Underway \ {t} = Underway' \ {t} /\ Uncounted \ {t} = Uncounted' \ {t}
    BY DEF Underway, Uncounted, Calling, Active
  <1>3. IsFiniteSet(Underway') /\ IsFiniteSet(Uncounted')
    BY <1>1, FS_Subset
  <1> QED
    BY <1>2, <1>3, FS_CardinalityType DEF Underway, Uncounted, Calling, Active

\* A step beside a snapshot may add to the verdict counters, and to total_closes
\* what no longer is uncounted; a close that begins is one that overlaps.
LEMMA SnapshotBeside ==
    ASSUME SnapshotInv, ApiTypeOK, ApiTypeOK', IsFiniteSet(Threads), UNCHANGED <<mpc, cursor, out>>,
           NEW n \in {0, 1},
           mpc \in {"snapshot", "snapshot_done"} => overlap' = overlap + n,
           Cardinality(Underway') \in Nat, Cardinality(Uncounted') \in Nat,
           Cardinality(Underway') <= Cardinality(Underway) + n,
           counters'["total_closes"] + Cardinality(Uncounted')
              <= counters["total_closes"] + Cardinality(Uncounted) + n,
           counters'["drainable_closes"] >= counters["drainable_closes"],
           counters'["pinned_closes"] >= counters["pinned_closes"]
    PROVE  SnapshotInv'
  <1> SUFFICES ASSUME mpc \in {"snapshot", "snapshot_done"} PROVE SnapshotInv'
    BY DEF SnapshotInv
  <1>1. overlap \in Nat /\ Cardinality(Underway) <= overlap
    BY DEF SnapshotInv
  <1>2. Cardinality(Underway) \in Nat /\ Cardinality(Uncounted) \in Nat
    BY CloseSets
  <1>3. /\ counters["total_closes"] \in Nat /\ counters["drainable_closes"] \in Nat
        /\ counters["pinned_closes"] \in Nat
    BY CounterNat DEF CounterNames
  <1>4. /\ counters'["total_closes"] \in Nat /\ counters'["drainable_closes"] \in Nat
        /\ counters'["pinned_closes"] \in Nat
    BY CountersAssumption DEF ApiTypeOK, CounterNames
  <1>5. /\ out["total_closes"] \in Nat /\ out["drainable_closes"] \in Nat
        /\ out["pinned_closes"] \in Nat
    BY DEF ApiTypeOK, CounterNames
  <1>6. overlap' \in Nat /\ Cardinality(Underway') <= overlap'
    BY <1>1, <1>2
  <1>7. /\ Loaded(1)' = Loaded(1) /\ Loaded(2)' = Loaded(2) /\ Loaded(3)' = Loaded(3)
    BY DEF Loaded
  <1>8. ASSUME Loaded(1)
        PROVE  /\ counters'["total_closes"] + Cardinality(Uncounted') <= out["total_closes"] + overlap'
               /\ out["total_closes"]
                    <= Shown(2, "drainable_closes")' + Shown(3, "pinned_closes")' + overlap'
    <2>1. /\ counters["total_closes"] + Cardinality(Uncounted) <= out["total_closes"] + overlap
          /\ out["total_closes"]
               <= Shown(2, "drainable_closes") + Shown(3, "pinned_closes") + overlap
      BY <1>8 DEF SnapshotInv
    <2>2. /\ Shown(2, "drainable_closes")' >= Shown(2, "drainable_closes")
          /\ Shown(3, "pinned_closes")' >= Shown(3, "pinned_closes")
          /\ Shown(2, "drainable_closes") \in Nat /\ Shown(3, "pinned_closes") \in Nat
          /\ Shown(2, "drainable_closes")' \in Nat /\ Shown(3, "pinned_closes")' \in Nat
      BY <1>3, <1>4, <1>5, <1>7 DEF Shown
    <2> QED
      BY <1>1, <1>2, <1>3, <1>4, <1>5, <2>1, <2>2
  <1>9. Loaded(2) => out["drainable_closes"] <= counters'["drainable_closes"]
    BY <1>3, <1>4, <1>5 DEF SnapshotInv
  <1>10. Loaded(3) => out["drainable_closes"] + out["pinned_closes"] <= out["total_closes"] + overlap'
    BY <1>1, <1>5 DEF SnapshotInv
  <1> QED
    BY <1>6, <1>7, <1>8, <1>9, <1>10 DEF SnapshotInv

\* The operations of a call on the way.
LEMMA SnapshotStep ==
    ASSUME ApiInv, SnapshotInv, ApiTypeOK', IsFiniteSet(Threads), NEW t \in Threads,
           UNCHANGED <<mpc, cursor, out, overlap>>,
           Cardinality(Underway') \in Nat, Cardinality(Uncounted') \in Nat,
           Cardinality(Underway') <= Cardinality(Underway),
           counters'["total_closes"] + Cardinality(Uncounted')
              <= counters["total_closes"] + Cardinality(Uncounted),
           counters'["drainable_closes"] >= counters["drainable_closes"],
           counters'["pinned_closes"] >= counters["pinned_closes"]
    PROVE  SnapshotInv'
  <1>1. mpc \in {"snapshot", "snapshot_done"} => overlap' = overlap + 0
    BY DEF SnapshotInv
  <1>2. Cardinality(Underway') <= Cardinality(Underway) + 0
    BY CloseSets
  <1>3. /\ ApiTypeOK
        /\ counters["total_closes"] + Cardinality(Uncounted) \in Nat
    BY CloseSets, CounterNat DEF ApiInv, Typed, CounterNames
  <1>4. counters'["total_closes"] + Cardinality(Uncounted')
           <= counters["total_closes"] + Cardinality(Uncounted) + 0
    BY <1>3
  <1> QED
    BY <1>1, <1>2, <1>3, <1>4, SnapshotBeside

LEMMA StorageSnapshot ==
    ASSUME ApiInv, SnapshotInv, IsFiniteSet(Threads), NEW t \in Threads, StorageMove(t), ApiInv'
    PROVE  SnapshotInv'
  <1>1. /\ pc[t] \notin {"idle", "count_verdict", "done"} /\ pc'[t] \notin {"idle", "count_verdict", "done"}
        /\ \A u \in Threads \ {t} : pc'[u] = pc[u] /\ call'[u] = call[u]
        /\ call'[t] = call[t]
        /\ UNCHANGED <<mpc, cursor, out, counters, overlap>>
    BY DEF StorageMove, StorageOnly, queryVars, historyVars, ApiLabels, Active
  <1>2. /\ Cardinality(Underway') = Cardinality(Underway)
        /\ Cardinality(Uncounted') = Cardinality(Uncounted)
    BY <1>1, CloseSets, CloseMoves, MovedOne
  <1>3. /\ counters["total_closes"] \in Nat /\ counters["drainable_closes"] \in Nat
        /\ counters["pinned_closes"] \in Nat
        /\ Cardinality(Underway) \in Nat /\ Cardinality(Uncounted) \in Nat
        /\ ApiTypeOK /\ ApiTypeOK'
    BY CloseSets, CounterNat DEF ApiInv, Typed, CounterNames
  <1>4. counters["total_closes"] + Cardinality(Uncounted) <= counters["total_closes"] + Cardinality(Uncounted)
    BY <1>3
  <1> QED
    BY <1>1, <1>2, <1>3, <1>4, SnapshotStep

LEMMA CallSnapshot ==
    ASSUME ApiInv, SnapshotInv, IsFiniteSet(Threads), NEW t \in Threads, NEW g \in Granules,
           NEW o, NEW c, {o, c} \cap (ApiLabels \cup {"idle", "ret"}) = {}, ApiCall(t, g, o, c), ApiInv'
    PROVE  SnapshotInv'
  <1>1. /\ pc[t] = "idle" /\ pc'[t] \in {o, c, "count_alloc", "count_dealloc"}
        /\ \A u \in Threads \ {t} : pc'[u] = pc[u] /\ call'[u] = call[u]
        /\ UNCHANGED <<mpc, cursor, out, counters>>
    BY ApiCallFrame DEF ApiInv, queryVars
  <1>2. pc'[t] \notin {"idle", "count_verdict", "done"}
    BY <1>1 DEF ApiLabels
  <1>3. /\ counters["total_closes"] \in Nat /\ counters["drainable_closes"] \in Nat
        /\ counters["pinned_closes"] \in Nat
        /\ Cardinality(Underway) \in Nat /\ Cardinality(Uncounted) \in Nat
        /\ ApiTypeOK /\ ApiTypeOK'
    BY CloseSets, CounterNat DEF ApiInv, Typed, CounterNames
  <1>4. PICK n \in {0, 1} : n = (IF call'[t].fn = "close" THEN 1 ELSE 0) /\ overlap' = overlap + n
    BY DEF ApiCall
  <1>5. /\ Cardinality(Underway') = Cardinality(Underway) + n
        /\ Cardinality(Uncounted') = Cardinality(Uncounted) + n
    <2>1. CASE call'[t].fn = "close"
      <3>1. n = 1
        BY <1>4, <2>1
      <3>2. /\ Cardinality(Underway') = Cardinality(Underway) + 1
            /\ Cardinality(Uncounted') = Cardinality(Uncounted) + 1
        BY <1>1, <1>2, <2>1, CloseSets, CloseMoves, MovedOne
      <3> QED
        BY <3>1, <3>2
    <2>2. CASE call'[t].fn # "close"
      <3>1. n = 0
        BY <1>4, <2>2
      <3>2. /\ Cardinality(Underway') = Cardinality(Underway)
            /\ Cardinality(Uncounted') = Cardinality(Uncounted)
        BY <1>1, <1>2, <2>2, CloseSets, CloseMoves, MovedOne
      <3> QED
        BY <1>3, <3>1, <3>2
    <2> QED
      BY <2>1, <2>2
  <1>6. /\ Cardinality(Underway') \in Nat /\ Cardinality(Uncounted') \in Nat
        /\ Cardinality(Underway') <= Cardinality(Underway) + n
        /\ counters'["total_closes"] + Cardinality(Uncounted')
              <= counters["total_closes"] + Cardinality(Uncounted) + n
        /\ counters'["drainable_closes"] >= counters["drainable_closes"]
        /\ counters'["pinned_closes"] >= counters["pinned_closes"]
    BY <1>1, <1>3, <1>5
  <1> QED
    BY <1>1, <1>3, <1>4, <1>6, SnapshotBeside

LEMMA AnswerSnapshot ==
    ASSUME ApiInv, SnapshotInv, IsFiniteSet(Threads), NEW t \in Threads, ApiReturn(t), ApiInv'
    PROVE  SnapshotInv'
  <1>1. /\ pc[t] \in {"done", "ret"} /\ pc'[t] = "idle"
        /\ \A u \in Threads \ {t} : pc'[u] = pc[u] /\ call'[u] = call[u]
        /\ UNCHANGED <<mpc, cursor, out, counters, overlap>>
    BY AnswerFrame DEF ApiInv, queryVars
  <1>2. /\ counters["total_closes"] \in Nat /\ counters["drainable_closes"] \in Nat
        /\ counters["pinned_closes"] \in Nat
        /\ Cardinality(Underway) \in Nat /\ Cardinality(Uncounted) \in Nat
        /\ ApiTypeOK /\ ApiTypeOK'
    BY CloseSets, CounterNat DEF ApiInv, Typed, CounterNames
  <1>3. t \notin Underway' /\ t \notin Uncounted'
    BY <1>1, CloseMoves
  <1>4. /\ Cardinality(Underway') <= Cardinality(Underway)
        /\ Cardinality(Underway') \in Nat
    BY <1>1, <1>2, <1>3, CloseSets, CloseMoves, MovedOne
  <1>5. /\ Cardinality(Uncounted') <= Cardinality(Uncounted)
        /\ Cardinality(Uncounted') \in Nat
    BY <1>1, <1>2, <1>3, CloseSets, CloseMoves, MovedOne
  <1>6. /\ counters'["total_closes"] + Cardinality(Uncounted')
              <= counters["total_closes"] + Cardinality(Uncounted)
        /\ counters'["drainable_closes"] >= counters["drainable_closes"]
        /\ counters'["pinned_closes"] >= counters["pinned_closes"]
    BY <1>1, <1>2, <1>5
  <1> QED
    BY <1>1, <1>2, <1>4, <1>5, <1>6, SnapshotStep

\* An atomic operation on a counter adds at most one to total_closes, and that
\* for a close which was uncounted until then.
LEMMA CountSnapshot ==
    ASSUME ApiInv, SnapshotInv, VerdictsCounted, VerdictsCounted', IsFiniteSet(Threads),
           NEW t \in Threads, Count(t), ApiInv'
    PROVE  SnapshotInv'
  <1>1. /\ Active(t) /\ pc[t] # "done" /\ pc'[t] # "idle"
        /\ \A u \in Threads \ {t} : pc'[u] = pc[u]
        /\ UNCHANGED <<call, ret, mpc, cursor, out, told, overlap>>
        /\ pc[t] \in Raising \cup {"count_alloc", "count_dealloc"} => call[t].fn # "close"
    BY CountFrame DEF ApiInv, queryVars, CountingInv, Raising, Totalling
  <1>2. ~Resetting /\ ~Resetting'
    BY <1>1, ActiveRuns DEF ApiInv, Resetting
  <1>3. /\ counters["total_closes"] \in Nat /\ counters["drainable_closes"] \in Nat
        /\ counters["pinned_closes"] \in Nat
        /\ Cardinality(Underway) \in Nat /\ Cardinality(Uncounted) \in Nat
        /\ ApiTypeOK /\ ApiTypeOK'
    BY CloseSets, CounterNat DEF ApiInv, Typed, CounterNames
  <1>4. /\ counters'["drainable_closes"] >= counters["drainable_closes"]
        /\ counters'["pinned_closes"] >= counters["pinned_closes"]
    <2>1. \A v : Answered(v) \subseteq Answered(v)'
      BY <1>1 DEF Answered, At, ClosedAs, Drainable
    <2>2. \A v : IsFiniteSet(Answered(v)')
      <3>1. \A v : Answered(v)' \subseteq Threads
        BY DEF Answered, At
      <3> QED
        BY <3>1, FS_Subset
    <2>3. /\ Cardinality(Answered("drainable")) <= Cardinality(Answered("drainable")')
          /\ Cardinality(Answered("pinned")) <= Cardinality(Answered("pinned")')
          /\ Cardinality(Answered("drainable")') \in Nat /\ Cardinality(Answered("pinned")') \in Nat
      BY <2>1, <2>2, FS_Subset, FS_CardinalityType
    <2>4. /\ counters["drainable_closes"] = told.drainable + Cardinality(Answered("drainable"))
          /\ counters["pinned_closes"] = told.pinned + Cardinality(Answered("pinned"))
          /\ counters'["drainable_closes"] = told.drainable + Cardinality(Answered("drainable")')
          /\ counters'["pinned_closes"] = told.pinned + Cardinality(Answered("pinned")')
      BY <1>1, <1>2 DEF VerdictsCounted
    <2>5. told.drainable \in Nat /\ told.pinned \in Nat
      BY DEF ApiInv, Typed, ApiTypeOK
    <2> QED
      BY <2>3, <2>4, <2>5, VerdictSets
  <1>5. /\ \A u \in Threads \ {t} : pc'[u] = pc[u] /\ call'[u] = call[u]
        /\ call'[t] = call[t] /\ pc[t] # "idle"
    BY <1>1 DEF Active
  <1>6. Cardinality(Underway') = Cardinality(Underway)
    BY <1>1, <1>5, CloseSets, CloseMoves, MovedOne
  <1>7. /\ counters'["total_closes"] + Cardinality(Uncounted')
              <= counters["total_closes"] + Cardinality(Uncounted)
        /\ Cardinality(Uncounted') \in Nat
    <2>1. CASE CountTotal(t)
      <3>1. /\ pc[t] = "count_total" /\ pc'[t] = "count_verdict"
            /\ counters' = [counters EXCEPT !["total_closes"] = (@ + 1) % CounterMod]
            /\ call[t].fn = "close"
        BY <2>1 DEF CountTotal, FetchAdd, Goto, ApiInv, Typed, PcIsFun, CountingInv, Totalling
      <3>2. Cardinality(Uncounted') = Cardinality(Uncounted) - 1 /\ Cardinality(Uncounted') \in Nat
        BY <1>5, <3>1, CloseSets, CloseMoves, MovedOne
      <3>3. counters'["total_closes"] = (counters["total_closes"] + 1) % CounterMod
        BY <1>3, <3>1 DEF ApiTypeOK, CounterNames
      <3>4. (counters["total_closes"] + 1) % CounterMod <= counters["total_closes"] + 1
        <4>1. counters["total_closes"] \in 0 .. CounterMod - 1
          BY <1>3, CounterNat DEF CounterNames
        <4> QED
          BY <4>1, CountersAssumption
      <3>5. counters'["total_closes"] \in Nat
        BY <1>3, CountersAssumption DEF ApiTypeOK, CounterNames
      <3> QED
        BY <1>3, <3>2, <3>3, <3>4, <3>5
    <2>2. CASE ~CountTotal(t)
      <3>1. counters'["total_closes"] = counters["total_closes"]
        BY <1>3, <2>2 DEF Count, CountCall, CountOpen, PeakLoad, PeakSwap, CountClose, CountVerdict,
                          FetchAdd, Store, ApiTypeOK, CounterNames
      <3>2. pc[t] \notin {"count_verdict", "done"} /\ call[t].fn = "close"
            => pc'[t] \notin {"count_verdict", "done"}
        BY <1>1, <2>2 DEF Count, CountCall, CountOpen, PeakLoad, PeakSwap, CountClose, CountVerdict,
                          Closed, Goto, ApiInv, Typed, PcIsFun, Raising
      <3>3. pc[t] \in {"count_verdict", "done"} => pc'[t] \in {"count_verdict", "done"}
        BY <1>1, <2>2 DEF Count, CountCall, CountOpen, PeakLoad, PeakSwap, CountClose, CountVerdict,
                          Closed, Goto, ApiInv, Typed, PcIsFun
      <3>4. Cardinality(Uncounted') = Cardinality(Uncounted)
        BY <1>5, <1>1, <3>2, <3>3, CloseSets, CloseMoves, MovedOne
      <3> QED
        BY <1>3, <3>1, <3>4
    <2> QED
      BY <2>1, <2>2
  <1>8. Cardinality(Underway') \in Nat /\ Cardinality(Underway') <= Cardinality(Underway)
    BY <1>3, <1>6
  <1> QED
    BY <1>1, <1>3, <1>4, <1>7, <1>8, SnapshotStep

LEMMA BeginQuerySnapshot ==
    ASSUME ApiInv, IsFiniteSet(Threads), BeginQuery
    PROVE  SnapshotInv'
  <1>1. /\ cursor' = 1 /\ mpc' \in {"snapshot", "sweep"} /\ UNCHANGED clientVars
        /\ overlap' = Cardinality({t \in Threads : Active(t) /\ call[t].fn = "close"})
    BY ApiAssumption DEF BeginQuery
  <1>2. {t \in Threads : Active(t) /\ call[t].fn = "close"} = Underway /\ Underway' = Underway
    BY <1>1 DEF Underway, Calling, Active, clientVars
  <1>3. overlap' \in Nat /\ Cardinality(Underway') <= overlap'
    BY <1>1, <1>2, CloseSets
  <1>4. ~Loaded(1)' /\ ~Loaded(2)' /\ ~Loaded(3)'
    BY <1>1 DEF Loaded
  <1> QED
    BY <1>3, <1>4 DEF SnapshotInv

\* The order of the loads: first the total, then the verdicts.
LEMMA LoadSnapshot ==
    ASSUME ApiInv, SnapshotInv, VerdictsCounted, IsFiniteSet(Threads), SnapshotLoad, ApiInv'
    PROVE  SnapshotInv'
  <1>1. /\ mpc = "snapshot" /\ cursor \in 1 .. 7
        /\ IF cursor < 7 THEN cursor' = cursor + 1 /\ mpc' = mpc
           ELSE cursor' = 0 /\ mpc' = "snapshot_done"
        /\ out' = [out EXCEPT ![SnapshotOrder[cursor]] = counters[SnapshotOrder[cursor]]]
        /\ UNCHANGED <<clientVars, counters, overlap>>
    BY OrderLengths DEF SnapshotLoad, LoadCounter, MonitorOnly, historyVars, ApiInv, Typed, ApiTypeOK
  <1>2. ~Resetting
    BY <1>1 DEF Resetting
  <1>3. /\ counters["total_closes"] \in Nat /\ counters["drainable_closes"] \in Nat
        /\ counters["pinned_closes"] \in Nat
        /\ Cardinality(Underway) \in Nat /\ Cardinality(Uncounted) \in Nat
        /\ Cardinality(Uncounted) <= Cardinality(Underway)
        /\ Cardinality(At("count_verdict")) \in Nat
        /\ Cardinality(At("count_verdict")) <= Cardinality(Underway)
    BY CloseSets, VerdictSets, CounterNat DEF ApiInv, Typed, CounterNames
  <1>4. out \in [CounterNames -> Nat]
    BY DEF ApiInv, Typed, ApiTypeOK
  <1>5. overlap \in Nat /\ Cardinality(Underway) <= overlap
    BY <1>1 DEF SnapshotInv
  <1>6. Underway' = Underway /\ Uncounted' = Uncounted
    BY <1>1 DEF Underway, Uncounted, Calling, Active, clientVars
  <1>7. counters["total_closes"] =
           counters["drainable_closes"] + counters["pinned_closes"] + Cardinality(At("count_verdict"))
    BY <1>2 DEF VerdictsCounted
  <1>8. \A i \in 1 .. 3 : Loaded(i) <=> cursor > i
    BY <1>1 DEF Loaded
  <1>9. \A i \in 1 .. 3 : Loaded(i)' <=> cursor >= i
    BY <1>1 DEF Loaded
  <1>10. Loaded(1) =>
           /\ counters["total_closes"] + Cardinality(Uncounted) <= out["total_closes"] + overlap
           /\ out["total_closes"] <= Shown(2, "drainable_closes") + Shown(3, "pinned_closes") + overlap
    BY <1>1 DEF SnapshotInv
  <1>11. CASE cursor = 1
    <2>1. out' = [out EXCEPT !["total_closes"] = counters["total_closes"]]
      BY <1>1, <1>11 DEF SnapshotOrder
    <2>2. Loaded(1)' /\ ~Loaded(2)' /\ ~Loaded(3)'
      BY <1>9, <1>11
    <2>3. out'["total_closes"] = counters["total_closes"]
      BY <1>4, <2>1 DEF CounterNames
    <2>4. /\ Shown(2, "drainable_closes")' = counters["drainable_closes"]
          /\ Shown(3, "pinned_closes")' = counters["pinned_closes"]
      BY <1>1, <2>2 DEF Shown
    <2>5. /\ counters["total_closes"] + Cardinality(Uncounted) <= counters["total_closes"] + overlap
          /\ counters["total_closes"] <=
                counters["drainable_closes"] + counters["pinned_closes"] + overlap
      BY <1>3, <1>5, <1>7
    <2> QED
      BY <1>1, <1>5, <1>6, <2>2, <2>3, <2>4, <2>5 DEF SnapshotInv
  <1>12. CASE cursor = 2
    <2>1. out' = [out EXCEPT !["drainable_closes"] = counters["drainable_closes"]]
      BY <1>1, <1>12 DEF SnapshotOrder
    <2>2. Loaded(1) /\ ~Loaded(2) /\ ~Loaded(3) /\ Loaded(1)' /\ Loaded(2)' /\ ~Loaded(3)'
      BY <1>8, <1>9, <1>12
    <2>3. /\ out'["total_closes"] = out["total_closes"]
          /\ out'["drainable_closes"] = counters["drainable_closes"]
      BY <1>4, <2>1 DEF CounterNames
    <2>4. /\ Shown(2, "drainable_closes")' = Shown(2, "drainable_closes")
          /\ Shown(3, "pinned_closes")' = Shown(3, "pinned_closes")
      BY <1>1, <2>2, <2>3 DEF Shown
    <2>5. out'["drainable_closes"] <= counters["drainable_closes"]
      BY <1>3, <2>3
    <2> QED
      BY <1>1, <1>5, <1>6, <1>10, <2>2, <2>3, <2>4, <2>5 DEF SnapshotInv
  <1>13. CASE cursor = 3
    <2>1. out' = [out EXCEPT !["pinned_closes"] = counters["pinned_closes"]]
      BY <1>1, <1>13 DEF SnapshotOrder
    <2>2. Loaded(1) /\ Loaded(2) /\ ~Loaded(3) /\ Loaded(1)' /\ Loaded(2)' /\ Loaded(3)'
      BY <1>8, <1>9, <1>13
    <2>3. /\ out'["total_closes"] = out["total_closes"]
          /\ out'["drainable_closes"] = out["drainable_closes"]
          /\ out'["pinned_closes"] = counters["pinned_closes"]
          /\ out["total_closes"] \in Nat /\ out["drainable_closes"] \in Nat
      BY <1>4, <2>1 DEF CounterNames
    <2>4. /\ Shown(2, "drainable_closes")' = Shown(2, "drainable_closes")
          /\ Shown(3, "pinned_closes")' = Shown(3, "pinned_closes")
      BY <1>1, <2>2, <2>3 DEF Shown
    <2>5. out["drainable_closes"] <= counters["drainable_closes"]
      BY <1>1, <2>2 DEF SnapshotInv
    <2>6. out["drainable_closes"] + counters["pinned_closes"] <= out["total_closes"] + overlap
      BY <1>3, <1>5, <1>7, <1>10, <2>2, <2>3, <2>5
    <2> QED
      BY <1>1, <1>5, <1>6, <1>10, <2>2, <2>3, <2>4, <2>5, <2>6 DEF SnapshotInv
  <1>14. CASE cursor \in 4 .. 7
    <2>1. SnapshotOrder[cursor] \in CounterNames \ {"total_closes", "drainable_closes", "pinned_closes"}
      BY <1>14 DEF SnapshotOrder, CounterNames
    <2>2. Loaded(1) /\ Loaded(2) /\ Loaded(3) /\ Loaded(1)' /\ Loaded(2)' /\ Loaded(3)'
      BY <1>8, <1>9, <1>14
    <2>3. /\ out'["total_closes"] = out["total_closes"]
          /\ out'["drainable_closes"] = out["drainable_closes"]
          /\ out'["pinned_closes"] = out["pinned_closes"]
      BY <1>1, <1>4, <2>1 DEF CounterNames
    <2>4. /\ Shown(2, "drainable_closes")' = Shown(2, "drainable_closes")
          /\ Shown(3, "pinned_closes")' = Shown(3, "pinned_closes")
      BY <1>1, <2>2, <2>3 DEF Shown
    <2> QED
      BY <1>1, <1>5, <1>6, <1>10, <2>2, <2>3, <2>4 DEF SnapshotInv
  <1> QED
    BY <1>1, <1>11, <1>12, <1>13, <1>14

\* What the monitor does otherwise.
LEMMA OtherSnapshot ==
    ASSUME SnapshotInv, UNCHANGED <<clientVars, counters, mpc, cursor, out, overlap>>
    PROVE  SnapshotInv'
  <1>1. Underway' = Underway /\ Uncounted' = Uncounted
    BY DEF Underway, Uncounted, Calling, Active, clientVars
  <1>2. /\ Loaded(1)' = Loaded(1) /\ Loaded(2)' = Loaded(2) /\ Loaded(3)' = Loaded(3)
    BY DEF Loaded
  <1>3. /\ Shown(2, "drainable_closes")' = Shown(2, "drainable_closes")
        /\ Shown(3, "pinned_closes")' = Shown(3, "pinned_closes")
    BY <1>2 DEF Shown
  <1> QED
    BY <1>1, <1>2, <1>3 DEF SnapshotInv

LEMMA SnapshotAgrees == SnapshotInv => SnapshotDrift
  BY DEF SnapshotInv, SnapshotDrift, Loaded, Shown

-----------------------------------------------------------------------------
(* What moves during a query                                               *)

LEMMA TransitInit == ASSUME ClientInit, ApiInit PROVE TransitInv
  BY DEF ClientInit, ApiInit, TransitInv, Active

\* A call is active on a granule that has moved, and an open or a close is the
\* call that its granule is in transit for.
LEMMA CallTransit ==
    ASSUME Typed, TransitInv, NEW t \in Threads, NEW g \in Granules, NEW o, NEW c,
           {o, c} \cap (ApiLabels \cup {"idle", "ret"}) = {}, ApiCall(t, g, o, c)
    PROVE  /\ TransitInv'
           /\ moved' = moved \cup {g}
           /\ \A h \in Granules \ {g} : phase'[h] = phase[h] /\ held'[h] = held[h]
  <1>1. /\ pc[t] = "idle" /\ call'[t].id = g /\ pc'[t] \in {o, c, "count_alloc", "count_dealloc"}
        /\ \A u \in Threads \ {t} : pc'[u] = pc[u] /\ call'[u] = call[u]
        /\ \E f \in {c, "count_alloc", "count_dealloc"} : ClientCall(t, g, o, f)
        /\ UNCHANGED queryVars
    BY ApiCallFrame
  <1>2. /\ \A h \in Granules \ {g} : phase'[h] = phase[h] /\ held'[h] = held[h]
        /\ phase'[g] = phase[g] \/ call'[t].fn \in {"open", "close"}
    BY <1>1, CallPhase DEF Typed
  <1>3. moved' = moved \cup {g} /\ UNCHANGED mpc
    BY <1>1 DEF ApiCall, queryVars
  <1>4. Active(t)' /\ ~Active(t) /\ \A u \in Threads \ {t} : Active(u)' = Active(u)
    BY <1>1 DEF Active
  <1>5. \A u \in Threads : mpc' # "idle" /\ ~Resetting' /\ Active(u)' => call'[u].id \in moved'
    BY <1>1, <1>3, <1>4 DEF TransitInv, Resetting
  <1>6. ASSUME NEW h \in Granules, phase'[h] \in {"opening", "closing"}
        PROVE  \E u \in Threads : Active(u)' /\ call'[u].id = h /\ call'[u].fn \in {"open", "close"}
    <2>1. CASE phase'[h] = phase[h]
      <3>1. PICK u \in Threads : Active(u) /\ call[u].id = h /\ call[u].fn \in {"open", "close"}
        BY <1>6, <2>1 DEF TransitInv
      <3> QED
        BY <1>1, <1>4, <3>1
    <2>2. CASE h = g /\ call'[t].fn \in {"open", "close"}
      BY <1>1, <1>4, <2>2
    <2> QED
      BY <1>2, <2>1, <2>2
  <1> QED
    BY <1>2, <1>3, <1>5, <1>6 DEF TransitInv

\* An operation changes none of that,
LEMMA SameTransit ==
    ASSUME TransitInv, UNCHANGED <<call, phase, mpc, moved>>, \A u \in Threads : Active(u)' = Active(u)
    PROVE  TransitInv'
  BY DEF TransitInv, Resetting

\* and an answer ends it.
LEMMA AnswerTransit ==
    ASSUME Typed, CountingInv, TransitInv, NEW t \in Threads, ApiReturn(t)
    PROVE  /\ TransitInv' /\ UNCHANGED <<moved, mpc, cursor, out>>
           /\ Active(t) /\ call[t].id \in Granules
           /\ \A h \in Granules \ {call[t].id} : phase'[h] = phase[h] /\ held'[h] = held[h]
  <1>1. /\ ClientReturn(t) /\ Active(t) /\ ~Active(t)'
        /\ \A u \in Threads \ {t} : Active(u)' = Active(u) /\ call'[u] = call[u]
        /\ UNCHANGED <<moved, mpc, cursor, out>>
    BY AnswerFrame DEF Active, queryVars
  <1>2. /\ \A h \in Granules \ {call[t].id} : phase'[h] = phase[h] /\ held'[h] = held[h]
        /\ call[t].fn \in {"open", "close"} => phase'[call[t].id] \in {"open", "closed"}
        /\ call[t].fn \notin {"open", "close"} => UNCHANGED phase
    BY <1>1, ReturnFrame, ReturnPhase DEF Typed
  <1>3. call[t].id \in Granules
    BY <1>1 DEF Typed, ClientTypeOK, Calls
  <1>4. \A u \in Threads : mpc' # "idle" /\ ~Resetting' /\ Active(u)' => call'[u].id \in moved'
    BY <1>1 DEF TransitInv, Resetting
  <1>5. ASSUME NEW h \in Granules, phase'[h] \in {"opening", "closing"}
        PROVE  \E u \in Threads : Active(u)' /\ call'[u].id = h /\ call'[u].fn \in {"open", "close"}
    <2>1. phase'[h] = phase[h] /\ ~(h = call[t].id /\ call[t].fn \in {"open", "close"})
      BY <1>2, <1>5
    <2>2. PICK u \in Threads : Active(u) /\ call[u].id = h /\ call[u].fn \in {"open", "close"}
      BY <1>5, <2>1 DEF TransitInv
    <2> QED
      BY <1>1, <2>1, <2>2
  <1> QED
    BY <1>1, <1>2, <1>3, <1>4, <1>5 DEF TransitInv

\* When a query begins, the active calls are all that has moved.
LEMMA BeginQueryTransit ==
    ASSUME Typed, TransitInv, BeginQuery
    PROVE  TransitInv'
  <1>1. UNCHANGED <<pc, call, phase>> /\ moved' = {call[t].id : t \in {u \in Threads : Active(u)}}
    BY DEF BeginQuery, clientVars, bookVars
  <1>2. \A t \in Threads : Active(t) => call[t].id \in moved'
    BY <1>1
  <1> QED
    BY <1>1, <1>2 DEF TransitInv, Active
-----------------------------------------------------------------------------
(* The sweeps, over a storage that keeps granule g in slot home[g]          *)

Apart(home) ==
    /\ home \in [Granules -> 0 .. Capacity - 1]
    /\ \A g, h \in Granules : home[g] = home[h] => g = h

\* What a query sees of a step of a thread: granules that do not move keep their
\* phase and their allocations.
Beside ==
    /\ UNCHANGED <<mpc, cursor, out>>
    /\ moved \subseteq moved'
    /\ \A h \in Granules : h \in moved' \/ (phase'[h] = phase[h] /\ held'[h] = held[h])

LEMMA CallBeside ==
    ASSUME Typed, TransitInv, NEW t \in Threads, NEW g \in Granules, NEW o, NEW c,
           {o, c} \cap (ApiLabels \cup {"idle", "ret"}) = {}, ApiCall(t, g, o, c)
    PROVE  TransitInv' /\ Beside
  BY CallTransit DEF Beside, ApiCall, queryVars

LEMMA StorageBeside ==
    ASSUME Typed, TransitInv, NEW t \in Threads, StorageMove(t)
    PROVE  TransitInv' /\ Beside
  <1>1. /\ UNCHANGED <<call, bookVars, mpc, cursor, out, moved>>
        /\ \A u \in Threads : Active(u)' = Active(u)
    BY DEF Active, StorageMove, StorageOnly, ApiLabels, queryVars, historyVars
  <1> QED
    BY <1>1, SameTransit DEF Beside, bookVars

LEMMA CountBeside ==
    ASSUME Typed, CountingInv, TransitInv, NEW t \in Threads, Count(t)
    PROVE  TransitInv' /\ Beside
  <1>1. /\ UNCHANGED <<call, bookVars, mpc, cursor, out, moved>>
        /\ \A u \in Threads : Active(u)' = Active(u)
    BY CountFrame DEF Active, queryVars, Totalling
  <1> QED
    BY <1>1, SameTransit DEF Beside, bookVars

LEMMA AnswerBeside ==
    ASSUME Typed, CountingInv, TransitInv, NEW t \in Threads, ApiReturn(t)
    PROVE  /\ TransitInv' /\ UNCHANGED mpc
           /\ mpc # "idle" /\ ~Resetting => Beside
  BY AnswerTransit DEF Beside, TransitInv

\* Who has been swept, before a step
LEMMA SweptNow ==
    ASSUME NEW home
    PROVE  /\ \A g : g \in SweptIdle(home) <=>
                  /\ g \in Granules /\ g \notin moved /\ phase[g] = "open" /\ held[g] = 0
                  /\ mpc = "sweep_done" \/ (mpc \in SlotLoads /\ home[g] < cursor)
           /\ \A g : g \in SweptBusy(home) <=>
                  /\ g \in Granules /\ g \notin moved /\ phase[g] = "open" /\ held[g] > 0
                  /\ mpc = "sweep_done" \/ (mpc \in SlotLoads /\ home[g] < cursor)
           /\ \A g : g \in SweptAll(home) <=>
                  /\ g \in moved \/ (g \in Granules /\ phase[g] = "open")
                  /\ mpc = "sweep_done" \/ (mpc \in SlotLoads /\ home[g] < cursor)
           /\ \A g : g \in Sweepable <=> g \in moved \/ (g \in Granules /\ phase[g] = "open")
  BY DEF SweptIdle, SweptBusy, SweptAll, Sweepable, Still, Swept

\* and after it.
LEMMA SweptNext ==
    ASSUME NEW home
    PROVE  /\ \A g : g \in SweptIdle(home)' <=>
                  /\ g \in Granules /\ g \notin moved' /\ phase'[g] = "open" /\ held'[g] = 0
                  /\ mpc' = "sweep_done" \/ (mpc' \in SlotLoads /\ home[g] < cursor')
           /\ \A g : g \in SweptBusy(home)' <=>
                  /\ g \in Granules /\ g \notin moved' /\ phase'[g] = "open" /\ held'[g] > 0
                  /\ mpc' = "sweep_done" \/ (mpc' \in SlotLoads /\ home[g] < cursor')
           /\ \A g : g \in SweptAll(home)' <=>
                  /\ g \in moved' \/ (g \in Granules /\ phase'[g] = "open")
                  /\ mpc' = "sweep_done" \/ (mpc' \in SlotLoads /\ home[g] < cursor')
           /\ \A g : g \in Sweepable' <=> g \in moved' \/ (g \in Granules /\ phase'[g] = "open")
  BY DEF SweptIdle, SweptBusy, SweptAll, Sweepable, Still, Swept, SlotLoads

\* As many granules as slots, at most.
LEMMA HousedFinite == ASSUME NEW home, Apart(home) PROVE IsFiniteSet(Granules)
  <1>1. home \in Injection(Granules, 0 .. Capacity - 1)
    BY DEF Apart, Injection, IsInjective
  <1>2. IsFiniteSet(0 .. Capacity - 1)
    BY CapacityPositive, FS_Interval
  <1> QED
    BY <1>1, <1>2, FS_Injection

LEMMA SweptFinite ==
    ASSUME NEW home, Apart(home), Typed, Typed'
    PROVE  /\ IsFiniteSet(SweptIdle(home)) /\ IsFiniteSet(SweptIdle(home)')
           /\ IsFiniteSet(SweptBusy(home)) /\ IsFiniteSet(SweptBusy(home)')
           /\ IsFiniteSet(SweptAll(home))  /\ IsFiniteSet(SweptAll(home)')
           /\ Cardinality(SweptIdle(home)) \in Nat /\ Cardinality(SweptIdle(home)') \in Nat
           /\ Cardinality(SweptBusy(home)) \in Nat /\ Cardinality(SweptBusy(home)') \in Nat
           /\ Cardinality(SweptAll(home)) \in Nat  /\ Cardinality(SweptAll(home)') \in Nat
           /\ out \in [CounterNames -> Nat] /\ out' \in [CounterNames -> Nat]
  <1>1. /\ moved \subseteq Granules /\ moved' \subseteq Granules
        /\ out \in [CounterNames -> Nat] /\ out' \in [CounterNames -> Nat]
    BY DEF Typed, ApiTypeOK
  <1>2. /\ SweptIdle(home) \subseteq Granules /\ SweptIdle(home)' \subseteq Granules
        /\ SweptBusy(home) \subseteq Granules /\ SweptBusy(home)' \subseteq Granules
        /\ SweptAll(home) \subseteq Granules  /\ SweptAll(home)' \subseteq Granules
    BY <1>1, SweptNow, SweptNext
  <1>3. \A S \in SUBSET Granules : IsFiniteSet(S) /\ Cardinality(S) \in Nat
    BY HousedFinite, FS_Subset, FS_CardinalityType
  <1> QED
    BY <1>1, <1>2, <1>3

\* A step beside the sweep can only move granules.
LEMMA SweepBeside ==
    ASSUME NEW home, Apart(home), Typed, Typed', SweepInv(home),
           mpc # "idle" /\ ~Resetting => Beside, UNCHANGED mpc
    PROVE  SweepInv(home)'
  <1> SUFFICES ASSUME mpc' \in {"sweep", "sweep_done"} \cup SlotLoads
               PROVE  /\ Cardinality(SweptIdle(home)') <= out'["drainable_closes"]
                      /\ Cardinality(SweptBusy(home)') <= out'["pinned_closes"]
                      /\ out'["total_closes"] <= Cardinality(SweptAll(home)')
                      /\ mpc' = "sweep_live" => \E g \in Sweepable' : home[g] = cursor'
    BY DEF SweepInv, SlotLoads
  <1>1. Beside
    BY DEF Resetting, SlotLoads
  <1>2. UNCHANGED <<mpc, cursor, out>> /\ moved \subseteq moved'
    BY <1>1 DEF Beside
  <1>3. SweptIdle(home)' \subseteq SweptIdle(home) /\ SweptBusy(home)' \subseteq SweptBusy(home)
    BY <1>1, <1>2, SweptNow, SweptNext DEF Beside
  <1>4. SweptAll(home) \subseteq SweptAll(home)' /\ Sweepable \subseteq Sweepable'
    BY <1>1, <1>2, SweptNow, SweptNext DEF Beside
  <1>5. /\ Cardinality(SweptIdle(home)') <= Cardinality(SweptIdle(home))
        /\ Cardinality(SweptBusy(home)') <= Cardinality(SweptBusy(home))
        /\ Cardinality(SweptAll(home)) <= Cardinality(SweptAll(home)')
    BY <1>3, <1>4, SweptFinite, FS_Subset
  <1>6. {"drainable_closes", "pinned_closes", "total_closes"} \subseteq CounterNames
    BY DEF CounterNames
  <1>7. /\ Cardinality(SweptIdle(home)) <= out["drainable_closes"]
        /\ Cardinality(SweptBusy(home)) <= out["pinned_closes"]
        /\ out["total_closes"] <= Cardinality(SweptAll(home))
        /\ mpc = "sweep_live" => \E g \in Sweepable : home[g] = cursor
    BY <1>2 DEF SweepInv
  <1> QED
    BY <1>2, <1>4, <1>5, <1>6, <1>7, SweptFinite

\* Going on to the next slot leaves the granule of this slot behind.
LEMMA SweepAdvance ==
    ASSUME NEW home, Apart(home), Typed, NextSlot, mpc \in SlotLoads, UNCHANGED <<moved, phase, held>>
    PROVE  /\ mpc' \in {"sweep_occupied", "sweep_done"}
           /\ \A g : g \in SweptIdle(home)' <=>
                  \/ g \in SweptIdle(home)
                  \/ g \in Granules /\ g \notin moved /\ phase[g] = "open" /\ held[g] = 0 /\ home[g] = cursor
           /\ \A g : g \in SweptBusy(home)' <=>
                  \/ g \in SweptBusy(home)
                  \/ g \in Granules /\ g \notin moved /\ phase[g] = "open" /\ held[g] > 0 /\ home[g] = cursor
           /\ \A g : g \in SweptAll(home)' <=>
                  g \in SweptAll(home) \/ (g \in Sweepable /\ home[g] = cursor)
  <1>1. moved \subseteq Granules /\ Capacity \in Nat \ {0} /\ cursor \in 0 .. Capacity - 1
    BY CapacityPositive DEF Typed, ApiTypeOK, SlotLoads
  <1>2. \A g \in Granules : home[g] \in 0 .. Capacity - 1
    BY DEF Apart
  <1>3. \A g \in Granules :
          (mpc' = "sweep_done" \/ (mpc' \in SlotLoads /\ home[g] < cursor'))
          <=> home[g] < cursor \/ home[g] = cursor
    <2>1. CASE cursor + 1 < Capacity /\ cursor' = cursor + 1 /\ mpc' = "sweep_occupied"
      BY <1>1, <1>2, <2>1 DEF SlotLoads
    <2>2. CASE ~(cursor + 1 < Capacity) /\ mpc' = "sweep_done"
      BY <1>1, <1>2, <2>2
    <2> QED
      BY <2>1, <2>2 DEF NextSlot
  <1>4. mpc' \in {"sweep_occupied", "sweep_done"} /\ mpc # "sweep_done"
    BY DEF NextSlot, SlotLoads
  <1> QED
    BY <1>1, <1>3, <1>4, SweptNow, SweptNext

\* A union is at most as large as its parts together.
LEMMA UnionBound ==
    ASSUME NEW S, NEW T, IsFiniteSet(S), IsFiniteSet(T)
    PROVE  /\ IsFiniteSet(S \cup T) /\ Cardinality(S) \in Nat /\ Cardinality(T) \in Nat
           /\ Cardinality(S \cup T) <= Cardinality(S) + Cardinality(T)
  <1>1. /\ IsFiniteSet(S \cup T)
        /\ Cardinality(S \cup T) = Cardinality(S) + Cardinality(T) - Cardinality(S \cap T)
    BY FS_Union
  <1>2. IsFiniteSet(S \cap T)
    BY FS_Subset
  <1>3. Cardinality(S) \in Nat /\ Cardinality(T) \in Nat /\ Cardinality(S \cap T) \in Nat
    BY <1>2, FS_CardinalityType
  <1> QED
    BY <1>1, <1>3

\* A set with at most one element more is at most one larger.
LEMMA PlusOne ==
    ASSUME NEW S, NEW T, NEW x, IsFiniteSet(S), T \subseteq S \cup {x}
    PROVE  Cardinality(T) <= Cardinality(S) + 1
  <1>1. IsFiniteSet(S \cup {x}) /\ Cardinality(S) \in Nat
    BY FS_AddElement, FS_CardinalityType
  <1>2. Cardinality(S \cup {x}) = IF x \in S THEN Cardinality(S) ELSE Cardinality(S) + 1
    BY FS_AddElement
  <1>3. Cardinality(T) <= Cardinality(S \cup {x}) /\ Cardinality(T) \in Nat
    BY <1>1, FS_Subset, FS_CardinalityType
  <1> QED
    BY <1>1, <1>2, <1>3

\* A sweep passes a slot only if its granule is not open, or has moved, and counts
\* a slot only if it has a granule.
LEMMA SweepTests ==
    ASSUME NEW home, Apart(home), Typed, Typed', SweepInv(home),
           NEW w \in SlotLoads, NEW l \in SlotLoads, NEW o, SweepTest(w, o, l),
           o /\ l = "sweep_live" => \E g \in Sweepable : home[g] = cursor,
           ~o => \A g \in Still : home[g] # cursor
    PROVE  SweepInv(home)'
  <1>0. /\ mpc = w /\ mpc \in SlotLoads /\ UNCHANGED <<moved, out, phase, held>>
        /\ "total_closes" \in CounterNames
    BY DEF SweepTest, MonitorOnly, historyVars, clientVars, bookVars, CounterNames
  <1>1. /\ Cardinality(SweptIdle(home)) <= out["drainable_closes"]
        /\ Cardinality(SweptBusy(home)) <= out["pinned_closes"]
        /\ out["total_closes"] <= Cardinality(SweptAll(home))
    BY <1>0 DEF SweepInv
  <1>2. CASE o
    <2>1. mpc' = l /\ cursor' = cursor
      BY <1>2 DEF SweepTest
    <2>2. /\ SweptIdle(home)' = SweptIdle(home) /\ SweptBusy(home)' = SweptBusy(home)
          /\ SweptAll(home)' = SweptAll(home) /\ Sweepable' = Sweepable
      BY <1>0, <2>1, SweptNow, SweptNext DEF SlotLoads
    <2> QED
      BY <1>0, <1>1, <1>2, <2>1, <2>2 DEF SweepInv
  <1>3. CASE ~o
    <2>1. NextSlot
      BY <1>3 DEF SweepTest
    <2>2. ~ \E g \in Granules : g \notin moved /\ phase[g] = "open" /\ home[g] = cursor
      BY <1>3 DEF Still
    <2>3. /\ SweptIdle(home)' = SweptIdle(home) /\ SweptBusy(home)' = SweptBusy(home)
          /\ SweptAll(home) \subseteq SweptAll(home)' /\ mpc' # "sweep_live"
      BY <1>0, <2>1, <2>2, SweepAdvance
    <2>4. Cardinality(SweptAll(home)) <= Cardinality(SweptAll(home)')
      BY <2>3, SweptFinite, FS_Subset
    <2> QED
      BY <1>0, <1>1, <2>3, <2>4, SweptFinite DEF SweepInv
  <1> QED
    BY <1>2, <1>3

\* and counts it with the verdict of its granule, unless that has moved.
LEMMA SweepCounts ==
    ASSUME NEW home, Apart(home), Typed, Typed', SweepInv(home), mpc = "sweep_live",
           NEW n, SweepCount(n), \A g \in Still : home[g] = cursor => n = held[g]
    PROVE  SweepInv(home)'
  <1> DEFINE f == IF n = 0 THEN "drainable_closes" ELSE "pinned_closes"
  <1>0. /\ NextSlot /\ mpc \in SlotLoads /\ UNCHANGED <<moved, phase, held>>
        /\ out' = [out EXCEPT ![f] = @ + 1, !["total_closes"] = @ + 1]
    BY DEF SweepCount, MonitorOnly, historyVars, clientVars, bookVars, SlotLoads
  <1>1. /\ Cardinality(SweptIdle(home)) <= out["drainable_closes"]
        /\ Cardinality(SweptBusy(home)) <= out["pinned_closes"]
        /\ out["total_closes"] <= Cardinality(SweptAll(home))
    BY <1>0 DEF SweepInv
  <1>2. /\ out \in [CounterNames -> Nat] /\ out'["total_closes"] = out["total_closes"] + 1
        /\ n = 0 => /\ out'["drainable_closes"] = out["drainable_closes"] + 1
                    /\ out'["pinned_closes"] = out["pinned_closes"]
        /\ n # 0 => /\ out'["drainable_closes"] = out["drainable_closes"]
                    /\ out'["pinned_closes"] = out["pinned_closes"] + 1
        /\ {"drainable_closes", "pinned_closes", "total_closes"} \subseteq CounterNames
    <2>1. out \in [CounterNames -> Nat]
      BY SweptFinite
    <2> QED
      BY <1>0, <2>1 DEF CounterNames
  <1>3. PICK g0 \in Sweepable : home[g0] = cursor
    BY <1>0 DEF SweepInv
  <1>4. g0 \in Granules /\ \A g \in Granules : home[g] = cursor => g = g0
    BY <1>3 DEF Sweepable, Apart, Typed, ApiTypeOK
  <1>5. g0 \notin SweptAll(home)
    BY <1>0, <1>3, <1>4, SweptNow DEF Apart
  <1>6. SweptAll(home)' = SweptAll(home) \cup {g0}
    BY <1>0, <1>3, <1>4, SweepAdvance DEF Sweepable, Typed, ApiTypeOK
  <1>7. Cardinality(SweptAll(home)') = Cardinality(SweptAll(home)) + 1
    BY <1>5, <1>6, SweptFinite, FS_AddElement
  <1>8. g0 \notin moved /\ phase[g0] = "open" => n = held[g0]
    BY <1>3, <1>4 DEF Still
  <1>9. CASE n = 0
    <2>1. SweptBusy(home)' = SweptBusy(home)
      <3>1. \A g : g \in SweptBusy(home)' <=>
                \/ g \in SweptBusy(home)
                \/ g \in Granules /\ g \notin moved /\ phase[g] = "open" /\ held[g] > 0 /\ home[g] = cursor
        BY <1>0, SweepAdvance
      <3>2. ~ \E g \in Granules : g \notin moved /\ phase[g] = "open" /\ held[g] > 0 /\ home[g] = cursor
        BY <1>4, <1>8, <1>9
      <3> QED
        BY <3>1, <3>2
    <2>2. SweptIdle(home)' \subseteq SweptIdle(home) \cup {g0}
      BY <1>0, <1>3, <1>4, SweepAdvance
    <2>3. Cardinality(SweptIdle(home)') <= Cardinality(SweptIdle(home)) + 1
      BY <2>2, SweptFinite, PlusOne
    <2> QED
      BY <1>0, <1>1, <1>2, <1>7, <1>9, <2>1, <2>3, SweepAdvance, SweptFinite DEF SweepInv
  <1>10. CASE n # 0
    <2>1. SweptIdle(home)' = SweptIdle(home)
      <3>1. \A g : g \in SweptIdle(home)' <=>
                \/ g \in SweptIdle(home)
                \/ g \in Granules /\ g \notin moved /\ phase[g] = "open" /\ held[g] = 0 /\ home[g] = cursor
        BY <1>0, SweepAdvance
      <3>2. ~ \E g \in Granules : g \notin moved /\ phase[g] = "open" /\ held[g] = 0 /\ home[g] = cursor
        BY <1>4, <1>8, <1>10
      <3> QED
        BY <3>1, <3>2
    <2>2. SweptBusy(home)' \subseteq SweptBusy(home) \cup {g0}
      BY <1>0, <1>3, <1>4, SweepAdvance
    <2>3. Cardinality(SweptBusy(home)') <= Cardinality(SweptBusy(home)) + 1
      BY <2>2, SweptFinite, PlusOne
    <2> QED
      BY <1>0, <1>1, <1>2, <1>7, <1>10, <2>1, <2>3, SweepAdvance, SweptFinite DEF SweepInv
  <1> QED
    BY <1>9, <1>10

\* A sweep begins with nothing behind it.
LEMMA SweepBegins ==
    ASSUME NEW home, Apart(home), Typed, Typed', SweepInv(home), BeginQuery \/ SweepLoad
    PROVE  SweepInv(home)'
  <1>1. /\ mpc' \in {"snapshot", "sweep"} \/ (mpc' = "sweep_occupied" /\ cursor' = 0)
        /\ mpc' = "snapshot" \/ out'["total_closes"] = 0
    <2>1. CASE BeginQuery
      BY <2>1, ApiAssumption DEF BeginQuery, NoCounts, CounterNames
    <2>2. CASE SweepLoad
      <3>1. /\ mpc = "sweep" /\ cursor \in 1 .. 4 /\ out \in [CounterNames -> Nat]
            /\ out' = [out EXCEPT ![SweepOrder[cursor]] = counters[SweepOrder[cursor]]]
            /\ mpc' = "sweep" \/ (mpc' = "sweep_occupied" /\ cursor' = 0)
        BY <2>2 DEF SweepLoad, LoadCounter, Typed, ApiTypeOK, SweepOrder
      <3>2. SweptAll(home) = {}
        BY <3>1, SweptNow DEF SlotLoads
      <3>3. out["total_closes"] = 0
        <4>1. out["total_closes"] <= 0 /\ out["total_closes"] \in Nat
          BY <3>1, <3>2, FS_EmptySet DEF SweepInv, CounterNames
        <4> QED
          BY <4>1
      <3>4. SweepOrder[cursor] # "total_closes" /\ "total_closes" \in CounterNames
        BY <3>1 DEF SweepOrder, CounterNames
      <3> QED
        BY <3>1, <3>3, <3>4
    <2> QED
      BY <2>1, <2>2
  <1>2. mpc' # "snapshot" => SweptIdle(home)' = {} /\ SweptBusy(home)' = {}
    <2>1. \A g \in Granules : home[g] \in Nat
      BY CapacityPositive DEF Apart
    <2> QED
      BY <1>1, <2>1, SweptNext DEF SlotLoads
  <1>3. /\ mpc' # "sweep_live"
        /\ mpc' = "snapshot" => mpc' \notin {"sweep", "sweep_done"} \cup SlotLoads
    BY <1>1 DEF SlotLoads
  <1> QED
    BY <1>1, <1>2, <1>3, SweptFinite, FS_EmptySet DEF SweepInv, CounterNames

\* At the end of a sweep every slot has been swept.
LEMMA SweptInTheEnd ==
    ASSUME NEW home, Apart(home), Typed, SweepInv(home)
    PROVE  SweepBounds
  <1> SUFFICES ASSUME mpc = "sweep_done"
               PROVE  LET idle == Cardinality({g \in Still : held[g] = 0})
                          busy == Cardinality({g \in Still : held[g] > 0})
                      IN  /\ idle <= out["drainable_closes"]
                          /\ busy <= out["pinned_closes"]
                          /\ out["total_closes"] <= idle + busy + Cardinality(moved)
    BY DEF SweepBounds
  <1> DEFINE I == SweptIdle(home)
             B == SweptBusy(home)
             A == SweptAll(home)
  <1>0. moved \subseteq Granules /\ held \in [Granules -> Nat] /\ out["total_closes"] \in Nat
    BY DEF Typed, ClientTypeOK, ApiTypeOK, CounterNames
  <1>1. {g \in Still : held[g] = 0} = I /\ {g \in Still : held[g] > 0} = B
    BY DEF SweptIdle, SweptBusy, Swept
  <1>2. A \subseteq (I \cup B) \cup moved
    BY <1>0, SweptNow
  <1>3. IsFiniteSet(I) /\ IsFiniteSet(B) /\ IsFiniteSet(moved) /\ IsFiniteSet(A)
    <2>1. I \subseteq Granules /\ B \subseteq Granules /\ A \subseteq Granules
      BY <1>0, SweptNow
    <2> QED
      BY <1>0, <2>1, HousedFinite, FS_Subset
  <1>4. /\ IsFiniteSet(I \cup B) /\ Cardinality(I \cup B) <= Cardinality(I) + Cardinality(B)
        /\ Cardinality(I) \in Nat /\ Cardinality(B) \in Nat
    BY <1>3, UnionBound
  <1>5. /\ IsFiniteSet((I \cup B) \cup moved)
        /\ Cardinality((I \cup B) \cup moved) <= Cardinality(I \cup B) + Cardinality(moved)
        /\ Cardinality(moved) \in Nat /\ Cardinality(I \cup B) \in Nat
        /\ Cardinality((I \cup B) \cup moved) \in Nat
    BY <1>3, <1>4, UnionBound, FS_CardinalityType
  <1>6. Cardinality(A) <= Cardinality((I \cup B) \cup moved)
    BY <1>2, <1>5, FS_Subset
  <1>7. Cardinality(A) \in Nat
    BY <1>3, FS_CardinalityType
  <1>8. /\ Cardinality(I) <= out["drainable_closes"] /\ Cardinality(B) <= out["pinned_closes"]
        /\ out["total_closes"] <= Cardinality(A)
    BY DEF SweepInv
  <1>9. out["total_closes"] <= Cardinality(I) + Cardinality(B) + Cardinality(moved)
    BY <1>0, <1>4, <1>5, <1>6, <1>7, <1>8
  <1> QED
    BY <1>1, <1>8, <1>9
=============================================================================
