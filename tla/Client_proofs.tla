----------------------------- MODULE Client_proofs -----------------------------
(***************************************************************************)
(* What the proofs about every storage share: a call made under the        *)
(* contract, an operation of the storage and an answer keep the types and  *)
(* the contract of module Client.                                          *)
(***************************************************************************)
EXTENDS Client, FiniteSetTheorems, TLAPS

\* Every thread is somewhere.
PcIsFun == pc = [t \in Threads |-> pc[t]]

\* A call of thread t for granule g, by the operation its function starts with.
ClientCall(t, g, o, f) ==
    \/ CallOpen(t, g, o)
    \/ CallClose(t, g, f)
    \/ CallAlloc(t, g, f)
    \/ CallDealloc(t, g, f)
    \/ CallLateDealloc(t, g, f)

\* A call starts one idle thread, and leaves the others where they are.
LEMMA CallFrame ==
    ASSUME ClientTypeOK, PcIsFun, NEW o, NEW f, o # "idle", f # "idle",
           NEW t \in Threads, NEW g \in Granules, ClientCall(t, g, o, f)
    PROVE  /\ pc[t] = "idle"
           /\ pc' = [pc EXCEPT ![t] = IF call'[t].fn = "open" THEN o ELSE f]
           /\ call'[t].id = g /\ call'[t] \in Calls /\ UNCHANGED ret
           /\ \A u \in Threads \ {t} : pc'[u] = pc[u] /\ call'[u] = call[u]
<1> USE DEF PcIsFun, ClientTypeOK, ClientCall, Enter, Calls
<1>1. CASE CallOpen(t, g, o)         BY <1>1 DEF CallOpen
<1>2. CASE CallClose(t, g, f)        BY <1>2 DEF CallClose
<1>3. CASE CallAlloc(t, g, f)        BY <1>3 DEF CallAlloc
<1>4. CASE CallDealloc(t, g, f)      BY <1>4 DEF CallDealloc
<1>5. CASE CallLateDealloc(t, g, f)  BY <1>5 DEF CallLateDealloc
<1> QED BY <1>1, <1>2, <1>3, <1>4, <1>5

\* A call keeps the types.
LEMMA CallType ==
    ASSUME ClientTypeOK, PcIsFun, NEW o, NEW f, o # "idle", f # "idle",
           NEW t \in Threads, NEW g \in Granules, ClientCall(t, g, o, f)
    PROVE  ClientTypeOK'
<1> USE DEF PcIsFun, ClientTypeOK, Enter, Calls, Active, bookVars
<1>1. CASE CallOpen(t, g, o)         BY <1>1, ClientAssumption DEF CallOpen
<1>2. CASE CallClose(t, g, f)        BY <1>2 DEF CallClose
<1>3. CASE CallAlloc(t, g, f)        BY <1>3 DEF CallAlloc
<1>4. CASE CallDealloc(t, g, f)      BY <1>4 DEF CallDealloc
<1>5. CASE CallLateDealloc(t, g, f)  BY <1>5 DEF CallLateDealloc
<1> QED BY <1>1, <1>2, <1>3, <1>4, <1>5 DEF ClientCall

\* A call made under the contract keeps it.
LEMMA CallContract ==
    ASSUME ClientTypeOK, ContractInv, PcIsFun, NEW o, NEW f, o # "idle", f # "idle",
           NEW t \in Threads, NEW g \in Granules, ClientCall(t, g, o, f)
    PROVE  ContractInv'
<1>1. /\ pc[t] = "idle" /\ pc'[t] # "idle" /\ call'[t].id = g
      /\ \A u \in Threads \ {t} : pc'[u] = pc[u] /\ call'[u] = call[u]
  <2>1. /\ pc[t] = "idle" /\ call'[t].id = g
        /\ pc' = [pc EXCEPT ![t] = IF call'[t].fn = "open" THEN o ELSE f]
        /\ \A u \in Threads \ {t} : pc'[u] = pc[u] /\ call'[u] = call[u]
        BY CallFrame
  <2> QED BY <2>1 DEF PcIsFun
<1> USE DEF PcIsFun, ClientTypeOK, bookVars, Active, Calling, ContractInv
<1>2. \A u \in Threads : Active(u) => call[u].id \in Granules
      BY DEF Calls
<1>3. CASE CallOpen(t, g, o)
  <2>1. call'[t].fn = "open" /\ phase[g] = "closed" /\ opens[g] < MaxOpens
        BY <1>3 DEF CallOpen, Enter
  <2>2. /\ phase' = [phase EXCEPT ![g] = "opening"]
        /\ opens' = [opens EXCEPT ![g] = @ + 1]
        /\ UNCHANGED <<held, stale>>
        BY <1>3 DEF CallOpen
  <2>3. opens'[g] > 0 /\ opens[g] \in Nat /\ opens[g] # MaxOpens
        BY <2>1, <2>2, ClientAssumption
  <2>4. \A u \in Threads : Active(u) /\ call[u].id = g => call[u].fn \notin {"open", "close", "alloc"}
        BY <2>1 DEF PhaseInv
  <2>5. \A u \in Threads : Calling(u, "dealloc") /\ call[u].id = g => Careless
        BY <2>1, <2>3 DEF PhaseInv
  <2>6. \A h \in Granules \ {g} : phase'[h] = phase[h] /\ opens'[h] = opens[h]
        BY <2>2
  <2>7. phase'[g] = "opening"
        BY <2>2
  <2>8. PhaseInv'
        BY <1>1, <1>2, <2>1, <2>3, <2>4, <2>5, <2>6, <2>7 DEF PhaseInv
  <2>9. AloneInv'
        BY <1>1, <2>1, <2>4 DEF AloneInv
  <2>10. UnopenedInv'
        BY <2>2, <2>3, <2>6 DEF UnopenedInv
  <2> QED BY <2>8, <2>9, <2>10
<1>4. CASE CallClose(t, g, f)
  <2>1. \A u \in Threads : Active(u) => call[u].id # g
        BY <1>4 DEF CallClose, NoCallOn
  <2>2. call'[t].fn = "close" /\ phase[g] = "open"
        BY <1>4 DEF CallClose, Enter
  <2>3. /\ phase' = [phase EXCEPT ![g] = "closing"]
        /\ UNCHANGED <<opens, held, stale>>
        BY <1>4 DEF CallClose
  <2>4. PhaseInv'
        BY <1>1, <1>2, <2>1, <2>2, <2>3 DEF PhaseInv
  <2>5. AloneInv'
        BY <1>1, <2>1 DEF AloneInv
  <2>6. UnopenedInv'
        BY <2>2, <2>3 DEF UnopenedInv
  <2> QED BY <2>4, <2>5, <2>6
<1>5. CASE CallAlloc(t, g, f) \/ CallDealloc(t, g, f) \/ CallLateDealloc(t, g, f)
  <2> USE <1>5 DEF CallAlloc, CallDealloc, CallLateDealloc
  <2>1. /\ UNCHANGED <<phase, opens>>
        /\ phase[g] \in {"open", "closed"}
        /\ call'[t].fn \in {"alloc", "dealloc"}
        /\ call'[t].fn = "alloc" => phase[g] = "open"
        /\ phase[g] = "closed" => opens[g] = MaxOpens \/ Careless
        /\ phase[g] = "open" \/ stale[g] > 0
        BY DEF Enter
  <2>2. opens[g] \in Nat /\ stale[g] \in Nat
        BY ClientAssumption
  <2>3. opens[g] > 0
        BY <2>1, <2>2 DEF UnopenedInv
  <2>4. PhaseInv'
        BY <1>1, <1>2, <2>1, <2>3 DEF PhaseInv
  <2>5. \A u \in Threads : Active(u) /\ call[u].id = g => call[u].fn # "close"
        BY <2>1 DEF PhaseInv
  <2>6. AloneInv'
        BY <1>1, <2>1, <2>5 DEF AloneInv
  <2>7. UnopenedInv'
        BY <2>1, <2>3 DEF UnopenedInv
  <2> QED BY <2>4, <2>6, <2>7
<1> QED BY <1>3, <1>4, <1>5 DEF ClientCall

\* So does an operation that only moves an active thread on.
LEMMA StepContract ==
    ASSUME ContractInv, UNCHANGED <<call, bookVars>>,
           \A u \in Threads : Active(u)' = Active(u)
    PROVE  ContractInv'
BY DEF ContractInv, PhaseInv, AloneInv, UnopenedInv, Calling, bookVars

\* An answer ends the call of one thread,
LEMMA ReturnFrame ==
    ASSUME ClientTypeOK, PcIsFun,
           NEW t \in Threads, Active(t), ClientReturn(t)
    PROVE  /\ pc' = [pc EXCEPT ![t] = "idle"] /\ UNCHANGED opens
           /\ call'[t] = NoCall
           /\ \A u \in Threads \ {t} : pc'[u] = pc[u] /\ call'[u] = call[u] /\ ret'[u] = ret[u]
           /\ \A g \in Granules \ {call[t].id} :
                 phase'[g] = phase[g] /\ held'[g] = held[g] /\ stale'[g] = stale[g]
BY DEF PcIsFun, ClientReturn, ClientTypeOK

\* keeps the types
LEMMA ReturnType ==
    ASSUME ClientTypeOK, PcIsFun,
           NEW t \in Threads, Active(t), ClientReturn(t)
    PROVE  ClientTypeOK'
<1> USE DEF PcIsFun, ClientReturn, ClientTypeOK, Active
<1>1. call[t] \in Calls /\ call[t].id \in Granules
      BY DEF Calls
<1>2. call' \in [Threads -> Calls \cup {NoCall}] /\ \A u \in Threads : Active(u)' => call'[u] \in Calls
      OBVIOUS
<1>3. ret' \in [Threads -> Int]
      OBVIOUS
<1>4. phase' \in [Granules -> {"closed", "opening", "open", "closing"}]
      OBVIOUS
<1>5. held' \in [Granules -> Nat]
      BY <1>1
<1>6. stale' \in [Granules -> Nat]
      BY <1>1
<1> QED BY <1>2, <1>3, <1>4, <1>5, <1>6

\* and the contract.
LEMMA ReturnContract ==
    ASSUME ClientTypeOK, ContractInv, PcIsFun,
           NEW t \in Threads, Active(t), ClientReturn(t)
    PROVE  ContractInv'
BY DEF PcIsFun, ClientReturn, ClientTypeOK, Calls, Active, Calling, ContractInv, PhaseInv,
       AloneInv, UnopenedInv

\* Calls and answers change the phase of their own granule only, opens and closes
\* alone.
LEMMA CallPhase ==
    ASSUME ClientTypeOK, NEW o, NEW f,
           NEW t \in Threads, NEW g \in Granules, ClientCall(t, g, o, f)
    PROVE  /\ \A h \in Granules \ {g} : phase'[h] = phase[h] /\ held'[h] = held[h]
           /\ phase'[g] = phase[g] \/ call'[t].fn \in {"open", "close"}
<1> USE DEF ClientTypeOK, Enter, bookVars
<1>1. CASE CallOpen(t, g, o)         BY <1>1 DEF CallOpen
<1>2. CASE CallClose(t, g, f)        BY <1>2 DEF CallClose
<1>3. CASE CallAlloc(t, g, f)        BY <1>3 DEF CallAlloc
<1>4. CASE CallDealloc(t, g, f)      BY <1>4 DEF CallDealloc
<1>5. CASE CallLateDealloc(t, g, f)  BY <1>5 DEF CallLateDealloc
<1> QED BY <1>1, <1>2, <1>3, <1>4, <1>5 DEF ClientCall

LEMMA ReturnPhase ==
    ASSUME ClientTypeOK, NEW t \in Threads, Active(t), ClientReturn(t)
    PROVE  /\ call[t].fn \in {"open", "close"} => phase'[call[t].id] \in {"open", "closed"}
           /\ call[t].fn \notin {"open", "close"} => UNCHANGED phase
BY DEF ClientReturn, ClientTypeOK, Calls

\* It holds at first.
LEMMA ContractInit == ASSUME ClientInit PROVE ContractInv
BY DEF ClientInit, ContractInv, PhaseInv, AloneInv, UnopenedInv, Calling, Active

\* A set that changes by one element changes its size by one.
LEMMA MovedOne ==
    ASSUME NEW S, NEW T, NEW t, IsFiniteSet(S), IsFiniteSet(T), S \ {t} = T \ {t}
    PROVE  /\ Cardinality(S) \in Nat /\ Cardinality(T) \in Nat
           /\ t \in S <=> t \in T => Cardinality(T) = Cardinality(S)
           /\ t \in T /\ t \notin S => Cardinality(T) = Cardinality(S) + 1
           /\ t \in S /\ t \notin T => Cardinality(T) = Cardinality(S) - 1
<1>1. Cardinality(S) \in Nat /\ Cardinality(T) \in Nat
      BY FS_CardinalityType
<1>2. CASE t \in S <=> t \in T
  <2>1. S = T
        BY <1>2
  <2> QED BY <1>1, <1>2, <2>1
<1>3. CASE t \in T /\ t \notin S
  <2>1. T = S \cup {t}
        BY <1>3
  <2> QED BY <1>1, <1>3, <2>1, FS_AddElement
<1>4. CASE t \in S /\ t \notin T
  <2>1. S = T \cup {t}
        BY <1>4
  <2> QED BY <1>1, <1>4, <2>1, FS_AddElement
<1> QED BY <1>2, <1>3, <1>4
=============================================================================
