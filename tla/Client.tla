-------------------------------- MODULE Client --------------------------------
(***************************************************************************)
(* The allocator's threads, as the profiler sees them: which functions of  *)
(* include/drainprof.h they call on which granule, and when its contract   *)
(* lets them.                                                              *)
(*                                                                         *)
(*  - a granule id is unique among the open granules, and may be used      *)
(*    again once close has returned;                                       *)
(*  - allocations are registered between open and close only, and an       *)
(*    allocation is deregistered once;                                     *)
(*  - no register or deregister of a granule is in flight when the granule *)
(*    is closed;                                                           *)
(*  - no more granules are open at once than config.slot_capacity.         *)
(*                                                                         *)
(* phase, opens, held and stale are the client's own bookkeeping: the      *)
(* profiler never reads them.  A module of the profiler extends this one,  *)
(* adds the shared memory, and says what happens between the call and the  *)
(* answer.                                                                 *)
(***************************************************************************)
EXTENDS Integers, FiniteSets

CONSTANTS
    Threads,    \* the allocator's threads
    Granules,   \* the granule ids the clients use
    Capacity,   \* config.slot_capacity
    MaxOpens,   \* how often a client opens the same id (1: ids are not reused)
    MaxLive,    \* how many allocations a client keeps in one granule
    Careless    \* may an id be used again before its late frees are over, and
                \* an allocation be freed although its register failed?

NoId   == 0                            \* the granule_id of a cleared slot
NoCall == [fn |-> "none", id |-> NoId]
Calls  == [fn : {"open", "close", "alloc", "dealloc"}, id : Granules]

ASSUME ClientAssumption ==
    /\ Capacity \in Nat \ {0}
    /\ Granules \subseteq Nat
    /\ MaxOpens \in Nat
    /\ MaxLive \in Nat
    /\ Careless \in BOOLEAN

VARIABLES
    pc,     \* the next atomic operation of each thread
    call,   \* the function a thread is executing, and its granule id
    ret,    \* the value the function is about to return
    phase,  \* what the client believes of the granule
    opens,  \* how often it has opened the granule
    held,   \* allocations registered in this opening and not freed
    stale   \* allocations not freed yet that the granule does not count: they
            \* outlived a close of it, or could not be registered

bookVars   == <<phase, opens, held, stale>>
clientVars == <<pc, call, ret, bookVars>>

ClientInit ==
    /\ pc    = [t \in Threads |-> "idle"]
    /\ call  = [t \in Threads |-> NoCall]
    /\ ret   = [t \in Threads |-> 0]
    /\ phase = [g \in Granules |-> "closed"]
    /\ opens = [g \in Granules |-> 0]
    /\ held  = [g \in Granules |-> 0]
    /\ stale = [g \in Granules |-> 0]

Active(t)   == pc[t] # "idle"
NoCallOn(g) == \A u \in Threads : Active(u) => call[u].id # g
InUse       == {g \in Granules : phase[g] # "closed"}
Registering(g) ==
    {u \in Threads : Active(u) /\ call[u] = [fn |-> "alloc", id |-> g]}

-----------------------------------------------------------------------------
(* Thread t calls a function for granule g; l is its first operation.      *)

Enter(t, fn, g, l) ==
    /\ pc[t] = "idle"
    /\ call' = [call EXCEPT ![t] = [fn |-> fn, id |-> g]]
    /\ pc'   = [pc EXCEPT ![t] = l]
    /\ UNCHANGED ret

CallOpen(t, g, l) ==
    /\ phase[g] = "closed"
    /\ opens[g] < MaxOpens
    /\ Cardinality(InUse) < Capacity
    /\ Enter(t, "open", g, l)
    /\ phase' = [phase EXCEPT ![g] = "opening"]
    /\ opens' = [opens EXCEPT ![g] = @ + 1]
    /\ UNCHANGED <<held, stale>>

CallClose(t, g, l) ==
    /\ phase[g] = "open"
    /\ NoCallOn(g)
    /\ Enter(t, "close", g, l)
    /\ phase' = [phase EXCEPT ![g] = "closing"]
    /\ UNCHANGED <<opens, held, stale>>

CallAlloc(t, g, l) ==
    /\ phase[g] = "open"
    /\ held[g] + Cardinality(Registering(g)) < MaxLive
    /\ Enter(t, "alloc", g, l)
    /\ UNCHANGED bookVars

\* The client gives the allocation up when it makes the call.
CallDealloc(t, g, l) ==
    /\ phase[g] = "open"
    /\ held[g] > 0
    /\ Enter(t, "dealloc", g, l)
    /\ held' = [held EXCEPT ![g] = @ - 1]
    /\ UNCHANGED <<phase, opens, stale>>

\* An allocation that pinned its granule is freed after the granule's close.  A
\* careful client does so only when it will not use the id again.
CallLateDealloc(t, g, l) ==
    /\ \/ phase[g] = "closed" /\ opens[g] = MaxOpens
       \/ phase[g] \in {"closed", "open"} /\ Careless
    /\ stale[g] > 0
    /\ Enter(t, "dealloc", g, l)
    /\ stale' = [stale EXCEPT ![g] = @ - 1]
    /\ UNCHANGED <<phase, opens, held>>

Goto(t, l)   == pc' = [pc EXCEPT ![t] = l]
Answer(t, v) == ret' = [ret EXCEPT ![t] = v] /\ Goto(t, "ret")

\* The function returns ret[t] to the client, which remembers the outcome: an
\* open that failed is forgotten, a register that failed counts for nothing (a
\* careless client frees the allocation all the same), and a close that failed
\* ends the use of the granule like any other.
ClientReturn(t) ==
    LET fn == call[t].fn
        g  == call[t].id
    IN  /\ pc'   = [pc EXCEPT ![t] = "idle"]
        /\ call' = [call EXCEPT ![t] = NoCall]
        /\ ret'  = [ret EXCEPT ![t] = 0]
        /\ \/ /\ fn = "open"
              /\ phase' = [phase EXCEPT ![g] = IF ret[t] = 0 THEN "open" ELSE "closed"]
              /\ UNCHANGED <<held, stale>>
           \/ /\ fn = "close"
              /\ phase' = [phase EXCEPT ![g] = "closed"]
              /\ held'  = [held EXCEPT ![g] = 0]
              /\ stale' = [stale EXCEPT ![g] = @ + held[g]]
           \/ /\ fn = "alloc"
              /\ held'  = [held EXCEPT ![g] = @ + IF ret[t] = 0 THEN 1 ELSE 0]
              /\ stale' = [stale EXCEPT ![g] = @ + IF ret[t] # 0 /\ Careless THEN 1 ELSE 0]
              /\ UNCHANGED phase
           \/ /\ fn = "dealloc"
              /\ UNCHANGED <<phase, held, stale>>
        /\ UNCHANGED opens

-----------------------------------------------------------------------------
(* What the contract makes of the calls in flight: the parts of the        *)
(* invariants of the proofs that no storage has a say in.                  *)

Calling(t, fn) == Active(t) /\ call[t].fn = fn

\* The client's phase is the one the call put the granule in;
PhaseInv ==
    \A t \in Threads :
        /\ Calling(t, "open")    => phase[call[t].id] = "opening"
        /\ Calling(t, "close")   => phase[call[t].id] = "closing"
        /\ Calling(t, "alloc")   => phase[call[t].id] = "open"
        /\ Calling(t, "dealloc") => /\ opens[call[t].id] > 0
                                    /\ phase[call[t].id] # "closing"
                                    /\ \/ Careless
                                       \/ phase[call[t].id] = "open"
                                       \/ /\ phase[call[t].id] = "closed"
                                          /\ opens[call[t].id] = MaxOpens

\* an open has its granule to itself among opens, a close among all calls;
AloneInv ==
    \A t, u \in Threads :
        /\ Active(t) /\ Active(u) /\ call[t].id = call[u].id
        /\ \/ call[t].fn = "close"
           \/ call[t].fn = "open" /\ call[u].fn = "open"
        => t = u

\* and a granule never opened has no allocations.
UnopenedInv ==
    \A g \in Granules :
        opens[g] = 0 => phase[g] = "closed" /\ held[g] = 0 /\ stale[g] = 0

ContractInv == PhaseInv /\ AloneInv /\ UnopenedInv

-----------------------------------------------------------------------------
ClientTypeOK ==
    /\ call \in [Threads -> Calls \cup {NoCall}]
    /\ \A t \in Threads : Active(t) => call[t] \in Calls
    /\ ret \in [Threads -> Int]
    /\ phase \in [Granules -> {"closed", "opening", "open", "closing"}]
    /\ opens \in [Granules -> 0 .. MaxOpens]
    /\ held \in [Granules -> Nat]
    /\ stale \in [Granules -> Nat]
=============================================================================
