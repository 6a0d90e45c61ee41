---------------------------- MODULE GranuleLedger ----------------------------
(***************************************************************************)
(* What a storage backend of the profiler promises, without its slots: a   *)
(* ledger that says which granules are open and how many live allocations  *)
(* each has, and functions that act on it atomically at some moment        *)
(* between their call and their return.  The contract of the calls is that *)
(* of module Client.                                                       *)
(***************************************************************************)
EXTENDS Client

CONSTANT Refuses    \* may an open, a register or a deregister fail?

VARIABLE ledger     \* per granule: is it open, and its live allocations

vars == <<ledger, clientVars>>

Closed == [open |-> FALSE, live |-> 0]

Init == ClientInit /\ ledger = [g \in Granules |-> Closed]

Call(t) ==
    /\ \E g \in Granules :
           \/ CallOpen(t, g, "pending")
           \/ CallClose(t, g, "pending")
           \/ CallAlloc(t, g, "pending")
           \/ CallDealloc(t, g, "pending")
           \/ CallLateDealloc(t, g, "pending")
    /\ UNCHANGED ledger

\* The call of thread t turns entry e of its granule into f and answers v.
Do(t, fn, e, f, v) ==
    /\ pc[t] = "pending"
    /\ call[t].fn = fn
    /\ ledger[call[t].id] = e
    /\ ledger' = [ledger EXCEPT ![call[t].id] = f]
    /\ Answer(t, v)
    /\ UNCHANGED <<call, bookVars>>

Entry(t) == ledger[call[t].id]

DoOpen(t)    == Do(t, "open", Closed, [open |-> TRUE, live |-> 0], 0)
DoClose(t)   == /\ Entry(t).open
                /\ Do(t, "close", Entry(t), Closed, Entry(t).live)
DoAlloc(t)   == /\ Entry(t).open
                /\ Do(t, "alloc", Entry(t), [Entry(t) EXCEPT !.live = @ + 1], 0)
DoDealloc(t) == /\ Entry(t).open
                /\ Entry(t).live > 0
                /\ Do(t, "dealloc", Entry(t), [Entry(t) EXCEPT !.live = @ - 1], 0)
\* The allocation outlived its granule: there is nothing to count it in.
DoDeallocClosed(t) == Do(t, "dealloc", Closed, Closed, -1)

\* A store that needs memory may refuse an open or a register, and one that tells
\* allocations apart a deregister: nothing changes.
DoRefuse(t) == /\ Refuses
               /\ call[t].fn # "close"
               /\ Do(t, call[t].fn, Entry(t), Entry(t), -1)

Return(t) ==
    /\ pc[t] = "ret"
    /\ ClientReturn(t)
    /\ UNCHANGED ledger

Step(t) ==
    \/ pc[t] = "pending" /\ ( \/ DoOpen(t)
                              \/ DoClose(t)
                              \/ DoAlloc(t)
                              \/ DoDealloc(t)
                              \/ DoDeallocClosed(t)
                              \/ DoRefuse(t) )
    \/ Return(t)

Next == \E t \in Threads : Call(t) \/ Step(t)

Spec == Init /\ [][Next]_vars

FairSpec == Spec /\ \A t \in Threads : WF_vars(Step(t))
=============================================================================
