----------------------------- MODULE BoundedQueue -----------------------------
(***************************************************************************)
(* What the buffer of pinning reports promises: a queue of at most Limit   *)
(* reports that drops the oldest when it is full.  A report that was       *)
(* offered is, at every moment, queued, in the caller's hands or freed.    *)
(***************************************************************************)
EXTENDS Integers, Sequences

CONSTANTS Reports, Limit

VARIABLES
    queue,   \* oldest first
    fate,    \* per report: "new", "queued", "taken" by a caller, or "freed"
    answer,  \* what the last drain handed out
    alive    \* the profiler has not been destroyed

vars == <<queue, fate, answer, alive>>

Init ==
    /\ queue = <<>>
    /\ fate = [r \in Reports |-> "new"]
    /\ answer = <<>>
    /\ alive = TRUE

\* The fate of the reports of a sequence changes to f.
Become(s, f) == [r \in Reports |-> IF \E i \in DOMAIN s : s[i] = r THEN f ELSE fate[r]]

\* The reports that have to go to make room for one more.
Surplus == IF Len(queue) = Limit THEN 1 ELSE 0

Push(r) ==
    /\ alive
    /\ fate[r] = "new"
    /\ queue' = Append(SubSeq(queue, Surplus + 1, Len(queue)), r)
    /\ fate'  = [Become(SubSeq(queue, 1, Surplus), "freed") EXCEPT ![r] = "queued"]
    /\ UNCHANGED <<answer, alive>>

Drain(n) ==
    /\ alive
    /\ LET k == IF Len(queue) < n THEN Len(queue) ELSE n
       IN  /\ answer' = SubSeq(queue, 1, k)
           /\ queue'  = SubSeq(queue, k + 1, Len(queue))
    /\ fate' = Become(answer', "taken")
    /\ UNCHANGED alive

Destroy ==
    /\ alive
    /\ alive' = FALSE
    /\ fate'  = Become(queue, "freed")
    /\ queue' = <<>>
    /\ UNCHANGED answer

\* To ask for more than Limit reports is to ask for Limit.
Next ==
    \/ \E r \in Reports : Push(r)
    \/ \E n \in 1 .. Limit : Drain(n)
    \/ Destroy

Spec == Init /\ [][Next]_vars
=============================================================================
