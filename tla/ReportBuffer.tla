----------------------------- MODULE ReportBuffer -----------------------------
(***************************************************************************)
(* The circular buffer of pinning reports of diagnostic mode               *)
(* (src/diagnostic.c).  Each operation runs under the buffer's mutex, from *)
(* its first access to the buffer to its last: one action each, by any of  *)
(* the threads that close granules or collect reports.                     *)
(*                                                                         *)
(* fate and answer record who owns a report: the code has no such          *)
(* variables, it calls free or hands the pointer out.                      *)
(***************************************************************************)
EXTENDS Integers, Sequences

CONSTANTS
    Reports,    \* the reports that closes may generate
    Null,       \* a null pointer
    Limit,      \* config.max_buffered_reports
    MaxDrain    \* bound: the largest max_reports a caller passes

ASSUME BufferAssumption ==
    Null \notin Reports /\ Limit \in Nat \ {0} /\ MaxDrain \in Nat

Ring == 0 .. Limit - 1

VARIABLES
    reports,    \* drainprof_report_buffer.reports
    count,      \* drainprof_report_buffer.count
    head,       \* drainprof_report_buffer.head: the next position to write
    tail,       \* drainprof_report_buffer.tail: the next position to read
    fate,       \* history: "new", "queued", "taken" or "freed"
    answer,     \* history: what the last drain handed out
    alive       \* the profiler has not been destroyed

ringVars == <<reports, count, head, tail>>
vars     == <<ringVars, fate, answer, alive>>

Init ==
    /\ reports = [i \in Ring |-> Null]
    /\ count = 0
    /\ head = 0
    /\ tail = 0
    /\ fate = [r \in Reports |-> "new"]
    /\ answer = <<>>
    /\ alive = TRUE

At(i)       == (tail + i) % Limit
Oldest(n)   == [i \in 1 .. n |-> reports[At(i - 1)]]
\* A report freed twice, or freed after it was handed out, is "broken".
Settle(s, f) ==
    [r \in Reports |->
        IF \E i \in DOMAIN s : s[i] = r
        THEN IF fate[r] = "queued" THEN f ELSE "broken"
        ELSE fate[r]]

\* Mutant: the position to read does not move when the oldest report is dropped.
PushTailStays(r) ==
    /\ alive
    /\ fate[r] = "new"
    /\ reports' = [reports EXCEPT ![head] = r]
    /\ head' = (head + 1) % Limit
    /\ count' = IF count = Limit THEN count ELSE count + 1
    /\ UNCHANGED tail
    /\ fate' = [Settle(Oldest(IF count = Limit THEN 1 ELSE 0), "freed") EXCEPT ![r] = "queued"]
    /\ UNCHANGED <<answer, alive>>

\* A close of a pinned granule buffers its report; a full buffer first drops the
\* oldest.
Push(r) ==
    /\ alive
    /\ fate[r] = "new"
    /\ LET drop == IF count = Limit THEN 1 ELSE 0
       IN  /\ fate'  = [Settle(Oldest(drop), "freed") EXCEPT ![r] = "queued"]
           /\ tail'  = (tail + drop) % Limit
           /\ count' = count - drop + 1
    /\ reports' = [reports EXCEPT ![head] = r]
    /\ head' = (head + 1) % Limit
    /\ UNCHANGED <<answer, alive>>

\* Mutant: the count is not taken down when reports are handed out.
DrainCountStays(max) ==
    /\ alive
    /\ max > 0
    /\ LET n == IF count < max THEN count ELSE max
       IN  /\ answer'  = Oldest(n)
           /\ fate'    = Settle(Oldest(n), "taken")
           /\ reports' = [j \in Ring |-> IF \E i \in 0 .. n - 1 : At(i) = j
                                         THEN Null ELSE reports[j]]
           /\ tail'    = At(n)
    /\ UNCHANGED <<head, count, alive>>

\* A caller takes up to max reports, oldest first.
Drain(max) ==
    /\ alive
    /\ max > 0
    /\ LET n == IF count < max THEN count ELSE max
       IN  /\ answer'  = Oldest(n)
           /\ fate'    = Settle(Oldest(n), "taken")
           /\ reports' = [j \in Ring |-> IF \E i \in 0 .. n - 1 : At(i) = j
                                         THEN Null ELSE reports[j]]
           /\ tail'    = At(n)
           /\ count'   = count - n
    /\ UNCHANGED <<head, alive>>

\* The profiler is destroyed: what is still buffered is freed.
Destroy ==
    /\ alive
    /\ alive' = FALSE
    /\ fate' = Settle(Oldest(count), "freed")
    /\ UNCHANGED <<ringVars, answer>>

Next ==
    \/ \E r \in Reports : Push(r)
    \/ \E max \in 1 .. MaxDrain : Drain(max)
    \/ Destroy

Spec == Init /\ [][Next]_vars

-----------------------------------------------------------------------------
(* Properties                                                              *)

\* The reports in the buffer, oldest first.
Buffered == IF alive THEN Oldest(count) ELSE <<>>

Queue == INSTANCE BoundedQueue WITH queue <- Buffered

\* However pushes, overflows and drains follow each other, the ring is a queue
\* that drops its oldest report: no report is lost, handed out twice, freed
\* twice or leaked.
ImplementsQueue == Queue!Spec

\* head, tail and count stay in step, and exactly the count positions from tail
\* on hold a pointer, each to another report: those that are queued.
RingInv ==
    /\ reports \in [Ring -> Reports \cup {Null}]
    /\ count \in 0 .. Limit
    /\ head \in Ring
    /\ tail \in Ring
    /\ fate \in [Reports -> {"new", "queued", "taken", "freed"}]
    /\ alive \in BOOLEAN
    /\ head = At(count)
    /\ alive => \A r \in Reports :
          fate[r] = "queued" <=> \E i \in 0 .. count - 1 : reports[At(i)] = r
    /\ alive => \A i, j \in 0 .. count - 1 : reports[At(i)] = reports[At(j)] => i = j
    /\ alive => \A i \in Ring : reports[At(i)] = Null <=> i >= count
=============================================================================
