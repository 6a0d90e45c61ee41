------------------------------- MODULE Summary -------------------------------
(***************************************************************************)
(* drainprof_diagnostic_summary_compute (src/diagnostic.c): the buffered   *)
(* reports are aggregated by allocation site in one pass, under the        *)
(* buffer's mutex: no push and no drain comes between its steps.  A report *)
(* is a record of its number, its granule id and the sequence of the       *)
(* allocations that pinned the granule; an allocation is a record of its   *)
(* site and its size.                                                      *)
(*                                                                         *)
(* The pass keeps two arrays that must grow together: the entries of the   *)
(* sites, and for each entry the granule it was last counted for.  Each of *)
(* the four allocations may fail, and then the call gives back what it has *)
(* and answers NULL.  A calloc of the summary that fails changes nothing.  *)
(***************************************************************************)
EXTENDS ReportBuffer, FiniteSets

CONSTANTS
    Sites,          \* where allocations are made: file and line
    FirstCapacity,  \* 16 in the code: the first capacity of the arrays
    Mark            \* UINT64_MAX: the granule of a site not counted yet

ASSUME SummaryAssumption ==
    /\ FirstCapacity \in Nat \ {0}
    /\ \A r \in Reports : r.allocs \in Seq([site : Sites, size : Nat])

VARIABLES
    at,         \* "none", "begun", "pass" (the mutex is held), or "answered"
    sites,      \* the entries, in the order in which their sites were met
    capacity,   \* site_capacity
    last,       \* last_granule_per_site; its length is tracking_capacity
    total,      \* total_pinning_allocs
    analyzed,   \* reports_analyzed
    entered,    \* how many reports the outer loop has come to
    counted,    \* how many allocations of the last of them are counted
    blocks      \* what the call has allocated and nobody has freed

figures     == <<sites, capacity, last, total, analyzed, entered, counted>>
passVars    == <<at, figures, blocks>>
summaryVars == <<vars, passVars>>

NoMarks == [k \in 1 .. FirstCapacity |-> Mark]

SummaryInit ==
    /\ Init
    /\ at = "none"
    /\ blocks = {}
    /\ sites = <<>>
    /\ capacity = 0
    /\ last = NoMarks
    /\ total = 0
    /\ analyzed = 0
    /\ entered = 0
    /\ counted = 0

\* The call is over, and the next one starts with fresh locals.
Return ==
    /\ at' = "none"
    /\ sites' = <<>>
    /\ capacity' = 0
    /\ last' = NoMarks
    /\ total' = 0
    /\ analyzed' = 0
    /\ entered' = 0
    /\ counted' = 0
    /\ UNCHANGED vars

\* The report the outer loop is at, its allocations, and the next of them.
Current == reports[At(entered - 1)]
Allocs  == IF entered = 0 \/ Current = Null THEN <<>> ELSE Current.allocs
NextAlloc   == Allocs[counted + 1]

-----------------------------------------------------------------------------
(* The helpers of the inner loop                                           *)

NewEntry(s) == [site |-> s, pinning_count |-> 0, total_allocs |-> 0, total_bytes |-> 0]

Known(s) == \E k \in DOMAIN sites : sites[k].site = s

\* Mutant: the entries are not searched, and each allocation gets its own.
FindOrCreateAnew(s) == Append(sites, NewEntry(s))

\* The entries once s is among them.
FindOrCreate(s) == IF Known(s) THEN sites ELSE Append(sites, NewEntry(s))

\* The capacity of the entries once s is among them.
CapacityFor(s) ==
    IF Known(s) \/ Len(sites) < capacity THEN capacity
    ELSE IF capacity = 0 THEN FirstCapacity ELSE 2 * capacity

\* The array of last granules follows the capacity of the entries.
Tracking(c) ==
    [k \in 1 .. (IF c > Len(last) THEN c ELSE Len(last)) |->
        IF k \in DOMAIN last THEN last[k] ELSE Mark]

\* Mutant: a granule is counted for every allocation that pins it.
UncountedAlways(marks, k, g) == TRUE

\* The entry k has not been counted for granule g.
Uncounted(marks, k, g) == marks[k] # g

\* The entry e with one more allocation, of n bytes, the first of its granule or not.
CountIn(e, n, first) ==
    [e EXCEPT !.total_allocs  = @ + 1,
              !.total_bytes   = @ + n,
              !.pinning_count = IF first THEN @ + 1 ELSE @]

-----------------------------------------------------------------------------
(* The call                                                                *)

\* The summary is allocated, before the mutex is taken.
Begin ==
    /\ at = "none"
    /\ alive
    /\ at' = "begun"
    /\ blocks' = blocks \cup {"summary"}
    /\ UNCHANGED <<vars, figures>>

\* With the mutex held, there is no memory for the array of last granules.
LockFails ==
    /\ at = "begun"
    /\ blocks' = blocks \ {"summary"}
    /\ Return

Lock ==
    /\ at = "begun"
    /\ at' = "pass"
    /\ blocks' = blocks \cup {"tracking"}
    /\ UNCHANGED <<vars, figures>>

\* The outer loop goes on to the next report; a null pointer is skipped.
EnterReport ==
    /\ at = "pass"
    /\ counted = Len(Allocs)
    /\ entered < count
    /\ entered' = entered + 1
    /\ counted' = 0
    /\ analyzed' = IF reports[At(entered)] = Null THEN analyzed ELSE analyzed + 1
    /\ UNCHANGED <<vars, at, sites, capacity, last, total, blocks>>

\* One pinning allocation: the first entry of its site counts all allocations,
\* and a granule once.
CountAlloc ==
    /\ at = "pass"
    /\ counted < Len(Allocs)
    /\ LET entries == FindOrCreate(NextAlloc.site)
           marks   == Tracking(CapacityFor(NextAlloc.site))
       IN  \E k \in DOMAIN entries :
              /\ entries[k].site = NextAlloc.site
              /\ \A m \in 1 .. k - 1 : entries[m].site # NextAlloc.site
              /\ sites' = [entries EXCEPT
                     ![k] = CountIn(@, NextAlloc.size, Uncounted(marks, k, Current.granule))]
              /\ last' = [marks EXCEPT ![k] = Current.granule]
    /\ capacity' = CapacityFor(NextAlloc.site)
    /\ total' = total + 1
    /\ counted' = counted + 1
    /\ blocks' = blocks \cup {"sites"}
    /\ UNCHANGED <<vars, at, analyzed, entered>>

\* An array has to grow for the next allocation, and there is no memory.
GiveUp ==
    /\ at = "pass"
    /\ counted < Len(Allocs)
    /\ \/ CapacityFor(NextAlloc.site) > capacity
       \/ CapacityFor(NextAlloc.site) > Len(last)
    /\ blocks' = blocks \ {"tracking", "sites", "summary"}
    /\ Return

\* The loops are through, and the mutex is released.
Answer ==
    /\ at = "pass"
    /\ counted = Len(Allocs)
    /\ entered = count
    /\ at' = "answered"
    /\ blocks' = blocks \ {"tracking"}
    /\ UNCHANGED <<vars, figures>>

\* drainprof_diagnostic_summary_free, by the caller, at any later time.
Free ==
    /\ at = "answered"
    /\ blocks' = blocks \ {"sites", "summary"}
    /\ Return

\* Closes and drains wait while the pass holds the mutex.
UseBuffer ==
    /\ at # "pass"
    /\ \/ \E r \in Reports : Push(r)
       \/ \E max \in 1 .. MaxDrain : Drain(max)
    /\ UNCHANGED passVars

\* The profiler is destroyed when no call is in flight.
DestroyProfiler ==
    /\ at \in {"none", "answered"}
    /\ Destroy
    /\ UNCHANGED passVars

SummaryNext ==
    \/ Begin \/ Lock \/ LockFails
    \/ EnterReport \/ CountAlloc \/ GiveUp \/ Answer
    \/ Free
    \/ UseBuffer \/ DestroyProfiler

SummarySpec == SummaryInit /\ [][SummaryNext]_summaryVars

-----------------------------------------------------------------------------
(* The same figures, stated over the buffered reports.                     *)

\* The place <<n, m>> is allocation m of the n-th report.
Places     == UNION {{n} \X DOMAIN Buffered[n].allocs : n \in DOMAIN Buffered}
AllocAt(p) == Buffered[p[1]].allocs[p[2]]

\* The allocations of a site, byte by byte too, and the reports they are in.
From(s, places)      == {p \in places : AllocAt(p).site = s}
BytesOf(places)      == UNION {{p} \X (1 .. AllocAt(p).size) : p \in places}
ReportsWith(places)  == {p[1] : p \in places}

Complete == at = "pass" /\ entered = count /\ counted = Len(Allocs)

\* A call ends in one of two ways.  When its loops are through, every site in the
\* buffer has one entry, with all of its allocations and bytes, and the totals
\* add up, however often the arrays grew and wherever in the ring the reports
\* are.  When memory runs out before, and when the caller has freed the summary,
\* nothing of it is left.
SummaryExact ==
    /\ Complete =>
          /\ {sites[k].site : k \in DOMAIN sites} = {AllocAt(p).site : p \in Places}
          /\ \A k, m \in DOMAIN sites : sites[k].site = sites[m].site => k = m
          /\ \A k \in DOMAIN sites :
                LET its == From(sites[k].site, Places)
                IN  /\ sites[k].total_allocs = Cardinality(its)
                    /\ sites[k].total_bytes = Cardinality(BytesOf(its))
          /\ analyzed = count
          /\ total = Cardinality(Places)
    /\ at = "none" => blocks = {}

\* pinning_count is the number of times the site pinned a granule: once for
\* each buffered report that names it.
PinningCountExact ==
    Complete =>
        \A k \in DOMAIN sites :
            sites[k].pinning_count = Cardinality(ReportsWith(From(sites[k].site, Places)))
=============================================================================
