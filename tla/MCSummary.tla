------------------------------ MODULE MCSummary ------------------------------
(* Instances of Summary for TLC: five reports, sites a, b and c.             *)
EXTENDS Summary

Alloc(s, n) == [site |-> s, size |-> n]
Report(i, g, allocs) == [number |-> i, granule |-> g, allocs |-> allocs]

\* Granules of their own; sites that recur within a report, between adjacent
\* reports and between distant ones.
Distinct ==
    { Report(1, 1, <<Alloc("a", 1), Alloc("b", 2), Alloc("a", 4)>>),
      Report(2, 2, <<Alloc("b", 1)>>),
      Report(3, 3, <<Alloc("c", 2), Alloc("a", 1)>>),
      Report(4, 4, <<Alloc("a", 8), Alloc("b", 1), Alloc("c", 1)>>),
      Report(5, 5, <<Alloc("c", 1), Alloc("c", 1)>>) }

\* The granule id 1 was opened, pinned and closed twice.
Reused ==
    { Report(1, 1, <<Alloc("a", 1)>>),
      Report(2, 1, <<Alloc("a", 1)>>),
      Report(3, 2, <<Alloc("a", 1)>>) }
=============================================================================
