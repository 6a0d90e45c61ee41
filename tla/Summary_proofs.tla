----------------------------- MODULE Summary_proofs -----------------------------
(***************************************************************************)
(* Proofs about the summary: for every limit, every first capacity and any *)
(* reports, a call that gets to its end has the exact figures of the       *)
(* buffer, through overflows of the ring and growing arrays, and one that  *)
(* runs out of memory leaves nothing behind.  The invariant compares the   *)
(* figures with the places the loops have come past, so each step adds one *)
(* place to sets whose cardinality is known.                               *)
(***************************************************************************)
EXTENDS Summary, ReportBuffer_proofs, FiniteSetTheorems

\* Granules of their own: no two reports have the same granule id, and none has
\* the id that marks a site as not counted.
OwnGranules ==
    /\ \A r, q \in Reports : r.granule = q.granule => r = q
    /\ \A r \in Reports : r.granule # Mark

-----------------------------------------------------------------------------
(* The buffer under the pass                                               *)

\* The calls of the summary do to the buffer what the buffer's own module allows:
\* nothing, or one push, drain or destruction at a time.
LEMMA BufferStep == [SummaryNext]_summaryVars => [Next]_vars
  BY DEF SummaryNext, summaryVars, Begin, Lock, LockFails, EnterReport, CountAlloc, GiveUp,
         Answer, Free, UseBuffer, DestroyProfiler, Return, Next

\* What holds of the ring holds of it with summaries computed beside the closes
\* and drains, too.
THEOREM SummaryKeepsRing == SummarySpec => Spec /\ []RingInv
  <1>1. SummaryInit => Init
    BY DEF SummaryInit
  <1> QED
    BY <1>1, BufferStep, RingCorrect, PTL DEF SummarySpec, Spec

\* The report the outer loop is at is that of the queue, and never null.
LEMMA CurrentIs ==
    ASSUME RingInv, alive, NEW n \in 1 .. count
    PROVE  /\ reports[At(n - 1)] = Buffered[n] /\ Buffered[n] \in Reports
           /\ Buffered[n] # Null
           /\ DOMAIN Buffered = 1 .. count
           /\ Buffered[n].allocs \in Seq([site : Sites, size : Nat])
  <1>1. Shape /\ Contents
    BY RingInvIs
  <1>2. Limit \in Nat \ {0} /\ Null \notin Reports /\ count \in 0 .. Limit
    BY <1>1, BufferAssumption DEF Shape
  <1>3. n - 1 \in Ring /\ n - 1 \in 0 .. Limit /\ ~(n - 1 >= count)
    BY <1>2, SMT DEF Ring
  <1>4. Place(tail, n - 1) \in Ring
    BY <1>1, <1>3, Placed DEF Shape
  <1>5. Entry(n - 1) # Null /\ Entry(n - 1) \in Reports \cup {Null}
    BY <1>1, <1>3, <1>4 DEF Contents, Shape, Entry
  <1>6. Buffered = [m \in 1 .. count |-> reports[At(m - 1)]]
    BY DEF Buffered, Oldest
  <1>7. reports[At(n - 1)] = Entry(n - 1)
    BY DEF Entry, At, Place
  <1> QED
    BY <1>5, <1>6, <1>7, SummaryAssumption

-----------------------------------------------------------------------------
(* Figures of sets of places, one place more at a time                     *)

LEMMA FromMore ==
    ASSUME NEW s, NEW P, NEW p
    PROVE  From(s, P \cup {p}) = IF AllocAt(p).site = s THEN From(s, P) \cup {p} ELSE From(s, P)
  BY DEF From

LEMMA BytesMore ==
    ASSUME NEW P, NEW p, p \notin P, IsFiniteSet(BytesOf(P)), AllocAt(p).size \in Nat
    PROVE  /\ IsFiniteSet(BytesOf(P \cup {p}))
           /\ Cardinality(BytesOf(P \cup {p})) = Cardinality(BytesOf(P)) + AllocAt(p).size
  <1> DEFINE n   == AllocAt(p).size
             new == {p} \X (1 .. n)
  <1>1. IsFiniteSet({p}) /\ Cardinality({p}) = 1
    BY FS_Singleton
  <1>2. IsFiniteSet(1 .. n) /\ Cardinality(1 .. n) = n
    BY FS_Interval, SMT
  <1>3. IsFiniteSet(new) /\ Cardinality(new) = 1 * n
    BY <1>1, <1>2, FS_Product
  <1>4. BytesOf(P \cup {p}) = BytesOf(P) \cup new
    BY DEF BytesOf
  <1>5. BytesOf(P) \cap new = {}
    BY DEF BytesOf
  <1>6. Cardinality(BytesOf(P)) \in Nat /\ Cardinality({}) = 0
    BY FS_CardinalityType, FS_EmptySet
  <1>7. /\ IsFiniteSet(BytesOf(P) \cup new)
        /\ Cardinality(BytesOf(P) \cup new)
              = Cardinality(BytesOf(P)) + Cardinality(new) - Cardinality(BytesOf(P) \cap new)
    BY <1>3, FS_Union
  <1>8. Cardinality(BytesOf(P) \cup new) = Cardinality(BytesOf(P)) + 1 * n - 0
    BY <1>3, <1>5, <1>6, <1>7
  <1>9. Cardinality(BytesOf(P)) + 1 * n - 0 = Cardinality(BytesOf(P)) + n
    BY <1>6, SMT
  <1> QED
    BY <1>4, <1>7, <1>8, <1>9

LEMMA ReportsMore ==
    ASSUME NEW P, NEW p
    PROVE  ReportsWith(P \cup {p}) = ReportsWith(P) \cup {p[1]}
  BY DEF ReportsWith

-----------------------------------------------------------------------------
(* The invariant                                                           *)

Ids       == {r.granule : r \in Reports} \cup {Mark}
EntryType == [site : Sites, pinning_count : Nat, total_allocs : Nat, total_bytes : Nat]

\* What a call owns at each point, and the locals outside its loops.
CallInv ==
    /\ at \in {"none", "begun", "pass", "answered"}
    /\ at \in {"begun", "pass"} => alive
    /\ at = "none" => blocks = {}
    /\ at = "begun" => blocks = {"summary"}
    /\ at = "pass" => blocks \subseteq {"summary", "tracking", "sites"}
    /\ at = "answered" => blocks \subseteq {"summary", "sites"}
    /\ at \in {"none", "begun"} =>
          /\ sites = <<>> /\ capacity = 0 /\ last = NoMarks
          /\ total = 0 /\ analyzed = 0 /\ entered = 0 /\ counted = 0

\* The array of last granules is at least as long as that of the entries.
ArrayInv ==
    /\ sites \in Seq(EntryType)
    /\ last \in Seq(Ids)
    /\ capacity \in Nat
    /\ Len(sites) <= capacity
    /\ capacity <= Len(last)

PositionInv == entered \in 0 .. count /\ counted \in 0 .. Len(Allocs)

\* The places the loops have come past.
Done == {p \in Places : p[1] < entered \/ (p[1] = entered /\ p[2] <= counted)}

\* What an entry has, for the places of its site.
Tallied(e, its) ==
    /\ IsFiniteSet(its) /\ IsFiniteSet(BytesOf(its))
    /\ e.total_allocs = Cardinality(its)
    /\ e.total_bytes = Cardinality(BytesOf(its))

TallyInv ==
    /\ IsFiniteSet(Done)
    /\ total = Cardinality(Done)
    /\ analyzed = entered
    /\ \A k, m \in DOMAIN sites : sites[k].site = sites[m].site => k = m
    /\ \A p \in Done : \E k \in DOMAIN sites : sites[k].site = AllocAt(p).site
    /\ \A k \in DOMAIN sites : \E p \in Done : sites[k].site = AllocAt(p).site
    /\ \A k \in DOMAIN sites : Tallied(sites[k], From(sites[k].site, Done))

SummaryInv == CallInv /\ (at = "pass" => ArrayInv /\ PositionInv /\ TallyInv)

\* What an entry has and when it was last counted, for the places of its site: its
\* mark is the granule of the latest report with it.
Pinned(e, mark, its) ==
    /\ IsFiniteSet(ReportsWith(its))
    /\ e.pinning_count = Cardinality(ReportsWith(its))
    /\ \/ its = {} /\ mark = Mark
       \/ \E n \in ReportsWith(its) :
             /\ mark = Buffered[n].granule
             /\ \A m \in ReportsWith(its) : m <= n

PinningInv ==
    at = "pass" =>
        /\ \A k \in DOMAIN sites : Pinned(sites[k], last[k], From(sites[k].site, Done))
        /\ \A k \in DOMAIN last : k > Len(sites) => last[k] = Mark

-----------------------------------------------------------------------------
(* One allocation: the arrays before it is counted                         *)

\* The next allocation, as a place of the buffer.
Next1 == <<entered, counted + 1>>

LEMMA NextPlace ==
    ASSUME RingInv, alive, PositionInv, counted < Len(Allocs)
    PROVE  /\ entered \in 1 .. count /\ counted \in Nat /\ count \in Nat
           /\ Current = Buffered[entered] /\ Buffered[entered] \in Reports
           /\ Next1 \in Places /\ Next1 \notin Done
           /\ AllocAt(Next1) = NextAlloc
           /\ NextAlloc \in [site : Sites, size : Nat]
           /\ Next1[1] = entered
  <1>1. count \in Nat /\ entered \in 0 .. count /\ counted \in 0 .. Len(Allocs)
    BY SMT DEF RingInv, PositionInv
  <1>2. entered # 0
    <2>1. SUFFICES ASSUME entered = 0 PROVE FALSE
      OBVIOUS
    <2>2. Allocs = <<>>
      BY <2>1 DEF Allocs
    <2>3. Len(Allocs) = 0
      BY <2>2, SMT
    <2> QED
      BY <1>1, <2>3, SMT
  <1>3. entered \in 1 .. count
    BY <1>1, <1>2, SMT
  <1>4. /\ Current = Buffered[entered] /\ Buffered[entered] \in Reports
        /\ Buffered[entered] # Null /\ DOMAIN Buffered = 1 .. count
        /\ Buffered[entered].allocs \in Seq([site : Sites, size : Nat])
    BY <1>3, CurrentIs DEF Current
  <1>5. Allocs = Buffered[entered].allocs
    BY <1>2, <1>4 DEF Allocs
  <1>6. Len(Allocs) \in Nat /\ DOMAIN Allocs = 1 .. Len(Allocs)
    BY <1>4, <1>5, LenProperties
  <1>7. counted \in Nat /\ counted + 1 \in 1 .. Len(Allocs)
    BY <1>1, <1>6, SMT
  <1>8. NextAlloc \in [site : Sites, size : Nat]
    BY <1>4, <1>5, <1>7, ElementOfSeq DEF NextAlloc
  <1>9. Next1 \in {entered} \X DOMAIN Buffered[entered].allocs
    BY <1>5, <1>6, <1>7 DEF Next1
  <1>10. Next1 \in Places
    BY <1>3, <1>4, <1>9 DEF Places
  <1>11. Next1[1] = entered /\ Next1[2] = counted + 1
    BY DEF Next1
  <1>12. AllocAt(Next1) = NextAlloc
    BY <1>5, <1>11 DEF AllocAt, NextAlloc
  <1>13. Next1 \notin Done
    BY <1>3, <1>7, <1>11, SMT DEF Done
  <1> QED
    BY <1>1, <1>3, <1>4, <1>7, <1>8, <1>10, <1>11, <1>12, <1>13

\* The arrays with an entry for the site of the next allocation.
Entries == FindOrCreate(NextAlloc.site)
Marks   == Tracking(CapacityFor(NextAlloc.site))

\* The entries are the old ones, and at most one new one behind them.
LEMMA EntriesAre ==
    ASSUME ArrayInv, NextAlloc \in [site : Sites, size : Nat]
    PROVE  /\ Entries \in Seq(EntryType)
           /\ DOMAIN Entries = 1 .. Len(Entries) /\ Len(Entries) \in Nat
           /\ DOMAIN sites = 1 .. Len(sites) /\ Len(sites) \in Nat
           /\ \A k \in DOMAIN sites : k \in DOMAIN Entries /\ Entries[k] = sites[k]
           /\ \/ Known(NextAlloc.site) /\ Entries = sites
              \/ /\ ~Known(NextAlloc.site)
                 /\ Len(Entries) = Len(sites) + 1
                 /\ Entries[Len(sites) + 1] = NewEntry(NextAlloc.site)
  <1> DEFINE s == NextAlloc.site
  <1>1. s \in Sites
    OBVIOUS
  <1>2. NewEntry(s) \in EntryType
    BY <1>1 DEF NewEntry, EntryType
  <1>3. sites \in Seq(EntryType) /\ DOMAIN sites = 1 .. Len(sites) /\ Len(sites) \in Nat
    BY LenProperties DEF ArrayInv
  <1>4. CASE Known(s)
    BY <1>3, <1>4 DEF Entries, FindOrCreate
  <1>5. CASE ~Known(s)
    <2>1. Entries = Append(sites, NewEntry(s))
      BY <1>5 DEF Entries, FindOrCreate
    <2> HIDE DEF s
    <2>2. /\ Entries \in Seq(EntryType) /\ Len(Entries) = Len(sites) + 1
          /\ DOMAIN Entries = 1 .. Len(sites) + 1
          /\ Entries[Len(sites) + 1] = NewEntry(s)
          /\ \A k \in 1 .. Len(sites) : Entries[k] = sites[k]
      BY <1>2, <1>3, <2>1, SMT
    <2>3. \A k \in 1 .. Len(sites) : k \in 1 .. Len(sites) + 1
      BY <1>3, SMT
    <2> QED
      BY <1>3, <1>5, <2>2, <2>3, SMT DEF s
  <1> QED
    BY <1>4, <1>5

\* The array of last granules keeps its marks and has one for every entry.
LEMMA MarksAre ==
    ASSUME ArrayInv, NextAlloc \in [site : Sites, size : Nat]
    PROVE  /\ Marks \in Seq(Ids)
           /\ DOMAIN Marks = 1 .. Len(Marks) /\ Len(Marks) \in Nat
           /\ DOMAIN last = 1 .. Len(last) /\ Len(last) \in Nat
           /\ \A k \in DOMAIN Marks :
                 Marks[k] = IF k \in DOMAIN last THEN last[k] ELSE Mark
           /\ Len(last) <= Len(Marks)
           /\ CapacityFor(NextAlloc.site) \in Nat
           /\ Len(Entries) <= CapacityFor(NextAlloc.site)
           /\ CapacityFor(NextAlloc.site) <= Len(Marks)
  <1> DEFINE s == NextAlloc.site
             c == CapacityFor(s)
             n == IF c > Len(last) THEN c ELSE Len(last)
             e(k) == IF k \in DOMAIN last THEN last[k] ELSE Mark
  <1>1. /\ last \in Seq(Ids) /\ DOMAIN last = 1 .. Len(last) /\ Len(last) \in Nat
        /\ capacity \in Nat /\ Len(sites) <= capacity
    BY LenProperties DEF ArrayInv
  <1>2. /\ Len(Entries) \in Nat /\ Len(sites) \in Nat
        /\ \/ Known(s) /\ Len(Entries) = Len(sites)
           \/ ~Known(s) /\ Len(Entries) = Len(sites) + 1
    BY EntriesAre
  <1>3. c \in Nat /\ Len(Entries) <= c
    BY <1>1, <1>2, SummaryAssumption, SMT DEF CapacityFor
  <1>4. n \in Nat /\ c <= n /\ Len(last) <= n
    BY <1>1, <1>3, SMT
  <1>5. Mark \in Ids
    BY DEF Ids
  <1>6. \A k \in 1 .. n : e(k) \in Ids
    BY <1>1, <1>5, ElementOfSeq
  <1>7. Marks = [k \in 1 .. n |-> e(k)]
    BY DEF Marks, Tracking
  <1> HIDE DEF n, c, s, e
  <1>8. Marks \in Seq(Ids)
    BY <1>4, <1>6, <1>7, IsASeq
  <1>9. DOMAIN Marks = 1 .. n /\ Len(Marks) = n
    BY <1>4, <1>7, <1>8, LenProperties, SMT
  <1> QED
    BY <1>1, <1>3, <1>4, <1>7, <1>8, <1>9 DEF c, s, e

\* The entries stay right when the new one comes in with nothing counted.
LEMMA EntriesTallied ==
    ASSUME ArrayInv, TallyInv, NextAlloc \in [site : Sites, size : Nat]
    PROVE  /\ \A k, m \in DOMAIN Entries : Entries[k].site = Entries[m].site => k = m
           /\ \A k \in DOMAIN Entries : Tallied(Entries[k], From(Entries[k].site, Done))
           /\ ~Known(NextAlloc.site) => From(NextAlloc.site, Done) = {}
  <1> DEFINE s == NextAlloc.site
             n == Len(sites) + 1
  <1>1. CASE Known(s)
    BY <1>1, EntriesAre DEF TallyInv
  <1>2. CASE ~Known(s)
    <2>0. /\ Len(sites) \in Nat /\ DOMAIN sites = 1 .. Len(sites)
          /\ Len(Entries) = n /\ Entries[n] = NewEntry(s) /\ DOMAIN Entries = 1 .. Len(Entries)
          /\ \A k \in DOMAIN sites : k \in DOMAIN Entries /\ Entries[k] = sites[k]
      BY <1>2, EntriesAre
    <2>a. n - 1 = Len(sites) /\ n \in Nat \ {0}
      BY <2>0, SMT
    <2> HIDE DEF n
    <2>1. /\ Len(Entries) = n /\ Entries[n] = NewEntry(s)
          /\ DOMAIN Entries = 1 .. n /\ DOMAIN sites = 1 .. n - 1 /\ n \in Nat \ {0}
          /\ \A k \in DOMAIN sites : k \in DOMAIN Entries /\ Entries[k] = sites[k]
      BY <2>0, <2>a
    <2>2. \A k \in DOMAIN Entries : k = n \/ k \in DOMAIN sites
      BY <2>1, SMT
    <2>3. \A k \in DOMAIN sites : Entries[k].site # s /\ k # n
      BY <1>2, <2>1, SMT DEF Known
    <2>4. Entries[n].site = s
      BY <2>1 DEF NewEntry
    <2>5. ASSUME NEW k \in DOMAIN Entries, NEW m \in DOMAIN Entries,
                 Entries[k].site = Entries[m].site
          PROVE  k = m
      <3>1. CASE k \in DOMAIN sites /\ m \in DOMAIN sites
        BY <2>1, <2>5, <3>1 DEF TallyInv
      <3> QED
        BY <2>2, <2>3, <2>4, <2>5, <3>1
    <2>6. From(s, Done) = {}
      BY <1>2 DEF From, TallyInv, Known
    <2>7. BytesOf({}) = {}
      BY DEF BytesOf
    <2>8. Tallied(Entries[n], {})
      <3>1. Entries[n].total_allocs = 0 /\ Entries[n].total_bytes = 0
        BY <2>1 DEF NewEntry
      <3>2. IsFiniteSet({}) /\ Cardinality({}) = 0
        BY FS_EmptySet
      <3> QED
        BY <2>7, <3>1, <3>2 DEF Tallied
    <2>9. \A k \in DOMAIN sites : Tallied(Entries[k], From(Entries[k].site, Done))
      BY <2>1 DEF TallyInv
    <2> QED
      BY <2>2, <2>4, <2>5, <2>6, <2>8, <2>9
  <1> QED
    BY <1>1, <1>2

-----------------------------------------------------------------------------
(* One allocation: the arrays after it is counted                          *)

\* The buffer, and what is said of it, stays as it is during the pass.
LEMMA BufferKept ==
    ASSUME UNCHANGED vars
    PROVE  /\ Buffered' = Buffered
           /\ Places' = Places
           /\ \A p : AllocAt(p)' = AllocAt(p)
           /\ \A s, P : From(s, P)' = From(s, P)
           /\ \A P : BytesOf(P)' = BytesOf(P)
  <1>1. Buffered' = Buffered
    BY DEF vars, ringVars, Buffered, Oldest, At
  <1> QED
    BY <1>1 DEF Places, AllocAt, From, BytesOf

\* An entry stays one when it counts an allocation.
LEMMA EntryKept ==
    ASSUME NEW e \in EntryType, NEW n \in Nat, NEW first \in BOOLEAN
    PROVE  /\ CountIn(e, n, first) \in EntryType
           /\ CountIn(e, n, first).site = e.site
           /\ CountIn(e, n, first).total_allocs = e.total_allocs + 1
           /\ CountIn(e, n, first).total_bytes = e.total_bytes + n
           /\ CountIn(e, n, first).pinning_count
                 = IF first THEN e.pinning_count + 1 ELSE e.pinning_count
  <1>1. /\ e.total_allocs + 1 \in Nat /\ e.total_bytes + n \in Nat
        /\ (IF first THEN e.pinning_count + 1 ELSE e.pinning_count) \in Nat
    BY SMT DEF EntryType
  <1>2. CountIn(e, n, first) \in EntryType
    BY <1>1, Zenon DEF EntryType, CountIn
  <1> QED
    BY <1>2, SMT DEF EntryType, CountIn

\* The entry that counts it, and nothing else of the entries, changes.
LEMMA EntryCounted ==
    ASSUME ArrayInv, CountAlloc, NextAlloc \in [site : Sites, size : Nat],
           \A k, m \in DOMAIN Entries : Entries[k].site = Entries[m].site => k = m
    PROVE  \E k \in DOMAIN Entries :
              /\ Entries[k].site = NextAlloc.site
              /\ sites' \in Seq(EntryType)
              /\ Len(sites') = Len(Entries) /\ DOMAIN sites' = DOMAIN Entries
              /\ \A m \in DOMAIN Entries : m # k => sites'[m] = Entries[m]
              /\ sites'[k].site = Entries[k].site
              /\ sites'[k].total_allocs = Entries[k].total_allocs + 1
              /\ sites'[k].total_bytes = Entries[k].total_bytes + NextAlloc.size
              /\ sites'[k].pinning_count =
                    IF Marks[k] # Current.granule
                    THEN Entries[k].pinning_count + 1 ELSE Entries[k].pinning_count
              /\ last' = [Marks EXCEPT ![k] = Current.granule]
  <1> DEFINE n        == NextAlloc.size
             first(k) == Marks[k] # Current.granule
  <1>1. PICK k \in DOMAIN Entries :
           /\ Entries[k].site = NextAlloc.site
           /\ sites' = [Entries EXCEPT ![k] = CountIn(Entries[k], n, first(k))]
           /\ last' = [Marks EXCEPT ![k] = Current.granule]
    BY DEF CountAlloc, Entries, Marks, Uncounted
  <1>2. /\ Entries \in Seq(EntryType) /\ DOMAIN Entries = 1 .. Len(Entries)
        /\ k \in 1 .. Len(Entries) /\ Entries[k] \in EntryType
    BY EntriesAre, ElementOfSeq
  <1>3. n \in Nat /\ first(k) \in BOOLEAN
    OBVIOUS
  <1>4. /\ CountIn(Entries[k], n, first(k)) \in EntryType
        /\ CountIn(Entries[k], n, first(k)).site = Entries[k].site
        /\ CountIn(Entries[k], n, first(k)).total_allocs = Entries[k].total_allocs + 1
        /\ CountIn(Entries[k], n, first(k)).total_bytes = Entries[k].total_bytes + n
        /\ CountIn(Entries[k], n, first(k)).pinning_count =
              IF first(k) THEN Entries[k].pinning_count + 1 ELSE Entries[k].pinning_count
    BY <1>2, <1>3, EntryKept
  <1>5. /\ sites' \in Seq(EntryType) /\ Len(sites') = Len(Entries)
        /\ \A m \in 1 .. Len(Entries) :
              sites'[m] = IF m = k THEN CountIn(Entries[k], n, first(k)) ELSE Entries[m]
    BY <1>1, <1>2, <1>4, ExceptSeq
  <1>6. DOMAIN sites' = 1 .. Len(sites')
    BY <1>5, LenProperties
  <1> QED
    BY <1>1, <1>2, <1>4, <1>5, <1>6

\* A place is a pair of numbers, of a report and of an allocation in it.
LEMMA PlaceNumbers ==
    ASSUME RingInv, alive, NEW p \in Places
    PROVE  /\ \E x, y \in Nat : p = <<x, y>>
           /\ p[1] \in 1 .. count /\ p[2] \in 1 .. Len(Buffered[p[1]].allocs)
           /\ p[1] \in Nat /\ p[2] \in Nat
  <1>1. PICK n \in DOMAIN Buffered : p \in {n} \X DOMAIN Buffered[n].allocs
    BY DEF Places
  <1>2. n \in 1 .. count /\ count \in Nat
    BY SMT DEF Buffered, Oldest, RingInv
  <1>3. /\ DOMAIN Buffered[n].allocs = 1 .. Len(Buffered[n].allocs)
        /\ Len(Buffered[n].allocs) \in Nat
    BY <1>2, CurrentIs, LenProperties
  <1>4. n \in Nat /\ \A m \in 1 .. Len(Buffered[n].allocs) : m \in Nat
    BY <1>2, <1>3, SMT
  <1> QED
    BY <1>1, <1>2, <1>3, <1>4

\* The loops have come past one place more.
LEMMA DoneCounted ==
    ASSUME RingInv, alive, PositionInv, CountAlloc
    PROVE  /\ Done' = Done \cup {Next1} /\ Next1 \notin Done
           /\ \A P : ReportsWith(P)' = ReportsWith(P)
  <1>1. UNCHANGED vars /\ entered' = entered /\ counted' = counted + 1 /\ counted < Len(Allocs)
    BY DEF CountAlloc
  <1>2. Places' = Places
    BY <1>1, BufferKept
  <1>3. /\ entered \in 1 .. count /\ counted \in Nat /\ count \in Nat
        /\ Next1 \in Places /\ Next1 \notin Done
    BY <1>1, NextPlace
  <1>4. ASSUME NEW p \in Places
        PROVE  \E x, y \in Nat : p = <<x, y>>
    BY PlaceNumbers
  <1>5. ASSUME NEW p \in Places
        PROVE  (p[1] < entered \/ (p[1] = entered /\ p[2] <= counted + 1))
                  <=> (p \in Done \/ p = Next1)
    <2>1. PICK x, y \in Nat : p = <<x, y>>
      BY <1>4
    <2>2. p[1] = x /\ p[2] = y
      BY <2>1
    <2>3. p = Next1 <=> x = entered /\ y = counted + 1
      BY <2>1 DEF Next1
    <2>4. p \in Done <=> x < entered \/ (x = entered /\ y <= counted)
      BY <2>2 DEF Done
    <2> QED
      BY <1>3, <2>2, <2>3, <2>4, SMT
  <1>6. Done' = {p \in Places : p[1] < entered \/ (p[1] = entered /\ p[2] <= counted + 1)}
    BY <1>1, <1>2 DEF Done
  <1>7. Done \subseteq Places
    BY DEF Done
  <1>8. Done' = Done \cup {Next1}
    BY <1>3, <1>5, <1>6, <1>7
  <1> QED
    BY <1>3, <1>8 DEF ReportsWith

LEMMA CountArrays ==
    ASSUME RingInv, alive, ArrayInv, PositionInv, TallyInv, CountAlloc
    PROVE  ArrayInv' /\ PositionInv'
  <1>1. /\ UNCHANGED vars /\ entered' = entered /\ counted' = counted + 1
        /\ counted < Len(Allocs) /\ capacity' = CapacityFor(NextAlloc.site)
    BY DEF CountAlloc
  <1>2. /\ NextAlloc \in [site : Sites, size : Nat] /\ Current \in Reports
        /\ entered \in 1 .. count
    BY <1>1, NextPlace
  <1>3. PICK k \in DOMAIN Entries :
           /\ sites' \in Seq(EntryType) /\ Len(sites') = Len(Entries)
           /\ last' = [Marks EXCEPT ![k] = Current.granule]
    BY <1>2, EntryCounted, EntriesTallied
  <1>4. /\ Marks \in Seq(Ids) /\ Len(Marks) \in Nat
        /\ capacity' \in Nat /\ Len(Entries) <= capacity' /\ capacity' <= Len(Marks)
    BY <1>1, <1>2, MarksAre
  <1>5. k \in 1 .. Len(Marks)
    <2>1. k \in 1 .. Len(Entries) /\ Len(Entries) \in Nat
      BY <1>2, EntriesAre
    <2> QED
      BY <1>4, <2>1, SMT
  <1>6. Current.granule \in Ids
    BY <1>2 DEF Ids
  <1>7. last' \in Seq(Ids) /\ Len(last') = Len(Marks)
    BY <1>3, <1>4, <1>5, <1>6, ExceptSeq
  <1>8. ArrayInv'
    BY <1>3, <1>4, <1>7 DEF ArrayInv
  <1>9. Allocs' = Allocs /\ count' = count
    BY <1>1 DEF Allocs, Current, At, vars, ringVars
  <1>10. Len(Allocs) \in Nat
    <2>1. Allocs = Current.allocs
      BY <1>2, BufferAssumption, SMT DEF Allocs, RingInv
    <2> QED
      BY <1>2, <2>1, SummaryAssumption, LenProperties
  <1>11. PositionInv'
    BY <1>1, <1>9, <1>10, SMT DEF PositionInv
  <1> QED
    BY <1>8, <1>11

LEMMA CountTally ==
    ASSUME RingInv, alive, ArrayInv, PositionInv, TallyInv, CountAlloc
    PROVE  TallyInv'
  <1> DEFINE a == NextAlloc
             here == Next1
  <1>1. /\ UNCHANGED vars /\ entered' = entered /\ analyzed' = analyzed
        /\ total' = total + 1 /\ counted < Len(Allocs)
    BY DEF CountAlloc
  <1>2. /\ a \in [site : Sites, size : Nat] /\ AllocAt(here) = a
    BY <1>1, NextPlace
  <1>3. Done' = Done \cup {here} /\ here \notin Done
    BY DoneCounted
  <1>4. /\ \A q : AllocAt(q)' = AllocAt(q)
        /\ \A s, P : From(s, P)' = From(s, P)
        /\ \A P : BytesOf(P)' = BytesOf(P)
    BY <1>1, BufferKept
  <1>5. /\ \A k, m \in DOMAIN Entries : Entries[k].site = Entries[m].site => k = m
        /\ \A k \in DOMAIN Entries : Tallied(Entries[k], From(Entries[k].site, Done))
    BY <1>2, EntriesTallied
  <1>6. PICK k \in DOMAIN Entries :
           /\ Entries[k].site = a.site
           /\ DOMAIN sites' = DOMAIN Entries
           /\ \A m \in DOMAIN Entries : m # k => sites'[m] = Entries[m]
           /\ sites'[k].site = Entries[k].site
           /\ sites'[k].total_allocs = Entries[k].total_allocs + 1
           /\ sites'[k].total_bytes = Entries[k].total_bytes + a.size
    BY <1>2, <1>5, EntryCounted
  <1> HIDE DEF a, here
  <1>7. \A m \in DOMAIN Entries : sites'[m].site = Entries[m].site
    BY <1>6
  <1>8. /\ IsFiniteSet(Done') /\ total' = Cardinality(Done')
    BY <1>1, <1>3, FS_AddElement DEF TallyInv
  <1>9. ASSUME NEW q \in Done'
        PROVE  \E m \in DOMAIN sites' : sites'[m].site = AllocAt(q).site'
    <2>1. CASE q = here
      BY <1>2, <1>4, <1>6, <2>1
    <2>2. CASE q \in Done
      <3>1. PICK m \in DOMAIN sites : sites[m].site = AllocAt(q).site
        BY <2>2 DEF TallyInv
      <3>2. m \in DOMAIN Entries /\ Entries[m] = sites[m]
        BY <1>2, EntriesAre DEF a
      <3> QED
        BY <1>4, <1>6, <1>7, <3>1, <3>2
    <2> QED
      BY <1>3, <2>1, <2>2
  <1>10. ASSUME NEW m \in DOMAIN sites'
         PROVE  \E q \in Done' : sites'[m].site = AllocAt(q).site'
    <2>1. CASE m = k
      BY <1>2, <1>3, <1>4, <1>6, <2>1
    <2>2. CASE m # k
      <3>1. m \in DOMAIN Entries /\ Entries[m].site # a.site
        BY <1>5, <1>6, <2>2
      <3>2. m \in DOMAIN sites /\ Entries[m] = sites[m]
        <4>1. /\ DOMAIN Entries = 1 .. Len(Entries) /\ Len(Entries) \in Nat
              /\ DOMAIN sites = 1 .. Len(sites) /\ Len(sites) \in Nat
              /\ \A j \in DOMAIN sites : j \in DOMAIN Entries /\ Entries[j] = sites[j]
              /\ \/ Entries = sites
                 \/ /\ Len(Entries) = Len(sites) + 1
                    /\ Entries[Len(sites) + 1] = NewEntry(a.site)
          BY <1>2, EntriesAre DEF a
        <4>2. NewEntry(a.site).site = a.site
          BY DEF NewEntry
        <4>3. CASE Entries = sites
          BY <3>1, <4>1, <4>3
        <4>4. CASE Len(Entries) = Len(sites) + 1 /\ Entries[Len(sites) + 1] = NewEntry(a.site)
          <5>1. m # Len(sites) + 1 /\ m \in 1 .. Len(Entries)
            BY <3>1, <4>1, <4>2, <4>4
          <5>2. m \in 1 .. Len(sites)
            BY <4>1, <4>4, <5>1, SMT
          <5> QED
            BY <4>1, <5>2
        <4> QED
          BY <4>1, <4>3, <4>4
      <3> QED
        BY <1>3, <1>4, <1>6, <2>2, <3>2 DEF TallyInv
    <2> QED
      BY <2>1, <2>2
  <1>11. ASSUME NEW m \in DOMAIN sites'
         PROVE  Tallied(sites[m], From(sites[m].site, Done))'
    <2>1. m \in DOMAIN Entries /\ sites'[m].site = Entries[m].site
      BY <1>6, <1>7
    <2> DEFINE its == From(Entries[m].site, Done)
    <2>2. /\ IsFiniteSet(its) /\ IsFiniteSet(BytesOf(its))
          /\ Entries[m].total_allocs = Cardinality(its)
          /\ Entries[m].total_bytes = Cardinality(BytesOf(its))
      BY <1>5, <2>1 DEF Tallied
    <2>3. From(Entries[m].site, Done \cup {here})
             = IF AllocAt(here).site = Entries[m].site THEN its \cup {here} ELSE its
      BY FromMore
    <2>4. here \notin its
      BY <1>3 DEF From
    <2> HIDE DEF its
    <2>5. CASE m = k
      <3>1. From(Entries[m].site, Done \cup {here}) = its \cup {here}
        BY <1>2, <1>6, <2>3, <2>5
      <3>2. IsFiniteSet(its \cup {here}) /\ Cardinality(its \cup {here}) = Cardinality(its) + 1
        BY <2>2, <2>4, FS_AddElement
      <3>3. AllocAt(here).size \in Nat
        BY <1>2
      <3>4. /\ IsFiniteSet(BytesOf(its \cup {here}))
            /\ Cardinality(BytesOf(its \cup {here})) = Cardinality(BytesOf(its)) + AllocAt(here).size
        BY <2>2, <2>4, <3>3, BytesMore
      <3>5. /\ sites'[m].total_allocs = Cardinality(its \cup {here})
            /\ sites'[m].total_bytes = Cardinality(BytesOf(its \cup {here}))
        BY <1>2, <1>6, <2>2, <2>5, <3>2, <3>4
      <3> QED
        BY <1>3, <1>4, <2>1, <3>1, <3>2, <3>4, <3>5 DEF Tallied
    <2>6. CASE m # k
      <3>1. AllocAt(here).site # Entries[m].site
        BY <1>2, <1>5, <1>6, <2>1, <2>6
      <3> QED
        BY <1>3, <1>4, <1>6, <2>1, <2>2, <2>3, <2>6, <3>1 DEF Tallied
    <2> QED
      BY <2>5, <2>6
  <1>12. \A j, m \in DOMAIN sites' : sites'[j].site = sites'[m].site => j = m
    BY <1>5, <1>6, <1>7
  <1>13. analyzed' = entered'
    BY <1>1 DEF TallyInv
  <1> QED
    BY <1>8, <1>9, <1>10, <1>11, <1>12, <1>13 DEF TallyInv

-----------------------------------------------------------------------------
(* Once per granule                                                        *)

\* No two buffered reports are of one granule, and none is of the mark.
LEMMA GranulesDiffer ==
    ASSUME OwnGranules, RingInv, alive, NEW n \in 1 .. count, NEW m \in 1 .. count, n # m
    PROVE  Buffered[n].granule # Buffered[m].granule
  <1>1. /\ reports[At(n - 1)] = Buffered[n] /\ Buffered[n] \in Reports
        /\ reports[At(m - 1)] = Buffered[m] /\ Buffered[m] \in Reports
    BY CurrentIs
  <1>2. n - 1 \in 0 .. count - 1 /\ m - 1 \in 0 .. count - 1 /\ n - 1 # m - 1
    BY SMT DEF RingInv
  <1>3. Buffered[n] # Buffered[m]
    BY <1>1, <1>2 DEF RingInv
  <1> QED
    BY <1>1, <1>3 DEF OwnGranules

\* The entries with their marks stay right when the new one comes in.
LEMMA EntriesPinned ==
    ASSUME at = "pass", ArrayInv, TallyInv, PinningInv, NextAlloc \in [site : Sites, size : Nat]
    PROVE  /\ \A k \in DOMAIN Entries :
                 Pinned(Entries[k], Marks[k], From(Entries[k].site, Done))
           /\ \A k \in DOMAIN Marks : k > Len(Entries) => Marks[k] = Mark
  <1> DEFINE s == NextAlloc.site
             n == Len(sites) + 1
  <1>1. /\ DOMAIN Entries = 1 .. Len(Entries) /\ Len(Entries) \in Nat
        /\ DOMAIN sites = 1 .. Len(sites) /\ Len(sites) \in Nat
        /\ \A k \in DOMAIN sites : k \in DOMAIN Entries /\ Entries[k] = sites[k]
        /\ \/ Known(s) /\ Entries = sites
           \/ ~Known(s) /\ Len(Entries) = n /\ Entries[n] = NewEntry(s)
    BY EntriesAre
  <1>a. /\ Len(Entries) \in Nat /\ Len(sites) \in Nat
        /\ Len(Entries) = Len(sites) \/ Len(Entries) = Len(sites) + 1
    BY <1>1
  <1>2. /\ DOMAIN Marks = 1 .. Len(Marks) /\ Len(Marks) \in Nat
        /\ DOMAIN last = 1 .. Len(last) /\ Len(last) \in Nat
        /\ \A k \in DOMAIN Marks : Marks[k] = IF k \in DOMAIN last THEN last[k] ELSE Mark
        /\ Len(Entries) <= Len(Marks)
        /\ Len(sites) <= Len(last) /\ Len(last) <= Len(Marks)
    <2>1. /\ DOMAIN Marks = 1 .. Len(Marks) /\ Len(Marks) \in Nat
          /\ DOMAIN last = 1 .. Len(last) /\ Len(last) \in Nat
          /\ \A k \in DOMAIN Marks : Marks[k] = IF k \in DOMAIN last THEN last[k] ELSE Mark
          /\ CapacityFor(s) \in Nat /\ Len(last) <= Len(Marks)
          /\ Len(Entries) <= CapacityFor(s) /\ CapacityFor(s) <= Len(Marks)
      BY MarksAre
    <2>2. capacity \in Nat /\ Len(sites) <= capacity /\ capacity <= Len(last)
      BY DEF ArrayInv
    <2>3. Len(Entries) <= Len(Marks) /\ Len(sites) <= Len(last)
      <3>1. /\ Len(Marks) \in Nat /\ Len(last) \in Nat /\ CapacityFor(s) \in Nat
            /\ Len(Entries) <= CapacityFor(s) /\ CapacityFor(s) <= Len(Marks)
        BY <2>1
      <3> HIDE DEF s
      <3> QED
        BY <1>a, <2>2, <3>1, SMT
    <2> QED
      BY <2>1, <2>3
  <1>3. /\ \A k \in DOMAIN sites : Pinned(sites[k], last[k], From(sites[k].site, Done))
        /\ \A k \in DOMAIN last : k > Len(sites) => last[k] = Mark
    BY DEF PinningInv
  <1>4. \A k \in DOMAIN sites : k \in DOMAIN Marks /\ Marks[k] = last[k]
    <2>1. ASSUME NEW k \in DOMAIN sites
          PROVE  k \in DOMAIN Marks /\ k \in DOMAIN last
      <3>1. k \in 1 .. Len(sites)
        BY <1>1
      <3>2. k \in 1 .. Len(Marks) /\ k \in 1 .. Len(last)
        <4>1. /\ Len(Marks) \in Nat /\ Len(last) \in Nat
              /\ Len(sites) <= Len(last) /\ Len(last) <= Len(Marks)
          BY <1>2
        <4> QED
          BY <1>a, <3>1, <4>1, SMT
      <3> QED
        BY <1>2, <3>2
    <2> QED
      BY <1>2, <2>1
  <1>5. ASSUME NEW k \in DOMAIN Marks, k > Len(sites)
        PROVE  Marks[k] = Mark
    BY <1>2, <1>3, <1>5
  <1>6. ASSUME NEW k \in DOMAIN Entries
        PROVE  Pinned(Entries[k], Marks[k], From(Entries[k].site, Done))
    <2>1. CASE k \in DOMAIN sites
      BY <1>1, <1>3, <1>4, <2>1
    <2>2. CASE k \notin DOMAIN sites
      <3>1. ~Known(s) /\ Len(Entries) = n /\ Entries[n] = NewEntry(s)
        BY <1>1, <2>2
      <3>2. k \in 1 .. Len(Entries) /\ k \notin 1 .. Len(sites)
        BY <1>1, <2>2
      <3>3. k = n /\ k > Len(sites) /\ k \in 1 .. Len(Marks)
        BY <1>1, <1>2, <3>1, <3>2, SMT
      <3>4. Marks[k] = Mark
        BY <1>2, <1>5, <3>3
      <3>5. Entries[k].site = s /\ Entries[k].pinning_count = 0
        BY <3>1, <3>3 DEF NewEntry
      <3>6. From(s, Done) = {}
        BY <3>1, EntriesTallied
      <3>7. ReportsWith({}) = {}
        BY DEF ReportsWith
      <3>8. IsFiniteSet({}) /\ Cardinality({}) = 0
        BY FS_EmptySet
      <3> QED
        BY <3>4, <3>5, <3>6, <3>7, <3>8 DEF Pinned
    <2> QED
      BY <2>1, <2>2
  <1>7. ASSUME NEW k \in DOMAIN Marks, k > Len(Entries)
        PROVE  Marks[k] = Mark
    <2>1. k \in 1 .. Len(Marks) /\ Len(Marks) \in Nat
      BY <1>2
    <2>2. k > Len(sites)
      BY <1>a, <1>7, <2>1, SMT
    <2> QED
      BY <1>5, <2>2
  <1> QED
    BY <1>6, <1>7

\* The entry that counts the allocation: its mark is the present granule exactly if
\* the present report has been counted for it.
LEMMA PinnedMore ==
    ASSUME OwnGranules, RingInv, alive, PositionInv, CountAlloc,
           NEW e, NEW f, NEW mark, NEW its \in SUBSET Done, Pinned(e, mark, its),
           e.pinning_count \in Nat,
           f.pinning_count = IF mark # Current.granule
                             THEN e.pinning_count + 1 ELSE e.pinning_count
    PROVE  Pinned(f, Current.granule, its \cup {Next1})
  <1> DEFINE with == ReportsWith(its)
  <1>1. counted < Len(Allocs)
    BY DEF CountAlloc
  <1>2. /\ entered \in 1 .. count /\ count \in Nat
        /\ Current = Buffered[entered] /\ Current \in Reports /\ Next1[1] = entered
    BY <1>1, NextPlace
  <1>3. ReportsWith(its \cup {Next1}) = with \cup {entered}
    BY <1>2, ReportsMore
  <1>4. ASSUME NEW n \in with
        PROVE  n \in 1 .. count /\ n <= entered
    <2>1. PICK p \in Done : p[1] = n
      BY DEF ReportsWith
    <2>2. p[1] \in 1 .. count /\ (p[1] < entered \/ p[1] = entered)
      BY <2>1, PlaceNumbers DEF Done
    <2> QED
      BY <1>2, <2>1, <2>2, SMT
  <1>5. IsFiniteSet(with) /\ e.pinning_count = Cardinality(with)
    BY DEF Pinned
  <1>6. /\ IsFiniteSet(with \cup {entered})
        /\ Cardinality(with \cup {entered})
              = IF entered \in with THEN Cardinality(with) ELSE Cardinality(with) + 1
    BY <1>5, FS_AddElement
  <1>7. mark # Current.granule <=> entered \notin with
    <2>1. CASE its = {} /\ mark = Mark
      <3>1. entered \notin with
        BY <2>1 DEF ReportsWith
      <3> QED
        BY <1>2, <2>1, <3>1 DEF OwnGranules
    <2>2. ASSUME NEW n \in with, mark = Buffered[n].granule, \A m \in with : m <= n
          PROVE  mark # Current.granule <=> entered \notin with
      <3>1. n \in 1 .. count /\ n <= entered
        BY <1>4
      <3>2. CASE n = entered
        BY <1>2, <2>2, <3>2
      <3>3. CASE n # entered
        <4>1. Buffered[n].granule # Buffered[entered].granule
          BY <1>2, <3>1, <3>3, GranulesDiffer
        <4>2. entered \notin with
          BY <1>2, <2>2, <3>1, <3>3, SMT
        <4> QED
          BY <1>2, <2>2, <4>1, <4>2
      <3> QED
        BY <3>2, <3>3
    <2> QED
      BY <2>1, <2>2 DEF Pinned
  <1>8. f.pinning_count = Cardinality(with \cup {entered})
    BY <1>5, <1>6, <1>7
  <1>9. \A m \in with \cup {entered} : m <= entered
    BY <1>2, <1>4, SMT
  <1> QED
    BY <1>2, <1>3, <1>6, <1>8, <1>9 DEF Pinned

LEMMA CountPins ==
    ASSUME OwnGranules, RingInv, alive, at = "pass",
           ArrayInv, PositionInv, TallyInv, PinningInv, CountAlloc
    PROVE  PinningInv'
  <1> DEFINE a == NextAlloc
             g == Current.granule
             here == Next1
  <1>1. UNCHANGED vars /\ counted < Len(Allocs)
    BY DEF CountAlloc
  <1>2. a \in [site : Sites, size : Nat] /\ AllocAt(here) = a
    BY <1>1, NextPlace
  <1>3. Done' = Done \cup {here} /\ \A P : ReportsWith(P)' = ReportsWith(P)
    BY DoneCounted
  <1>4. Buffered' = Buffered /\ \A s, P : From(s, P)' = From(s, P)
    BY <1>1, BufferKept
  <1>5. /\ \A k, m \in DOMAIN Entries : Entries[k].site = Entries[m].site => k = m
        /\ \A k \in DOMAIN Entries : Pinned(Entries[k], Marks[k], From(Entries[k].site, Done))
        /\ \A k \in DOMAIN Marks : k > Len(Entries) => Marks[k] = Mark
    BY <1>2, EntriesTallied, EntriesPinned
  <1>6. PICK k \in DOMAIN Entries :
           /\ Entries[k].site = a.site
           /\ Len(sites') = Len(Entries) /\ DOMAIN sites' = DOMAIN Entries
           /\ \A m \in DOMAIN Entries : m # k => sites'[m] = Entries[m]
           /\ sites'[k].site = Entries[k].site
           /\ sites'[k].pinning_count =
                 IF Marks[k] # g THEN Entries[k].pinning_count + 1 ELSE Entries[k].pinning_count
           /\ last' = [Marks EXCEPT ![k] = g]
    BY <1>2, <1>5, EntryCounted
  <1>7. /\ DOMAIN last' = DOMAIN Marks /\ k \in DOMAIN Marks
        /\ \A m \in DOMAIN Entries : m \in DOMAIN Marks
        /\ k \in 1 .. Len(Entries) /\ Len(Entries) \in Nat /\ DOMAIN Marks = 1 .. Len(Marks)
        /\ Entries[k].pinning_count \in Nat
    <2>1. /\ DOMAIN Entries = 1 .. Len(Entries) /\ Len(Entries) \in Nat
          /\ Entries \in Seq(EntryType)
      BY <1>2, EntriesAre
    <2>2. /\ DOMAIN Marks = 1 .. Len(Marks) /\ Len(Marks) \in Nat
          /\ CapacityFor(a.site) \in Nat
          /\ Len(Entries) <= CapacityFor(a.site) /\ CapacityFor(a.site) <= Len(Marks)
      BY <1>2, MarksAre
    <2>3. \A m \in 1 .. Len(Entries) : m \in 1 .. Len(Marks)
      BY <2>1, <2>2, SMT
    <2>4. Entries[k] \in EntryType
      BY <2>1, ElementOfSeq
    <2> QED
      BY <1>6, <2>1, <2>2, <2>3, <2>4 DEF EntryType
  <1> HIDE DEF a, g, here
  <1>8. ASSUME NEW m \in DOMAIN sites'
        PROVE  Pinned(sites[m], last[m], From(sites[m].site, Done))'
    <2>1. m \in DOMAIN Entries /\ sites'[m].site = Entries[m].site /\ m \in DOMAIN Marks
      BY <1>6, <1>7
    <2> DEFINE its == From(Entries[m].site, Done)
    <2>2. From(Entries[m].site, Done \cup {here})
             = IF AllocAt(here).site = Entries[m].site THEN its \cup {here} ELSE its
      BY FromMore
    <2>3. its \in SUBSET Done /\ Pinned(Entries[m], Marks[m], its)
      BY <1>5, <2>1 DEF From
    <2> HIDE DEF its
    <2>4. CASE m = k
      <3>1. Pinned(sites'[m], g, its \cup {here})
        BY <1>6, <1>7, <2>3, <2>4, PinnedMore DEF g, here
      <3>2. last'[m] = g
        BY <1>6, <1>7, <2>4
      <3>3. From(Entries[m].site, Done \cup {here}) = its \cup {here}
        BY <1>2, <1>6, <2>2, <2>4
      <3> QED
        BY <1>3, <1>4, <2>1, <3>1, <3>2, <3>3 DEF Pinned
    <2>5. CASE m # k
      <3>1. From(Entries[m].site, Done \cup {here}) = its
        BY <1>2, <1>5, <1>6, <2>1, <2>2, <2>5
      <3>2. sites'[m] = Entries[m] /\ last'[m] = Marks[m]
        BY <1>6, <1>7, <2>1, <2>5
      <3> QED
        BY <1>3, <1>4, <2>1, <2>3, <3>1, <3>2 DEF Pinned
    <2> QED
      BY <2>4, <2>5
  <1>9. ASSUME NEW m \in DOMAIN last', m > Len(sites')
        PROVE  last'[m] = Mark
    <2>1. m \in DOMAIN Marks /\ m > Len(Entries)
      BY <1>6, <1>7, <1>9
    <2>2. m # k
      BY <1>7, <2>1, SMT
    <2> QED
      BY <1>5, <1>6, <2>1, <2>2
  <1> QED
    BY <1>8, <1>9 DEF PinningInv

-----------------------------------------------------------------------------
(* The other steps of a call                                               *)

\* The outer loop goes on: the places it has come past are the same ones, since the
\* last report was counted to its end and nothing of the next one is.
LEMMA DoneEntered ==
    ASSUME RingInv, alive, PositionInv, EnterReport
    PROVE  Done' = Done /\ \A P : ReportsWith(P)' = ReportsWith(P)
  <1>1. /\ UNCHANGED vars /\ entered' = entered + 1 /\ counted' = 0
        /\ counted = Len(Allocs) /\ entered \in Nat
    BY SMT DEF EnterReport, PositionInv
  <1>2. Places' = Places
    BY <1>1, BufferKept
  <1>3. ASSUME NEW p \in Places
        PROVE  (p[1] < entered \/ (p[1] = entered /\ p[2] <= counted))
                  <=> (p[1] < entered + 1 \/ (p[1] = entered + 1 /\ p[2] <= 0))
    <2>1. p[1] \in 1 .. count /\ p[2] \in 1 .. Len(Buffered[p[1]].allocs)
      BY PlaceNumbers
    <2>2. p[1] \in Nat /\ p[2] \in Nat /\ p[1] # 0 /\ p[2] # 0
      BY <2>1, PlaceNumbers, SMT
    <2>3. p[1] = entered => p[2] <= counted
      <3>1. SUFFICES ASSUME p[1] = entered PROVE p[2] <= counted
        OBVIOUS
      <3>2. entered # 0 /\ Current = Buffered[entered] /\ Buffered[entered] # Null
        BY <2>1, <2>2, <3>1, CurrentIs DEF Current
      <3>3. Len(Allocs) = Len(Buffered[p[1]].allocs)
        BY <3>1, <3>2 DEF Allocs
      <3>4. Buffered[p[1]].allocs \in Seq([site : Sites, size : Nat])
        BY <2>1, CurrentIs
      <3>5. Len(Buffered[p[1]].allocs) \in Nat
        BY <3>4, LenProperties
      <3> QED
        BY <1>1, <2>1, <3>3, <3>5, SMT
    <2> QED
      BY <1>1, <2>2, <2>3, SMT
  <1>4. Done' = {p \in Places : p[1] < entered + 1 \/ (p[1] = entered + 1 /\ p[2] <= 0)}
    BY <1>1, <1>2 DEF Done
  <1>5. Done' = Done
    BY <1>3, <1>4 DEF Done
  <1> QED
    BY <1>5 DEF ReportsWith

\* What is said of the entries is said of them again when the places done, the
\* entries and their marks are the same.
LEMMA FiguresKept ==
    ASSUME UNCHANGED <<vars, sites, last, total>>, Done' = Done, TallyInv,
           analyzed' = entered', \A P : ReportsWith(P)' = ReportsWith(P)
    PROVE  /\ TallyInv'
           /\ at = "pass" /\ at' = "pass" /\ PinningInv => PinningInv'
  <1>1. /\ Buffered' = Buffered
        /\ \A p : AllocAt(p)' = AllocAt(p)
        /\ \A s, P : From(s, P)' = From(s, P)
        /\ \A P : BytesOf(P)' = BytesOf(P)
    BY BufferKept
  <1>2. TallyInv'
    <2>1. \A k \in DOMAIN sites :
             Tallied(sites[k], From(sites[k].site, Done))
                => Tallied(sites'[k], From(sites[k].site, Done)')
      BY <1>1 DEF Tallied
    <2> QED
      BY <1>1 DEF TallyInv, Tallied
  <1>3. ASSUME at = "pass", at' = "pass", PinningInv
        PROVE  PinningInv'
    BY <1>1, <1>3 DEF PinningInv, Pinned
  <1> QED
    BY <1>2, <1>3

LEMMA EnterKeeps ==
    ASSUME RingInv, alive, ArrayInv, PositionInv, TallyInv, EnterReport
    PROVE  ArrayInv' /\ PositionInv' /\ TallyInv' /\ (PinningInv => PinningInv')
  <1>1. /\ UNCHANGED <<vars, sites, last, total, capacity>> /\ at = "pass" /\ at' = "pass"
        /\ entered < count /\ entered' = entered + 1 /\ counted' = 0
        /\ analyzed' = IF reports[At(entered)] = Null THEN analyzed ELSE analyzed + 1
    BY DEF EnterReport
  <1>2. Done' = Done /\ \A P : ReportsWith(P)' = ReportsWith(P)
    BY DoneEntered
  <1>3. count \in Nat /\ entered \in 0 .. count
    BY SMT DEF RingInv, PositionInv
  <1>4. entered + 1 \in 1 .. count /\ (entered + 1) - 1 = entered
    BY <1>1, <1>3, SMT
  <1>5. /\ reports[At((entered + 1) - 1)] = Buffered[entered + 1]
        /\ Buffered[entered + 1] # Null
        /\ Buffered[entered + 1].allocs \in Seq([site : Sites, size : Nat])
    BY <1>4, CurrentIs
  <1>6. reports[At(entered)] # Null
    BY <1>4, <1>5
  <1>7. analyzed' = entered'
    BY <1>1, <1>6 DEF TallyInv
  <1>8. TallyInv' /\ (PinningInv => PinningInv')
    BY <1>1, <1>2, <1>7, FiguresKept
  <1>9. ArrayInv'
    BY <1>1 DEF ArrayInv
  <1>10. PositionInv'
    <2>1. Allocs' = Buffered[entered + 1].allocs
      <3>1. Current' = reports[At(entered' - 1)]
        BY <1>1 DEF Current, At, vars, ringVars
      <3>2. Current' = Buffered[entered + 1] /\ entered' # 0
        BY <1>1, <1>4, <1>5, <3>1
      <3> QED
        BY <1>5, <3>2 DEF Allocs
    <2>2. Len(Allocs') \in Nat
      BY <1>5, <2>1, LenProperties
    <2>3. count' = count /\ entered' \in 0 .. count /\ counted' \in 0 .. Len(Allocs')
      BY <1>1, <1>4, <2>2, SMT DEF vars, ringVars
    <2> QED
      BY <2>3 DEF PositionInv
  <1> QED
    BY <1>8, <1>9, <1>10

\* With the locals of a fresh call, the loops have come past no place.
LEMMA FreshCall ==
    ASSUME RingInv, alive, sites = <<>>, capacity = 0, last = NoMarks,
           total = 0, analyzed = 0, entered = 0, counted = 0
    PROVE  /\ ArrayInv /\ PositionInv /\ TallyInv
           /\ PinningInv
  <1>1. DOMAIN sites = {} /\ Len(sites) = 0 /\ sites \in Seq(EntryType)
    BY SMT
  <1>2. /\ last \in Seq(Ids) /\ Len(last) = FirstCapacity /\ DOMAIN last = 1 .. FirstCapacity
        /\ \A k \in DOMAIN last : last[k] = Mark
    <2>1. Mark \in Ids
      BY DEF Ids
    <2>2. FirstCapacity \in Nat
      BY SummaryAssumption
    <2> DEFINE e(k) == Mark
    <2>3. last = [k \in 1 .. FirstCapacity |-> e(k)] /\ \A k \in 1 .. FirstCapacity : e(k) \in Ids
      BY <2>1 DEF NoMarks
    <2> HIDE DEF e
    <2>4. last \in Seq(Ids)
      BY <2>2, <2>3, IsASeq
    <2>5. DOMAIN last = 1 .. FirstCapacity
      BY <2>3
    <2>6. Len(last) = FirstCapacity
      BY <2>2, <2>4, <2>5, LenProperties, SMT
    <2> QED
      BY <2>3, <2>4, <2>5, <2>6 DEF e
  <1>3. ArrayInv
    BY <1>1, <1>2, SummaryAssumption, SMT DEF ArrayInv
  <1>4. PositionInv
    <2>1. Allocs = <<>> /\ Len(<<>>) = 0
      BY SMT DEF Allocs
    <2>2. count \in Nat
      BY SMT DEF RingInv
    <2> QED
      BY <2>1, <2>2, SMT DEF PositionInv
  <1>5. Done = {}
    <2>1. ASSUME NEW p \in Places
          PROVE  ~(p[1] < 0 \/ (p[1] = 0 /\ p[2] <= 0))
      <3>1. p[1] \in 1 .. count /\ p[1] \in Nat
        BY PlaceNumbers
      <3> QED
        BY <3>1, SMT
    <2> QED
      BY <2>1 DEF Done
  <1>6. IsFiniteSet({}) /\ Cardinality({}) = 0
    BY FS_EmptySet
  <1>7. TallyInv
    BY <1>1, <1>5, <1>6 DEF TallyInv
  <1>8. PinningInv
    BY <1>1, <1>2 DEF PinningInv
  <1> QED
    BY <1>3, <1>4, <1>7, <1>8

\* A step that changes neither the buffer nor the figures keeps what is said of them.
LEMMA Unmoved ==
    ASSUME UNCHANGED <<vars, figures>>
    PROVE  /\ ArrayInv => ArrayInv'
           /\ PositionInv => PositionInv'
           /\ TallyInv => TallyInv'
           /\ TallyInv /\ at = "pass" /\ at' = "pass" /\ PinningInv => PinningInv'
  <1>1. UNCHANGED vars /\ UNCHANGED figures
    OBVIOUS
  <1>2. Allocs' = Allocs /\ count' = count
    BY <1>1 DEF figures, Allocs, Current, At, vars, ringVars
  <1>3. Places' = Places
    BY <1>1, BufferKept
  <1>4. Done' = Done /\ \A P : ReportsWith(P)' = ReportsWith(P)
    BY <1>1, <1>3 DEF Done, figures, ReportsWith
  <1>5. ArrayInv => ArrayInv'
    BY <1>1 DEF figures, ArrayInv
  <1>6. PositionInv => PositionInv'
    BY <1>1, <1>2 DEF figures, PositionInv
  <1>7. TallyInv => analyzed' = entered'
    BY <1>1 DEF figures, TallyInv
  <1>8. UNCHANGED <<vars, sites, last, total>>
    BY <1>1 DEF figures
  <1> QED
    BY <1>4, <1>5, <1>6, <1>7, <1>8, FiguresKept

\* The steps of the pass itself.
LEMMA PassKeeps ==
    ASSUME RingInv, SummaryInv, at = "pass", at' = "pass", [SummaryNext]_summaryVars
    PROVE  /\ ArrayInv' /\ PositionInv' /\ TallyInv'
           /\ OwnGranules /\ PinningInv => PinningInv'
  <1>1. ArrayInv /\ PositionInv /\ TallyInv /\ alive
    BY DEF SummaryInv, CallInv
  <1>2. CASE EnterReport
    BY <1>1, <1>2, EnterKeeps
  <1>3. CASE CountAlloc
    BY <1>1, <1>3, CountArrays, CountTally, CountPins
  <1>4. CASE UNCHANGED summaryVars
    <2>1. UNCHANGED <<vars, figures>>
      BY <1>4 DEF summaryVars, passVars
    <2> QED
      BY <1>1, <2>1, Unmoved
  <1>5. EnterReport \/ CountAlloc \/ UNCHANGED summaryVars
    BY DEF SummaryNext, Begin, Lock, LockFails, GiveUp, Answer, Free, UseBuffer,
           DestroyProfiler, Return
  <1> QED
    BY <1>2, <1>3, <1>4, <1>5

\* The pass begins with the fresh locals of its call.
LEMMA LockKeeps ==
    ASSUME RingInv, SummaryInv, Lock
    PROVE  ArrayInv' /\ PositionInv' /\ TallyInv' /\ PinningInv'
  <1>1. /\ UNCHANGED <<vars, figures>> /\ at = "begun" /\ at' = "pass"
    BY DEF Lock
  <1>2. /\ alive /\ sites = <<>> /\ capacity = 0 /\ last = NoMarks
        /\ total = 0 /\ analyzed = 0 /\ entered = 0 /\ counted = 0
    BY <1>1 DEF SummaryInv, CallInv
  <1>3. ArrayInv /\ PositionInv /\ TallyInv
    BY <1>2, FreshCall
  <1>4. ArrayInv' /\ PositionInv' /\ TallyInv'
    BY <1>1, <1>3, Unmoved
  <1>5. DOMAIN sites' = {} /\ Len(sites') = 0
    BY <1>1, <1>2, SMT DEF figures
  <1>6. last' = NoMarks
    BY <1>1, <1>2 DEF figures
  <1>7. \A k \in DOMAIN last' : last'[k] = Mark
    BY <1>6 DEF NoMarks
  <1>8. PinningInv'
    BY <1>5, <1>7 DEF PinningInv
  <1> QED
    BY <1>4, <1>8

\* What the call owns, at every step of it and of those beside it.
LEMMA CallKept ==
    ASSUME RingInv, CallInv, [SummaryNext]_summaryVars
    PROVE  CallInv'
  <1> USE DEF CallInv
  <1>1. CASE Begin
    BY <1>1 DEF Begin, figures, vars
  <1>2. CASE Lock
    BY <1>2 DEF Lock, figures, vars
  <1>3. CASE LockFails
    BY <1>3 DEF LockFails, Return, vars
  <1>4. CASE EnterReport
    BY <1>4 DEF EnterReport, vars
  <1>5. CASE CountAlloc
    <2>1. /\ at = "pass" /\ at' = "pass" /\ alive' = alive
          /\ blocks' = blocks \cup {"sites"}
      BY <1>5 DEF CountAlloc, vars
    <2> QED
      BY <2>1
  <1>6. CASE GiveUp
    BY <1>6 DEF GiveUp, Return, vars
  <1>7. CASE Answer
    BY <1>7 DEF Answer, figures, vars
  <1>8. CASE Free
    BY <1>8 DEF Free, Return, vars
  <1>9. CASE UseBuffer
    <2>1. UNCHANGED passVars /\ alive' = alive
      BY <1>9 DEF UseBuffer, Push, Drain
    <2> QED
      BY <2>1 DEF passVars, figures
  <1>10. CASE DestroyProfiler
    <2>1. UNCHANGED passVars /\ at \in {"none", "answered"}
      BY <1>10 DEF DestroyProfiler
    <2> QED
      BY <2>1 DEF passVars, figures
  <1>11. CASE UNCHANGED summaryVars
    BY <1>11 DEF summaryVars, passVars, figures, vars
  <1> QED
    BY <1>1, <1>2, <1>3, <1>4, <1>5, <1>6, <1>7, <1>8, <1>9, <1>10, <1>11 DEF SummaryNext

\* A step into the pass is a step of it, or the one that takes the mutex.
LEMMA IntoPass ==
    ASSUME [SummaryNext]_summaryVars, at' = "pass"
    PROVE  at = "pass" \/ Lock
  BY DEF SummaryNext, summaryVars, passVars, Begin, LockFails, EnterReport, CountAlloc, GiveUp,
         Answer, Free, UseBuffer, DestroyProfiler, Return

LEMMA SummaryInitInv == SummaryInit => SummaryInv /\ PinningInv
  BY DEF SummaryInit, SummaryInv, CallInv, PinningInv

LEMMA SummaryStep ==
    ASSUME RingInv, SummaryInv, [SummaryNext]_summaryVars
    PROVE  SummaryInv'
  <1>1. CallInv'
    BY CallKept DEF SummaryInv
  <1>2. ASSUME at' = "pass"
        PROVE  ArrayInv' /\ PositionInv' /\ TallyInv'
    BY <1>2, IntoPass, PassKeeps, LockKeeps
  <1> QED
    BY <1>1, <1>2 DEF SummaryInv

LEMMA PinningStep ==
    ASSUME OwnGranules, RingInv, SummaryInv, PinningInv, [SummaryNext]_summaryVars
    PROVE  PinningInv'
  <1>1. CASE at' = "pass"
    BY <1>1, IntoPass, PassKeeps, LockKeeps
  <1>2. CASE at' # "pass"
    BY <1>2 DEF PinningInv
  <1> QED
    BY <1>1, <1>2

\* The invariant of the summary: the figures of the sites met are those of the
\* allocations the loops have come past, in arrays long enough for them, and the
\* call owns what it has allocated and nothing else.
THEOREM SummaryInvariant == SummarySpec => []SummaryInv
  <1>1. SummaryInit => SummaryInv
    BY SummaryInitInv
  <1>2. RingInv /\ SummaryInv /\ [SummaryNext]_summaryVars => SummaryInv'
    BY SummaryStep
  <1>3. SummarySpec => []RingInv
    BY SummaryKeepsRing
  <1> QED
    BY <1>1, <1>2, <1>3, PTL DEF SummarySpec

-----------------------------------------------------------------------------
(* The figures of a call at its end                                        *)

\* At the end of the loops, no place is left.
LEMMA AllDone ==
    ASSUME RingInv, SummaryInv, Complete
    PROVE  Done = Places
  <1>1. alive /\ entered = count /\ counted = Len(Allocs) /\ count \in Nat
    BY SMT DEF Complete, SummaryInv, CallInv, RingInv
  <1>2. ASSUME NEW p \in Places
        PROVE  p[1] < entered \/ (p[1] = entered /\ p[2] <= counted)
    <2>1. /\ p[1] \in 1 .. count /\ p[2] \in 1 .. Len(Buffered[p[1]].allocs)
          /\ p[1] \in Nat /\ p[2] \in Nat
      BY <1>1, PlaceNumbers
    <2>2. CASE p[1] = count
      <3>1. Allocs = Buffered[p[1]].allocs
        <4>1. entered # 0
          BY <1>1, <2>1, <2>2, SMT
        <4>2. Current = Buffered[p[1]] /\ Buffered[p[1]] # Null
          BY <1>1, <2>1, <2>2, CurrentIs DEF Current
        <4> QED
          BY <4>1, <4>2 DEF Allocs
      <3>2. Buffered[p[1]].allocs \in Seq([site : Sites, size : Nat])
        BY <1>1, <2>1, CurrentIs
      <3>3. Len(Buffered[p[1]].allocs) \in Nat
        BY <3>2, LenProperties
      <3>4. counted = Len(Buffered[p[1]].allocs)
        BY <1>1, <3>1
      <3> QED
        BY <1>1, <2>1, <2>2, <3>3, <3>4, SMT
    <2>3. CASE p[1] # count
      BY <1>1, <2>1, <2>3, SMT
    <2> QED
      BY <2>2, <2>3
  <1> QED
    BY <1>2 DEF Done

\* Every site of the buffer has one entry with its exact figures when the loops are
\* through, and nothing is left of a call that failed or was freed: for any number
\* of reports of any length, and any first capacity.
THEOREM SummariesExact == SummarySpec => []SummaryExact
  <1>1. ASSUME RingInv, SummaryInv PROVE SummaryExact
    <2>1. at = "none" => blocks = {}
      BY <1>1 DEF SummaryInv, CallInv
    <2>2. ASSUME Complete
          PROVE  /\ {sites[k].site : k \in DOMAIN sites} = {AllocAt(p).site : p \in Places}
                 /\ \A k, m \in DOMAIN sites : sites[k].site = sites[m].site => k = m
                 /\ \A k \in DOMAIN sites : Tallied(sites[k], From(sites[k].site, Places))
                 /\ analyzed = count
                 /\ total = Cardinality(Places)
      <3>1. TallyInv /\ entered = count
        BY <1>1, <2>2 DEF Complete, SummaryInv
      <3>2. Done = Places
        BY <1>1, <2>2, AllDone
      <3> QED
        BY <3>1, <3>2 DEF TallyInv
    <2> QED
      BY <2>1, <2>2 DEF SummaryExact, Tallied
  <1> QED
    BY <1>1, SummaryKeepsRing, SummaryInvariant, PTL

\* Where no two reports are of one granule id, the pinning count of a site is the
\* number of granules it pinned, however the reports of other sites come between.
THEOREM PinningCounted ==
    ASSUME OwnGranules
    PROVE  SummarySpec => []PinningCountExact
  <1>1. SummaryInit => PinningInv
    BY SummaryInitInv
  <1>2. RingInv /\ SummaryInv /\ PinningInv /\ [SummaryNext]_summaryVars => PinningInv'
    BY PinningStep
  <1>3. ASSUME RingInv, SummaryInv, PinningInv PROVE PinningCountExact
    <2>1. SUFFICES ASSUME Complete, NEW k \in DOMAIN sites
          PROVE  sites[k].pinning_count
                    = Cardinality(ReportsWith(From(sites[k].site, Places)))
      BY DEF PinningCountExact
    <2>2. Done = Places
      BY <1>3, <2>1, AllDone
    <2>3. Pinned(sites[k], last[k], From(sites[k].site, Done))
      BY <1>3, <2>1 DEF PinningInv, Complete
    <2> QED
      BY <2>2, <2>3 DEF Pinned
  <1> QED
    BY <1>1, <1>2, <1>3, SummaryKeepsRing, SummaryInvariant, PTL DEF SummarySpec

\* Beside the summaries, too, the ring is the queue with a limit it stands for.
THEOREM SummaryKeepsQueue == SummarySpec => ImplementsQueue
  <1>1. SummarySpec => Spec
    BY SummaryKeepsRing, PTL
  <1> QED
    BY <1>1, RingIsQueue

=============================================================================
