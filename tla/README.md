# Drainability profiler: TLA+ models and proofs

libdrainprof counts, for every *granule* of an allocator (a slab, an arena, an
epoch), the allocations that are alive in it, and tells the allocator at the
granule's close whether the granule was *drainable* (nothing alive) or *pinned*.
In production mode this is a lock-free array of slots shared by the allocator's
threads; in diagnostic mode every allocation is recorded and every pinned close
produces a report. These modules model that code in both modes, TLC checks them
on small instances, and TLAPS proves the central properties for every instance.

Paths below are those of the repository (`src/slot_array.c`, ...).

## Inventory

| Part | State | Operations | What makes it hard |
|---|---|---|---|
| Slot array (`src/slot_array.c`) | per slot: `occupied`, `granule_id`, `live_count`, each atomic | `open` (probe, compare-and-swap, two stores), `close` (probe, load, three stores), `alloc`, `dealloc` (probe, one fetch-and-add) | no lock between a probe and the use of what it found; slots are released and claimed meanwhile; linear probing without tombstones |
| Counters (`src/counters.c`) | seven atomic 64-bit integers | init, reset, single atomic updates | they are updated one at a time |
| API (`src/drainprof.c`) | configuration, storage, counters | `granule_open`, `granule_close`, `alloc_register`, `alloc_deregister`, `snapshot`, `sweep`, `reset`, `drain_reports` | storage and counters change in separate steps; a compare-and-swap loop keeps the peak; queries race with everything |
| Lifecycle (`src/drainprof.c` and the create and destroy functions) | blocks of memory | `create_with_config`, `destroy` | any allocation may fail half-way; granules and reports may be left at the end |
| Diagnostic slots (`src/diagnostic.c`) | per slot: `occupied`, a plain pointer | `open`, `get`, `close` | one slot per id without probing; the pointer is not atomic; what it points to is freed at close |
| Allocation records (`src/diagnostic.c`) | array of records, `live_count`, scan hint | `add_alloc`, `mark_freed`, `generate_report`, under a mutex | ids freed out of order, used again or unknown; the array grows; memory runs out |
| Report buffer (`src/diagnostic.c`) | ring of report pointers, `count`, `head`, `tail` | `push`, `drain`, `destroy`, under a mutex | the limit, wrapping around, who frees a report |
| Summary (`src/diagnostic.c`) | none that lasts: two local arrays, counts, what it has allocated | `summary_compute`, under the buffer's mutex, and `summary_free` | two arrays that grow by different rules and are indexed alike, a count once per granule, memory that runs out with the mutex held |
| Clients (`include/drainprof.h`, `examples/`) | which granules are open, what is alive | calls | ids are used again, allocations are freed late |

The threads of the allocator call the API. `granule_open` and `granule_close`
go to the storage first and to the counters afterwards; `alloc_register` and
`alloc_deregister` count first and search the storage afterwards. In diagnostic
mode a pinned close pushes a report to the buffer or hands it to a callback.
Snapshots and sweeps read the counters and the slots while all this goes on.

What must be right:

* slot array: a slot belongs to one granule at a time, an update lands in the
  slot of its granule, the count a close returns is the number of live
  allocations, an open granule is found, every search ends;
* diagnostic slots: nobody follows a pointer to freed memory, although only the
  clients' contract keeps a close and the users of its state apart; no state is
  lost or freed twice, whichever allocation fails;
* records: the unfreed ones are the allocations the client holds, and a report
  names exactly those;
* both storages: to the client, a call acts at one moment, as in a ledger;
* counters: each close is counted once and with the verdict its caller got,
  `open_granules` is the number of open granules, the peak is the maximum;
* queries: how wrong a racing snapshot or sweep may be, and that it is safe;
* report buffer: a bounded queue; each report is freed or handed out once;
* lifecycle: a failed creation and a destruction give all memory back;
* summary: equal to the plain definition of its figures, or nothing at all when
  memory runs out.

`PROJECT.json` lists the components, and under `hazards` the places where the
code is hard to test, each with the properties that watch it.

## Modules

| Module | What it is |
|---|---|
| `Client` | the calls the threads may make: the contract of `include/drainprof.h`, and the client's own books (`phase`, `opens`, `held`, `stale`). Code outside the library |
| `GranuleLedger` | abstract storage: a ledger of open granules and live counts; calls act at one moment between call and return |
| `SlotArray` | `src/slot_array.c`, one action per atomic operation; extends `Client` |
| `GranuleDiag` | the state of one diagnostic granule: its records and the functions on them, as operators |
| `DiagSlots` | the diagnostic slots, and the diagnostic branch of each API function; extends `Client` and `GranuleDiag` |
| `Counters` | `src/counters.c` |
| `ProfilerApi` | what both modes share of `src/drainprof.c`: counting, the peak, snapshots, sweeps, resets |
| `ProductionProfiler` | `ProfilerApi` on `SlotArray` |
| `DiagnosticProfiler` | `ProfilerApi` on `DiagSlots`, with `ReportBuffer` and `Lifecycle`: the profiler from creation to destruction |
| `Lifecycle` | what is allocated, in which order, and what each error path gives back |
| `BoundedQueue` | abstract queue of reports that drops the oldest |
| `ReportBuffer` | the ring of reports |
| `Summary` | the aggregation over the ring, one action per report and per allocation, with its failures, beside the plain definition of its figures; extends `ReportBuffer` |
| `*_proofs` | the theorems about the module they are named after |
| `MC*` | instances for TLC |

Operators whose comment starts with "Mutant:" are faulty versions of the
operator that follows them. No specification uses them; each shows that one
property fails when the code has that bug.

### How state and actions correspond to the code

`pc[t]` names the next operation of thread `t`, `call[t]` the function it is in,
`ret[t]` the value it will return. `occupied`, `granule_id` and `live_count` are
the fields of `drainprof_granule_slot`; `probe[t]` is the loop variable of a
probe. All atomics of the code are sequentially consistent, so an interleaving
of these actions is an execution of the code, and the other way round.

In diagnostic mode `occupied` and `diag` are the fields of `drainprof_diag_slot`,
`heap` maps the places on the heap to the granules' states, and `ptr[t]` is the
local pointer of a thread. `slot->diag` is not atomic. A function that mentions
it twice may use the value it has or load it again, so the actions choose
(`Reread`). No action follows a pointer to freed memory, where the code's
behaviour is undefined; `SafeAccess` says that no thread comes to such a step,
and freed places are handed out again. Functions that hold a mutex throughout
are one action, with an operator of `GranuleDiag` or `ReportBuffer` for its
effect.

| Code | Actions |
|---|---|
| `find_slot` | `FindLoadOccupied`, `FindLoadId`, `NextProbe` |
| `drainprof_slot_array_open` | `OpenLoadOccupied`, `OpenLoadId`, `OpenClaim`, `OpenStoreId`, `OpenStoreLive` |
| `drainprof_slot_array_close` | `CloseLoadLive`, `CloseClearLive`, `CloseClearId`, `CloseRelease` |
| `drainprof_slot_array_alloc`, `_dealloc` | `AllocFetchAdd`, `DeallocFetchSub` |
| `drainprof_slot_array_diag_open` | `OpenClaim`, `OpenCreate`, `OpenRelease` of `DiagSlots` |
| `drainprof_slot_array_diag_get` | `FindOccupied`, `FindDiag`, `FindId` |
| `drainprof_slot_array_diag_close` | the same three, then `CloseTake`, `CloseRelease` |
| `drainprof_granule_diag_add_alloc`, `_mark_freed` | `AllocAdd` with `AddAlloc`; `DeallocMark` with `Found` and `Mark` |
| diagnostic part of `drainprof_granule_close` | `CloseLoad`, `CloseReport` (with `Report`), `ClosePush`, `CloseDestroy` |
| `drainprof_granule_open`, after the storage | `CountOpen`, `PeakLoad`, `PeakSwap` |
| `drainprof_granule_close`, after the storage | `CountClose`, `CountTotal`, `CountVerdict` |
| `drainprof_alloc_register`, `_deregister` | `CountCall`, then the storage |
| `drainprof_snapshot`, `drainprof_sweep` | `SnapshotLoad`; `SweepLoad`, `SweepOccupied`, `SweepDiag` (diagnostic), `SweepLive` |
| `drainprof_reset` | `ResetCounter`; in production mode `ResetLive`, `ResetOccupied`, `ResetId` |
| `drainprof_report_buffer_push`, `_drain`, `_destroy` | `Push`, `Drain`, `Destroy` of `ReportBuffer` |
| `drainprof_create_with_config`, `drainprof_destroy` | `CreatePart`, `CreateFail`; `DestroyProfiler` |
| `drainprof_diagnostic_summary_compute` | `Begin`, `Lock` or `LockFails`, then `EnterReport` and `CountAlloc` (with `FindOrCreate`, `CapacityFor`, `Tracking`, `Uncounted`) until `Answer` or `GiveUp` |
| `drainprof_diagnostic_summary_free` | `Free` |

A summary holds the buffer's mutex from `Lock` to `Answer`, so pushes and drains
(`UseBuffer`) come before or after its pass, also between the allocation of the
summary and the pass. `blocks` is what the call has allocated and nobody has
freed yet. The module has one summary at a time: the mutex keeps the passes of
two calls apart, and all their variables but the ring are local.

Data that no property tells apart is left out: sizes and sites outside the
summary, timestamps, log lines. `Hash` stands for the mixing function
`hash_granule_id`: the runs choose functions that collide and ones that do not,
the proofs hold for all. `CountMod` (2^32 in the code) and `CounterMod` (2^64)
are the moduli of the unsigned counters. `drainprof_granule_diag_create` makes
three allocations; one choice of failing in `OpenCreate` stands for all three,
because each of its error paths leaves what was there before.

### The client's contract

An id is unique among open granules and may be used again after its close; no
register or deregister of a granule is in flight when it is closed; no more
granules are in use than `slot_capacity`; an allocation is deregistered once;
an allocation id is an address, so two live allocations never share one.
An allocation may be freed *after* its granule's close, as
`examples/temporal-slab/psweep_validation.c` does. `Careless = TRUE` describes a
client that does so while the id is in use again, and that frees an allocation
whose register failed. A reset runs when no call is in flight; the header asks
for nothing else, and the tests use it so.

## Runs

| Run | Instance | What it shows |
|---|---|---|
| `SlotArrayDistinct` | 2 threads, 2 ids in 2 slots without collisions, each opened twice, up to 2 live allocations | `ImplementsLedger`: every interleaving looks like atomic calls on a ledger and no call is starved; `VerdictExact`, `FindsOpenGranule`, `OpenNeverFull`, and the inductive invariant `DistinctInv` |
| `SlotArrayColliding` | 2 threads, 3 ids with the same home in 2 slots | `ExclusiveSlot`, `RightSlot`, `NoFalseDrainable`, `CallsReturn`, and the inductive invariants `SlotInv` and `CountInv` |
| `DiagStorage` | 2 threads, 2 ids opened twice in slots of their own, 2 allocation ids, records that start with room for one, careless clients, memory runs out once | `SafeAccess`, `NoLeak`, `RecordsMatch`, `VerdictExact`, `ReportExact`, `ImplementsLedger`, and the inductive invariants `MemoryInv` and `RecordInv` |
| `Production` | 2 threads, 2 granules, a register, a snapshot or a sweep at any moment, a reset | `VerdictsCounted`, `OpenMatchesSlots`, `PeakIsMaximum`, `DrainableExact`, `SnapshotDrift`, `SweepBounds`, `ResetClears` |
| `Diagnostic` | the diagnostic profiler from creation to destruction, each configuration, 2 threads, 2 granules, 2 registers, a sweep, a reset, a failing allocation | `ReportIfPinned`, `OpenDrift`, `SafeSweep`, `SweepBounds`, `NothingLeft`, and the inductive invariant `DeliveryInv` |
| `Progress` | 2 threads, 2 granules, a sweep, a reset, with fairness | `EverythingEnds` |
| `Reports` | 5 reports through a ring of 3, with summaries at any moment, whose arrays start with one entry and whose allocations may fail | `ImplementsQueue`, `RingInv`, `SummaryExact`, `PinningCountExact` |

Both storages are shown to implement the same `GranuleLedger`. They differ in
one point, the constant `Refuses`: the diagnostic storage may answer -1 to an
open or a register (no memory) and to a deregister (an allocation it does not
know), the array may not when ids do not collide. A client that frees late in an
id used again therefore gets exact verdicts in diagnostic mode and wrong ones in
production mode (`LateFreeReuse`).

### What the code does differently from its documentation

| Run | Violated | The disagreement |
|---|---|---|
| `ProbeChain` | `FindsOpenGranule` | a close empties a slot in the middle of a probe chain; the granule behind it is open and no longer found |
| `LateFreeReuse` | `NoFalseDrainable` | a late free is taken out of the granule that has the id now, which is then reported drainable although it is pinned |
| `SummaryReuse` | `PinningCountExact` | two reports of one reused id count as one pinned granule |
| `DiagLateFree` | `ExtractionSafe` | a deregister of a closed granule holds the state of another granule of the same slot while a close destroys it |
| `DiagSweep` | `SafeSweep` | a diagnostic sweep takes no lock and follows a pointer that a close has freed |

More were met without a run of their own:

* with colliding ids an open may answer "full" while there is room, because the
  slots it passed were released behind it (`OpenNeverFull` fails there);
* a granule id 0 equals the id of a cleared slot, so a probe may take a slot
  that is being initialised for it (`RightSlot` fails there; the proofs assume
  `SoundIds`);
* a close between two loads of a snapshot can make the drainability rate exceed
  1, where `docs/API.md:122` promises a consistent snapshot and `:138` a rate in
  `[0.0, 1.0]`; `SnapshotDrift` bounds how far it is off;
* `summary_compute` answers an empty summary where the header promises NULL
  (`include/drainprof.h:335`);
* `docs/API.md:49` says that a second open of a granule answers -1, where
  `drainprof_slot_array_open` answers 0;
* a diagnostic `slot_capacity` of 0 and a `max_buffered_reports` of 0 are
  accepted, and divide by zero later.

`ProbeChain`, `LateFreeReuse` and `DiagLateFree` mark the border of the passing
runs. When ids have slots of their own, all is exact. When they collide, what is
left of the array is that slots stay exclusive, updates hit the right slot, and
errors never make a pinned granule look drainable; the diagnostic slots are then
not memory-safe in the presence of late frees.

### Bounds, and why they are enough

* Two threads: every race of the code is between two operations, a claim, a
  clear or an update on one side and a probe, a get or an update on the other;
  the proofs cover any number of threads.
* Two ids where they do not collide; three ids in two slots where they do: a
  slot is released and claimed by another id, a chain has a hole, and the array
  is full of others while an id is searched.
* `MaxOpens` 2 gives each id a second life, with the late frees of the first.
  `MaxLive` 2 tells "one left" from "none left".
* Two allocation ids are enough for frees out of order and for an id used again
  in one granule. `FirstRecords` 1 (64 in the code) with `MaxRecords` 2 makes the
  array of records grow. Two cells are one per granule, so that a freed one is
  handed out again at once, to the other granule too.
* `MaxFailures` 1: one allocation fails, at any point; the error paths end the
  function they are in, so a second failure meets a state the first one left,
  which is a state without failures but for the number.
* `MaxAllocs`, `MaxQueries`, `MaxResets` bound the counters; the moduli are larger
  than what these bounds let a counter reach, except below zero in `OpenDrift`.
  The proofs say how wide is wide enough: `WideCounts`, `WideCounters` and
  `FewCloses` hold in every instance.
* A buffer of one report (`Limit` 1) beside the profiler, so that the second
  pinned close overflows it; five reports in a ring of three by itself: the ring
  wraps around, overflows repeatedly and is drained across its end. A first
  capacity of 1 makes both arrays of the summary grow twice (16 in the code).
* Symmetry of the threads, and of heap cells and allocation ids in diagnostic
  mode, is used only where safety properties are checked; no module orders them.
* `RacingSweeps = FALSE` keeps sweeps and closes apart in `Diagnostic` and
  `Progress`: beside a close a sweep is undefined, which `DiagSweep` shows.
* Deadlock is not checked: the allocator may stop calling.

### Fairness

`WF` on the steps of each thread: a thread in the middle of a call is scheduled
again, which the operating system provides and the lock-free code needs. Nobody
has to call. The monitor's steps are fair in the same way; beginning a query or
a reset, creating, draining and destroying are not. `CallsReturn` then says that
the bounded probes end, and `EverythingEnds` that the compare-and-swap loop on
the peak does: a swap fails only when another thread raised the peak, which
happens at most once per open.

## Proofs

Every theorem holds for any set of threads and ids, any capacity, hash function
and modulus, but for what it assumes. All these assumptions hold in the instance
of a passing run about the same property:

| Assumption | Meaning | Why |
|---|---|---|
| `SoundIds` | the id 0 is not used, and no allocation is freed late in an id that is used again | a reader that meets an id 0 finds a slot that is being initialised; `LateFreeReuse` is the violation without the second part |
| `HomesDistinct` | ids that are used hash to slots of their own | `ProbeChain` is the violation without it |
| `SoundSlots` | the same of the diagnostic slots, which take the id modulo the capacity | `DiagLateFree` |
| `WideCounts` | `MaxLive` and one call of every thread do not reach `CountMod` (2^32 in the code) | beyond it `live_count` wraps |
| `WideCounters` | `Capacity` and one call of every thread do not reach `CounterMod` (2^64) | the same for `open_granules` |
| `[]FewCloses` | the closes answered since the last reset, and one of every thread, do not reach `CounterMod` | the same for the three counters of closes; a condition on the run, since nothing bounds their number in the code |
| `[]NoOverflow` | no register finds a slot whose count is `CountMod - 1` | with collisions a slot may count allocations nobody holds, so `MaxLive` does not bound it |
| `~RacingSweeps` | no sweep beside a close, in diagnostic mode | `DiagSweep` |
| `OwnGranules` | no two reports are of one granule id, and none of `UINT64_MAX`, the mark of a site not counted yet | `SummaryReuse` |

### The slot array

| Theorem | Statement | Assumes |
|---|---|---|
| `TypeCorrect` | `Spec => []TypeOK`: in particular a probe never leaves the array | `SoundIds` |
| `SlotsExclusive` | `Spec => []ExclusiveSlot`: a slot being initialised or cleared has one owner and nobody counts in it | `SoundIds` |
| `SlotsRight` | `Spec => []RightSlot`: what a probe found is still true when it is used | `SoundIds` |
| `NeverFalselyDrainable` | `Spec /\ []NoOverflow => []NoFalseDrainable`: a granule with live allocations is never reported drainable, whatever collides | `SoundIds` |
| `ClosesExactly`, `FindsGranule`, `OpensFit` | `[]VerdictExact`, `[]FindsOpenGranule`, `[]OpenNeverFull`: a close returns the number of live allocations, an open granule is found, an open succeeds | `SoundIds`, `HomesDistinct`, `WideCounts` |
| `ArrayImplementsLedger` | `Spec => Ledger!Spec`: every behaviour of the array is one of the atomic ledger | the same |

There are three invariants.

1. `SlotInv`. Neither `ExclusiveSlot` nor `RightSlot` is inductive. `RightSlot` can
   only be kept if a close of that granule is excluded, which follows from the
   contract; `ExclusiveSlot` needs to know what a slot stores while it has an
   owner. `SlotInv` adds both: `ContractInv` (what the calls in flight say about
   the granules: an open is alone with its granule among opens, a close among all
   calls; proved once in `Client_proofs` for both storages), `LabelInv` (which
   operation belongs to which function) and `OwnerInv` (a free slot stores no id, a
   slot being initialised or released stores none although it is occupied, and a
   slot has at most one owner). The heart is `SlotStepOwner`: a claim finds the slot
   free, so without an id, so nobody owns it or counts in it; a probe that finds an
   id finds a slot whose owner, if it has one, would be in a call of the same
   granule, which the contract excludes.
2. `CountInv`, for every hash. With collisions a granule may be lost behind a hole
   or be given a second slot by a second opening, so no slot has the right count.
   What holds is a bound from one side: the *first* slot of the granule along its
   probes, if there is one, counts at least the living allocations (`Living`: those
   held, those counted by a register that has not returned, those a deregister has
   still to take out). It survives because slots are claimed only by an open, and
   what `find_slot` has passed stays passed while the granule is not opened
   (`ProbeInv`); a call that misses its slot errs by counting too much.
3. `DistinctInv`, for ids with homes of their own. Each probe ends at the first
   slot (`AtHome`), a granule is `Present` in its home from the store of its id until
   a close clears it, and the home counts exactly `Living` (`ExactInv`). The
   refinement follows: a granule is open in the ledger from the store of
   `live_count` that ends its open to the load that decides its close
   (`LedgerEntry`), `OpenStoreLive`, `AllocFetchAdd`, `DeallocFetchSub`, `CloseLoadLive`
   and the probe that finds nothing are the steps where a call acts, and all others
   stutter.

### The diagnostic storage

For every number of threads, ids, allocations, heap cells and failing
allocations, and for careless clients too:

| Theorem | Statement |
|---|---|
| `AccessIsSafe`, `ExtractionIsSafe` | no thread follows a pointer to a freed state, and a state that a close has taken is in nobody else's hands |
| `NothingLeaks` | every state is in one slot or with one close, and no slot stays blocked, whichever allocations fail |
| `RecordsAreExact`, `VerdictsAreExact`, `ReportsAreExact` | the unfreed records are the client's list, the verdict is its length, and the report names its members |
| `SlotsImplementLedger` | `Spec => ImplementsLedger`: every behaviour of the storage is one of the atomic ledger |

They assume `SoundSlots`: ids have slots of their own (`DiagLateFree` is what
happens without it).

The argument has three layers, one invariant on top of the other.

1. `MemoryInv` is about places only. `StateInv` ties a slot to the state it points
   to; `PlaceInv` says that what `get` found is still in the slot when it is
   used, and that a close leaves its slot empty until it releases it; `OpenInv`
   that an open granule has its state. The step that could break it is a close
   that takes a state another thread has found. `ContractInv` excludes it for a
   live allocation. A late deregister finds its granule's slot empty or holds the
   state of a later opening, which is in a call of the same granule, and then
   the close is not called: with `SoundSlots` there is no other granule the state
   could belong to.
2. `RecordInv` is about contents, and needs `MemoryInv` at each step. `RecordsMatch`
   alone is not inductive: between the client's list and the records there are
   the allocations in the hands of calls. `ListInv` says that an allocation is in
   one place, `FreedInv` what a deregister leaves behind, `EmptyInv` that a closed
   granule has no records. What a register and a deregister do to one granule is
   proved separately in the first part of `DiagSlots_proofs`: `AddAllocLive`, `MarkFreedLive` (the
   search from the hint finds an unfreed record of the id wherever the hint
   stands, and a live one is the only one) and `LiveCount`.
3. The last part of `DiagSlots_proofs` maps the slots to the ledger (`LedgerEntry`). A granule is
   open in the ledger from the store of its pointer until the load of its live
   count; `OpenCreate`, `AllocAdd`, `DeallocMark` and `CloseLoad` are the steps where
   a call acts, an answer from an earlier step is a refusal, and every other
   step leaves the ledger as it is. `VerdictExact` and `RecordsMatch` are what makes
   a deregister of a known allocation find a positive count.

### The profiler over either storage

`ProfilerApi_proofs` is about the steps both modes share: `CountingInv` (which
function a call that is counting is in), `PeakInv` (while the peak is too low, an
open that has counted the maximum is still going to raise it), `VerdictsCounted`,
which is inductive by itself while `FewCloses` holds, `SnapshotInv` (what a snapshot
has loaded so far, against the counters as they are now and the closes that
overlapped it), `ResetInv` (how far a reset has got, alone) and `TransitInv` (a
granule that is opening or closing has a call, and what a call touches during a
query has `moved`). The two modes only have to show what their own storage does to
these.

`ProductionProfiler_proofs`:

| Theorem | Statement | Assumes |
|---|---|---|
| `ProfilerTypes`, `PeakCorrect`, `ResetsClear` | `[]ProfilerTypeOK`; `[]PeakIsMaximum`: the compare-and-swap loop loses no maximum; `ResetClears`: after a reset the slots and counters are as at the start | nothing |
| `VerdictsAlwaysCounted` | `[]VerdictsCounted`: each close is counted once, with the verdict its caller got | `[]FewCloses` |
| `SnapshotsDrift` | `[]SnapshotDrift`: a snapshot is off by no more than the calls beside it | `[]FewCloses` |
| `AnswersExact` | `[]DrainableExact`: the answer of a close is right | `SoundIds`, `HomesDistinct`, `WideCounts` |
| `OpenIsCounted` | `[]OpenMatchesSlots`: `open_granules` is the number of occupied slots, but for the calls in flight | the same, `WideCounters` |
| `SweepsBounded` | `[]SweepBounds`: a sweep counts every granule nothing touched, in the right class, and no more than were open | `SoundIds`, `HomesDistinct`, `WideCounts` |

A step of the profiler is a step of the array, a count, or a step of the monitor;
a reset takes the slots apart one store at a time, so the array's invariants hold
only outside it (`ArrayInv`, `HomesInv`), and `SlotsResetInv` says how far it has got,
from which they hold again at its end. `OpenIsCounted` compares a cardinality with a
counter modulo `CounterMod`: each step that takes or frees a slot also enters or
leaves one of `Claimed` and `Released`.

Sweeps are proved once for both storages. `SweepInv(home)` keeps, for the slots
behind the cursor, the granules that have to be counted and those that may be; no
granule is counted twice because its slot `home[g]` is behind the cursor once. A
storage has to show that a granule nothing touches is in its slot with its count
(`StillCounted` from `DistinctInv`, `SweptSlots` from the records), and that a slot
that is counted belongs to a granule that is open or moves.

`DiagnosticProfiler_proofs`:

| Theorem | Statement | Assumes `SoundSlots` and |
|---|---|---|
| `ProfilerUsesSlots`, `ProfilerImplementsLedger` | until it is destroyed, the profiler does to its storage what `DiagSlots!Spec` allows, and so implements the ledger | |
| `DiagnosticAnswersExact`, `DiagnosticPeak` | `[]DrainableExact`, `[]PeakIsMaximum` | |
| `DiagnosticVerdicts`, `DiagnosticSnapshots` | `[]VerdictsCounted`, `[]SnapshotDrift` | `[]FewCloses` |
| `DriftBounded` | `[]OpenDrift`: after a reset `open_granules` is off by the granules it forgot, never by more, and around the end of its range | `WideCounters` |
| `SweepsSafe` | `[]SafeSweep`: a sweep never follows a pointer to a freed state | `~RacingSweeps` |
| `DiagnosticSweeps` | `[]SweepBounds`: such a sweep is right about every granule nothing touched | `~RacingSweeps` |
| `PinnedReported` | `[]ReportIfPinned`: a report for exactly the pinned closes, whichever allocation fails | |
| `ReportsQueue` | inside the profiler, too, the ring is a bounded queue: no report is handed out twice, freed twice or leaked | |
| `BlocksAllFreed` | `[]BlocksFreed`: creation and destruction give back every block (without `SoundSlots`) | |
| `DeliveryCorrect`, `NothingIsLeft` | `[]DeliveryInv`, `[]NothingLeft`: nothing outlives the profiler, and every report has one owner | |

The profiler's calls take more steps than the storage's: one that counts before
it goes to the storage has for the storage just begun, one that counts afterwards
has been answered (`StoragePc`). With `pc` mapped so, every step before the
destruction is a step of `DiagSlots` or leaves it alone (`ProfilerUsesSlots`), and
`DiagnosticInv` carries all that was proved of the storage over into the profiler.
On top of it: `BlocksInv` follows the lifecycle's list of blocks through each
error path; `DeliveryInv` says of every opening of every granule where its report
is: new until the close hands it over, then queued, taken or freed, and lost only
where memory ran out. The ring is not mentioned in it; `Kept` instantiates
`ReportBuffer_proofs` with the profiler's buffer and maps the fates to the two that
module knows, so that `RingInv` and the queue carry over. `OpenDrift` is inductive
only together with `forgotten \in 0 .. Capacity`, since a close of a forgotten
granule takes the counter below zero.

### The report buffer

`ReportBuffer_proofs`, for every limit: `RingCorrect` (`Spec => []RingInv`) and
`RingIsQueue` (`Spec => ImplementsQueue`). `RingInv` ties `head`, `tail` and `count`
together modulo the limit, and says that the entries from `tail` on, and no others,
are the queued reports, each once. The work is ring arithmetic: the index after
the last is the head, a push at the limit overwrites the oldest and moves the
tail by one, and so the sequence read from the tail loses its first and gains a last.

### The summary

`Summary_proofs`, for every limit of the ring, every first capacity, any set of
sites and any reports, of any number of allocations and bytes:

| Theorem | Statement | Assumes |
|---|---|---|
| `SummariesExact` | `SummarySpec => []SummaryExact`: at the end of the loops every site in the buffer has one entry with all its allocations and bytes, and a call that failed or whose summary was freed leaves nothing | nothing |
| `PinningCounted` | `SummarySpec => []PinningCountExact`: a site's pinning count is the number of reports that name it | `OwnGranules` |
| `SummaryKeepsQueue` | `SummarySpec => ImplementsQueue`: the ring is the bounded queue with summaries beside it, too | nothing |
| `SummaryInvariant` | `SummarySpec => []SummaryInv` | nothing |

`SummaryExact` speaks of the end of the loops only and is not inductive. `Done` is the
set of places, report and allocation, that the loops have come past, and
`TallyInv` states the figures over `Done` instead of over the whole buffer: each
`CountAlloc` adds one place, so one element to the sets of one site and none to
those of the others (`FromMore`, `BytesMore`), and `EnterReport` adds none
(`DoneEntered`), because it happens only when the last report is counted to its
end. At the end `Done` is everything (`AllDone`). No induction over the reports is
needed. `ArrayInv` says that the array of last granules is at least as long as the
entries' capacity, which is what an index into both relies on; `CallInv` what the
call owns at each point. `RingInv` (through `BufferStep`) gives that no buffered
report is null, so that `reports_analyzed` is the number of reports.

The pinning count compares a report's granule with the last one counted for the
site only. `PinningInv` says why this is enough when ids differ: a site's mark is
the granule of the *latest* report that names it, so it equals the present
granule exactly if the present report has been counted (`PinnedMore`), and marks
behind the last entry are untouched, also when the array grew (`EntriesPinned`).

### What is only model-checked

* Liveness: `CallsReturn`, `EverythingEnds` and the fair part of the array's
  `ImplementsLedger` (the theorem is about `Ledger!Spec`, the run about
  `Ledger!FairSpec`). Fairness and `ENABLED` are out of the prover's reach.
* The five runs that expect a violation.

Every safety property that a passing run checks is stated by a theorem, for all
values of the constants, under the assumptions of its row above.

## Not modelled

* Examples, benchmarks and build: demonstrations that call the API from one
  thread and measure; the shapes of their calls are in `Client`.
* Clients that break the contract: a double free, which can take a count below
  zero; the Redis patch, which opens an arena lazily from its hot path; a reset
  while calls are in flight.
* Null arguments, logging and the periodic log line of a close, timestamps,
  accessors.
* Hash-map storage, which `create_with_config` refuses.
* Sizes out of reach: a capacity above 2^31, where the probe's 32-bit sum could
  wrap; 2^31 records in one granule, where `alloc_capacity` would; 2^32 allocations or sites in one
  summary. Capacity 0 and
  buffer limit 0 are outside the assumptions, since the code divides by them.

## Plan

1. Done: the slot array and its ledger, both profilers, report buffer, lifecycle
   and summary.
2. Done: the proofs of every safety invariant of the array, of the diagnostic
   storage, of the ring, of the summary and of both profilers; the refinements of the ledger by
   both storages and of the queue by the ring.
3. Left: clients beyond the contract: lazy opens from several threads; a double
   free that wraps a count.
