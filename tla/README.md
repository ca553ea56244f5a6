# TLA+ verification of TableTupleFilter and ExecutorFactory

This directory models two pieces of the repository in TLA+. It checks them with TLC
on small instances. It proves with TLAPS, for every instance, every safety invariant and
refinement the passing runs check, and the two `char`-signedness findings.

| Source | What it is |
|---|---|
| `src/src/ee/storage/tabletuplefilter.h` | `TableTupleFilter`: one marker byte per tuple slot of a table, the address-to-slot translation with a one-entry block cache, and the iterator `TableTupleFilter_iter<MARKER>` over the slots that carry one marker. |
| `src/src/frontend/org/voltdb/export/ExecutorFactory.java` | `ExecutorFactory`: the singleton that hands single-threaded executors to export data sources, shares them across partitions up to a thread limit, and reference-counts them for shutdown. |

The two do not interact: they are independent components of the engine (C++) and the
frontend (Java). Each has its own modules.

## 1. Inventory

### TableTupleFilter (header, lines 65-205)

**State** (lines 187-204):
- `m_tuples`, one `char` per slot;
- `m_blocks` and `m_blockIndexes` (block address to first slot);
- the geometry `m_tuplesPerBlock` and `m_tupleLength`;
- the cache `m_prevBlockAddress` / `m_prevBlockIndex`;
- `m_lastActiveTupleIndex`, a `uint64_t` that is `INVALID_INDEX` while nothing is active.

**Operations that change state:**
- `init(Table*)`: builds the blocks, then calls `initActiveTuple` on each active tuple of the table;
- `initActiveTuple` (168-178): asserts the slot is INACTIVE, marks it ACTIVE and advances the last index;
- `updateTuple` (102-109): two asserts, then writes the marker;
- `getTupleIndex` (156-161): a query that refreshes the cache through `findBlockIndex`.

**Pure:**
- `getTupleValue`, `empty`, `getLastActiveTupleIndex`;
- `getTupleAddress` (123-129), the inverse translation.

**The iterator** (217-283):
- starts at `INVALID_INDEX`, and unless the filter is empty, increments to the first match;
- `increment` wraps `++` in uint64 and skips slots whose marker differs, up to the last active index;
- `end()` (292-299) is `last + 1`, or `INVALID_INDEX` when the filter is empty.

`init(Table*)`, `init(blocks, ...)`, `findBlockIndex`, the constructor and the value of
`INVALID_INDEX` are defined in `tabletuplefilter.cpp`, which is not in the repository.
They are modelled from `spec.md` §4.1 and marked `spec_modelled` in `PROJECT.json`:
- the blocks are aligned on their size;
- the cache is checked as a range;
- the lookup uses the aligned base;
- INVALID_INDEX is the largest value of the index width.

**Interactions.** One caller thread drives the filter through three phases: init, then
updates, then iterations. Updates may also interleave with a live iterator. The block
cache is shared by all lookups.

**Correctness:**
- each active tuple gets a unique slot, so no assertion fires;
- the last active index is the maximum marked slot;
- an iterator yields exactly the slots with its marker, in increasing order;
- the marker of every tuple is what the caller last wrote (the abstract view);
- `getTupleAddress` inverts `getTupleIndex`.

### ExecutorFactory

**State** (65-71):
- `m_maxThreads` (null until `initialize`);
- `m_nextAlloc`;
- `m_executors`;
- `m_refCounts`;
- `m_pid2execMap`.

**Operations.** Both public ones are `synchronized`, so each is one atomic step:
- `getExecutor`: `initialize` (98-131), then `allocate` (211-247). `allocate` reuses the partition's executor, creates a new one, or shares one round-robin.
- `freeExecutor`: checks initialisation, then `release` (255-287). `release` throws when the partition is unmapped, decrements the count, and at zero removes the executor, unmaps every partition on it, fixes the cursor and shuts the executor down.

**Interactions.** `ExportDataSource` objects, one per (partition, stream), call the two
methods from arbitrary threads.

**Correctness:**
- reference counts equal the number of sources using an executor;
- no source runs on a shut-down executor;
- all sources of a partition share one executor;
- no exception is thrown, the pool stays within `m_maxThreads`, and the cursor stays in range.

### Hard behaviours

`PROJECT.json` lists them under "hazards", each at its source line:
- the stale block cache;
- uint64 wraparound at the iterator start;
- the INVALID_INDEX comparison when advancing the last index;
- updates during iteration;
- `char` signedness in the marker comparison;
- the interleaving of gets and frees;
- release keyed by partition only;
- mappings left behind after shutdown;
- the round-robin cursor after shrinking;
- the thread-limit corner cases;
- `getMaxThreadCount` and `getCurrentThreadCount` before initialisation;
- the `char` signedness of the marker byte;
- an iteration loop that must reach `end()`.


## 2. Modules

| Module | Role |
|---|---|
| `TupleTags` | Abstract specification of the filter: a marker per tuple. Init marks the snapshot's active tuples one at a time; afterwards any active tuple may be re-stamped. |
| `TableTupleFilter` | The detailed model of the header (state, actions, properties). It refines `TupleTags` via `Tags == INSTANCE TupleTags WITH tag <- [t |-> tuples[SlotOf(t)]]`. |
| `MCTableTupleFilter` | Block layouts for TLC. |
| `TableTupleFilterProofs` | TLAPS: type correctness (`TypeCorrect`) and helper lemmas on the translation. |
| `TableTupleFilterSafety` | TLAPS: `AssertionsHold`, `LastActiveIsMaxHolds`, the refinement `FilterImplementsTagsHolds`, and `UnsignedDebugMarksNothing`. |
| `TableTupleFilterIterProofs` | TLAPS: the iterator's `IteratorExactHolds` and `UnsignedInactiveWalkEmpty`. |
| `ExecutorPool` | Abstract specification of what the factory promises its sources: a partition-shared executor per source, at most `limit` executors in use, shutdown exactly at the last release. |
| `ExecutorFactory` | Model of the Java class. It refines `ExecutorPool` (`PoolRefinement`). |
| `MCExecutorFactory` | Model values and symmetry for TLC. |
| `ExecutorFactoryProofs` | TLAPS: type correctness, the factory's inductive invariant, its four safety properties, and the refinement. |

### TableTupleFilter: how the model corresponds to the code

Tuples are pairs `<<block number, position>>`, and a tuple's address is
`BlockAddr[b] + k * TupleLength`. The table is abstracted to its snapshot: the set
`active`, and `pending`, the tuples `init(Table*)`'s loop has not delivered yet.

| Code | Model |
|---|---|
| `m_tuples` | `tuples` |
| `m_lastActiveTupleIndex` | `lastActive` |
| the cache pair | `prevBlock` (`NoBlock` before the first lookup) |
| the live iterator | `iter` (`[live, marker, idx]`); `NoIter` is the default-constructed one |
| `getTupleValue(i)` | `GetTupleValue(i)`: the stored byte read as a signed or an unsigned `char` |
| `empty()`, `getLastActiveTupleIndex()` | `Empty`, `GetLastActiveTupleIndex` |
| `begin<M>()`, `end()` | `Begin(M)`, `End` |

Ghost variables:
- `yielded`: the slots the iterator stood on;
- `touched`: the slots `updateTuple` wrote since `begin()`.

Two constants describe the build:
- `CharSigned`: whether `char` is signed (x86) or unsigned (the ARM and POWER Linux ABIs). An `int8_t` stored into a `char` and read back is `v % 256` when unsigned.
- `AssertsEnabled`: a debug build. There a failed `assert` sets `fault` and stops the behaviour. In a release build the assert is skipped and the write goes ahead.

Actions:
- `InitActiveTuple(t)`: one iteration of the init loop, `getTupleIndex` (with its cache refresh) and both asserts included;
- `UpdateTuple(t, m)`: `updateTuple` on an active tuple, after init, possibly while an iterator is live;
- `IterBegin(M)`: `begin<M>()`;
- `IterIncrement`: `++it` in a loop guarded by `it != end()`.

Indexes are integers modulo `2^IndexWidth`, with `INVALID_INDEX = 2^IndexWidth - 1`.
`CacheHit` and `FindBlockIndex` are the spec's range check and aligned lookup.
`GetTupleAddress` is line 128 as written.

### ExecutorFactory: how the model corresponds to the code

A source is a pair `<<partition, table>>`, and `holder[s]` is the executor it holds.
Executors are model values. One that nothing refers to any more may stand for a newly
created object (`Unreferenced`).

| Code | Model |
|---|---|
| `m_refCounts`, an IdentityHashMap | `refCounts`, a function whose domain is the key set |
| `m_pid2execMap` | `pid2exec` (`NoExec` when unmapped) |
| `les.shutdown()` | adds to `shutdown` |
| a thrown exception out of `getExecutor`/`freeExecutor` | sets `error` |
| the value or exception a query returns | `answer` |

`GetExecutor(s)` chooses the thread limit `initialize` settles on from
`MAX_EXPORT_THREADS` (`ConfigValues`) and the sites count (`SitesCounts`), then takes
one of the three branches of `allocate`.

`FreeExecutor(s)` is `freeExecutor` plus `release`, with every throw as an error
outcome. The constant `CallersMayOverRelease` says whether a source may call
`freeExecutor` without holding an executor.

`GetMaxThreadCount` and `GetCurrentThreadCount` are the two synchronized queries.
Before `initialize` they throw (an unboxed null, a null list). They record what the
caller saw in `answer` and change nothing else.

`ExecutorPool` forgets the list, the counts, the map and the cursor. It keeps only
`held` (= `holder`), `limit` (= `maxThreads`) and `shutdown`.
- `Acquire(s)` hands out the partition's executor or any executor that keeps the number in use within the limit.
- `Release(s)` shuts an executor down when its last holder lets go.

## 3. Runs

| Run | Checks | Shows |
|---|---|---|
| `tuple_filter_core` | under `LiveSpec`: TypeOK, NoAssertionFailure, LastActiveIsMax, IteratorExact, FilterImplementsTags, IterationEnds | Two blocks of 2 tuples at addresses 8 and 4: adjacent, and enumerated out of address order, so the cache, the aligned lookup and the block offsets all matter. Every snapshot (16), every order, iterators over markers {-1, 0, 5}, updates interleaved with live iterators. 18669 states. |
| `tuple_filter_address_roundtrip` | AddressRoundTrip (violation) | The `getTupleAddress` bug: slot 2 (block 2, position 0) maps to 6 instead of 4. |
| `tuple_filter_unsigned_debug` | NoAssertionFailure (violation) | With unsigned `char`, the first `initActiveTuple` reads the stored INACTIVE (-1) back as 255, and its assert fires. |
| `tuple_filter_unsigned_release` | IteratorExact (violation) | With unsigned `char` and asserts off, `begin<INACTIVE_TUPLE>()` never matches a slot: the comparison at line 278 is 255 against -1. |
| `executor_factory_core` | TypeOK, RefCountsMatchUsers, NoSourceOnShutdownExecutor, PartitionAffinity, NoFactoryException, PoolRefinement | 4 partitions × 2 streams, 3 executor identities, configured limit in {-1, 1, 3}, sites count in {0, 2, 3}, MinThreads 2, under symmetry of partitions, streams and executors. The limits 1, 2 and 3 against 4 partitions make the round-robin branch, sharing, and shrink-then-grow all happen; the queries run before and after init. 6929 states. |
| `executor_factory_over_release` | NoSourceOnShutdownExecutor (violation) | With callers that free without holding, `(p1,t2)` frees and shuts down the executor `(p1,t1)` is running on. |
| `executor_factory_max_threads` | MaxThreadCountAsDocumented (violation) | `getMaxThreadCount()` before the first `getExecutor` throws instead of returning 0 as its javadoc says. |

Each property of a passing run has a mutant in `PROJECT.json`: a plausible bug in a mapped
definition under which TLC finds the property violated. The mutants are:
- the cache bound `<=` instead of `<`;
- the block offset dropped;
- the max-advance of the last index dropped;
- no uint64 wrap (against TypeOK);
- the iterator starting one slot late;
- an increment that stays put (`AdvanceStuck`, against IterationEnds);
- the `< 1` clamp dropped;
- the last reference detected at 1 (against three properties, PoolRefinement included);
- no `m_pid2execMap.put`;
- no `removeIf`.

**Bounds.** They are the smallest that still exercise the cases above:
- two blocks (a cache hit and a miss across blocks);
- block addresses out of enumeration order;
- a 3-bit index, so INVALID_INDEX (7) lies past the 4 slots as the 64-bit index does, and `begin()`'s `++` wraps from it to 0. A width where `end()` could equal INVALID_INDEX is not run: with 64 bits it needs 2^64 - 1 slots;
- more partitions than the largest thread limit.

**Deadlock.** It is checked in every passing run. The filter model always has a step
left, because iterators restart. So does the factory: a source may get or free, and
the queries are always enabled.

**Fairness.** `tuple_filter_core` runs `LiveSpec == Spec /\ WF_vars(IterIncrement)`.
The code justifies exactly this. The caller's loop
`for (it = begin; it != end; ++it)` runs on one thread and keeps calling `++it`
until it reaches `end()`. Nothing forces a table update or a new `begin()`, so those
actions get no fairness. A loop that breaks early is not modelled.

`IterationEnds` says that under this fairness every iteration reaches `end()` (or the
program stopped on an assert), unless new iterations keep replacing it, whatever updates
interleave. The factory has no liveness property: its calls are made at the callers'
discretion and complete in one synchronized step.

## 4. What is proved (TLAPS)

### TableTupleFilter

These theorems hold for every `NumBlocks`, `TuplesPerBlock`, `TupleLength`, `IndexWidth`,
block layout and code set. They use the named assumptions of `TableTupleFilter`:
- positive geometry;
- the slot count fits below INVALID_INDEX;
- the blocks are distinct and aligned on their size;
- the codes are `int8_t` values, include ACTIVE and exclude INACTIVE.

The theorems about a correct build also assume `CharSigned`. The unsigned runs show, and the unsigned theorems below prove, that they fail without it.

**`TableTupleFilterProofs.TypeCorrect`: `Spec => []TypeOK`.** TypeOK alone is not
inductive, so the proof goes through `IInv = TypeOK /\ LastActiveInRange /\ IteratorInRange`:
- the last index is a slot or INVALID_INDEX;
- a live iterator exists only after init and stands at or below the last index, or at `end()`.

Lemmas:
- `increment` stays in `0..last+1` (`AdvanceRange`, via the least element of a set of naturals from `WellFoundedInduction`);
- the aligned base of a tuple's address is its block (`AlignedBaseOfTuple`).

**`TableTupleFilterSafety.AssertionsHold`: `CharSigned => (Spec => []NoAssertionFailure)`.**
No assertion of `initActiveTuple` or `updateTuple` ever fires.

**`TableTupleFilterSafety.LastActiveIsMaxHolds`: `CharSigned => (Spec => []LastActiveIsMax)`.**

Both rest on the inductive invariant
`SInv = IInv /\ NoAssertionFailure /\ CacheOK /\ MarkedExactly /\ LastActiveBound`:
- `CacheOK`: the cache is empty or holds some block's own (address, first slot) pair;
- `MarkedExactly`: a tuple's slot is INACTIVE exactly while it is unmarked;
- `LastActiveBound`: the last index belongs to the marked slots and bounds them.

The central lemma `TupleIndexOfTuple` states that, under `CacheOK`, `getTupleIndex`
returns `SlotOf(t)` and leaves the cache at `t`'s block. It rests on three facts:
- an aligned block that contains an address is that address's block (`CacheHitBlock`);
- `SlotOf` is injective into the slots (`SlotOfFacts`);
- `m_blockIndexes` gives each block its offset (`BlockIndexesValue`).

The proof therefore shows that the one-entry cache can never misresolve a tuple of the
table, whatever the order of lookups.

**`TableTupleFilterSafety.FilterImplementsTagsHolds`: `CharSigned => (Spec => FilterImplementsTags)`.**
The filter refines `TupleTags` step by step, under `SInv`:
- the initial state maps to `Tags!Init`, because every slot is INACTIVE (`InitRefinesTags`);
- `initActiveTuple(t)` is `MarkActive(t)`: the slot it writes is `SlotOf(t)` (`TupleIndexOfTuple`), and `SInv'` says no assert fired (`InitActiveTupleRefines`);
- `updateTuple(t, m)` is `Retag(t, m)` (`UpdateTupleRefines`);
- iterator steps leave the tuples, the snapshot and the pending set alone, so they stutter.

The lemma `TagOfWrite` turns a write to a slot into a write to exactly one tuple's
abstract marker, because `SlotOf` is one-to-one.

**`TableTupleFilterIterProofs.IteratorExactHolds`: `CharSigned => (Spec => []IteratorExact)`.**
`IteratorExact` is inductive together with `IInv` (`ItInv = IInv /\ IteratorExact`). The
key lemma is `AdvanceSpec`: from position i, `increment()` stops at the least slot from i + 1
up to the last active index that carries M, or at `last + 1` when there is none. The
reasoning per action:
- `++it`: every wanted slot between the old and the new position is the new position itself, and reaching `end()` means no wanted slot is left;
- `begin<M>()`: the same argument, from 0;
- `updateTuple` during a walk: it takes its slot out of both sides of the equation, so the equation still holds;
- `initActiveTuple`: no iterator is live during init.

No cache fact is needed, so `SInv` is not used.

**The unsigned-char findings, for every layout.** Two theorems show that the two
violation runs are not artefacts of the small instance:
- `TableTupleFilterSafety.UnsignedDebugMarksNothing`, assuming `~CharSigned /\ AssertsEnabled`: `Spec => [](fault = "none" => pending = active)`. No tuple is ever marked without `initActiveTuple`'s assert firing (`tabletuplefilter.h:171`).
- `TableTupleFilterIterProofs.UnsignedInactiveWalkEmpty`, assuming `~CharSigned`: every live iterator over `INACTIVE_TUPLE` is at `end()` and has yielded nothing (`tabletuplefilter.h:278`).

Both rest on the fact that `x % 256` lies in `0..255`, so it never equals -1.

### ExecutorFactory

These theorems hold for every set of partitions, streams and executor identities, and
every set of configured limits and sites counts. They use `ExecutorFactory`'s
assumptions:
- `MinThreads` is at least 2;
- the configured values are integers, and the sites counts are naturals (both non-empty);
- partitions and streams are finite sets;
- `NoExec` is not an executor.

Each theorem assumes `~CallersMayOverRelease`: the contract that a source frees only
the executor it holds. `executor_factory_over_release` shows what breaks without it.

The inductive invariant is
`FInv = TypeOK /\ Bounds /\ error = "none" /\ RefCountsMatchUsers /\ MappedLive /\ PartitionAffinity /\ LiveNotShutdown /\ RefCountsPositive`.
The four properties alone are not inductive, and each extra conjunct answers one step:
- `Bounds` (`|m_executors| <= m_maxThreads`, cursor within the list) keeps `allocate` from indexing past the list and from growing past the limit;
- `MappedLive` (every mapped partition points into the list) keeps `allocateExisting` from handing out a shut-down executor;
- `LiveNotShutdown` (nothing in the list was shut down) keeps a fresh or shared executor live;
- `RefCountsPositive` (no count is 0) makes `release`'s `== 0` test fire exactly at the last holder.

One lemma per action proves that the action preserves FInv:
`AllocateExistingFInv`, `AllocateNewFInv`, `AllocateSharedFInv`, `FreeExecutorFInv`
and `QueryFInv`. Reference counts are related to holders by the cardinality lemmas
`CountAfterGet` and `CountAfterFree`, from `FiniteSetTheorems`.

The theorems:
- `TypeCorrect`: `Spec => []TypeOK`, for every caller, without the `~CallersMayOverRelease` assumption. TypeOK is inductive by itself: each operation's own checks (the map lookups, `rc < 0`, the index against `size()`) throw before any field leaves its type. `RemoveAtType` shows that `ArrayList.remove` yields a list over the same elements, whatever index it is given.
- `FInvHolds`: `Spec => []FInv`.
- `RefCountsMatchUsersHolds`, `PartitionAffinityHolds`, `NoSourceOnShutdownExecutorHolds`, `NoFactoryExceptionHolds`: each property of the core run, as `Spec => []P`.
- `PoolRefinementHolds`: `Spec => PoolRefinement`. The initial state maps to `PoolInit` (`InitRefines`). Each `GetExecutor` step is an `Acquire` (`GetExecutorRefines`), each `FreeExecutor` step a `Release` (`FreeExecutorRefines`), and each query a stutter. The key fact is `HeldIsList`: under FInv, the executors held by some source are exactly the elements of `m_executors`. `m_executors` has no duplicates, so `RangeCardinality` gives |in use| = `Len(executors)` <= `m_maxThreads`.

### Only model-checked

- `IterationEnds`: it is liveness, which TLAPS cannot prove here;
- `MaxThreadCountAsDocumented`: the javadoc claim of a violation run; the run's counterexample is the whole result;
- `AddressRoundTrip`: the same, for the `getTupleAddress` bug.

Every invariant and refinement a passing run checks is also a theorem. The filter
theorems hold for both build settings of `AssertsEnabled`.

**Out of reach of TLAPS here:** liveness and ENABLED, induction over data with operator
parameters, and RECURSIVE operators. None of the proof modules uses one.

## 5. Not modelled

- The table storage and the executor services. They are not in the repository; only their interfaces appear: the snapshot, and identities plus shutdown.
- Logging and trace output, and the exception messages.
- Several simultaneous iterators. They only read, so they do not interact with each other (updates interleaving with one iterator are modelled).
- No property states what `getCurrentThreadCount` (`ExecutorFactory.java:172`) should return before initialisation. Its javadoc promises nothing for that case. The action models the throw, and the core run reaches it.
- An iteration loop that breaks before `end()`.

## 6. Plan for the next sittings

1. **Prove.**
   - An action property of the factory: `m_maxThreads` never changes once set, and an executor is shut down only in the step its last holder releases it.
   - Lemmas that bound `m_nextAlloc` across shrinking, stated once and reused.
2. **Model.**
   - Larger instances of the factory (5 partitions, 4 executors) as a separate run.
   - A composed model of the export data sources' get/free life cycle around the factory, if the source class enters the repository.
