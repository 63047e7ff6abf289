# TLA+ models of the libcds hazard-pointer SMR engine

This directory holds TLA+ models of the hazard-pointer safe memory
reclamation (SMR) core of this repository (`cds::gc::hp::details`). They
are checked with TLC. Each definition is translated from the source lines
named in `PROJECT.json` under `"map"`.

## 1. Inventory of the system

| Component | Source | State it keeps | Operations |
|---|---|---|---|
| Registry | `src/src/hp.cpp`, `src/src/details/hp_smr_common.cpp`, `hp_smr_common.h`, `hp_client_record.h` | `instance_` (singleton), `thread_list_` (head of an append-only list of `client_record`s), per record `next_`, `owner_rec_` (self or nullptr), `free_` hint; config `hazard_ptr_count_`, `max_thread_count_`, `max_retired_ptr_count_`, `scan_type_` | `construct`, `destruct`, `alloc_thread_data`, `create_client_data`, `free_thread_data`, `detach_all_thread`, `statistics` |
| ThreadRecord | `hp_client_record.h` (+ `hp_common.h`, not under src/) | `hazards_` guard slots, `retired_` buffer of `{m_p / m_n, disposer}` | written by the owner; read by every scan |
| ScanEngine | `src/cds/gc/details/hp_scan_functions.h`, `hp.cpp` | local `plist` (classic) or the low bit of each retired word (in-place) | `classic_scan`, `inplace_scan` |
| Help-scan | `hp.cpp` 255-304 | none of its own; it claims other records | `help_scan` |
| Client API | `cds/gc/hp.h` (not under src/; from the spec) | the calling thread's TLS record pointer | `attach`, `detach`, `guard.set/clear`, `retire`, `scan` |
| Memory barriers | `hp.cpp` 27-68 | `membarrier_available_` per strategy (and the kernel's registration) | `check_membarrier_available`, `call_membarrier` |
| Allocator indirection | `hp.cpp` 72-126, `hp_default_memory_allocator.*` | two function pointers | `set_memory_allocator`, every allocation and free of the instance, the records and the scan vector |
| TLS managers | `tls_managers.h` | thread-local `thread_data*` | `getTLS`, `setTLS` (declarations) |
| RCU wrapper | `cds/urcu/general_instant.h` | none (forwards to an RCU engine not in the repository) | out of scope |
| Test support | `test/include/...`, `tests/unit/stack/...` | none | test types only |

**How they interact.** A thread attaches by `alloc_thread_data`. This walks
the list from the head and tries a CAS on each record's `owner_rec_`, from
nullptr to the record. If every CAS fails, it prepends a new record with a
CAS loop on the head. The thread publishes guards in its record's slots,
and it retires unlinked nodes into its record's buffer. A scan walks the
whole list. It reads the guards of every record whose `owner_rec_` is not
nullptr, and frees each entry of the caller's buffer that no guard
publishes. `free_thread_data` clears the guards, scans, may run
`help_scan`, and then releases the record. `help_scan` claims records that
were released with entries left in them. It moves those entries into the
caller's buffer, marks the record `free_`, and releases it. The threads
synchronise only through CASes on `owner_rec_` and on the head, the
release store of `owner_rec_`, and the guard slots.

**What is hard.** Scans run concurrently with other threads publishing,
clearing and releasing records, and with threads claiming them. Records
are handed from one thread to another through the `owner_rec_` CAS, while
the redundant `free_` hint is read without the CAS. `help_scan` moves
entries between buffers and triggers scans in the middle of the move. The
buffer capacity is sized from `max_thread_count`, but the code never
limits the number of attached threads. `inplace_scan` borrows the low bit
of each address.

**What makes it correct.** A node is freed only when no guard publishes
it, and its disposer runs at most once. No retired entry is lost or
duplicated as it moves between buffers. The `free_` hint is only set on an
empty record. The buffers never overflow when the capacity is configured
as documented. Every operation terminates.

## 2. Modules

* `SafeReclamation.tla` is the abstract SMR contract. Nodes go
  live → retired → freed, and `guarded` is the set of protected addresses.
  A protection may only be gained on a live node. `Reclaim(S)` frees
  retired nodes that are not protected. `Teardown` drops every protection
  and frees every retired node.
* `RecordRegistry.tla` is the abstract record registry of spec 3 and 4.4.
  Each record is `absent`, `FREE` or `OWNED`, with the thread holding it.
  `Create` enters a new record OWNED by its creator, `Claim` takes a FREE
  record, `Release` frees an OWNED one, and `Teardown` destroys them all.
* `ScanAlgorithms.tla` holds the pure, per-entry parts of the two scans of
  `hp_scan_functions.h` as operators, with no variables:
  * `IsMarked`/`SetMark`/`ClearMark` are the low-bit operations on a
    retired word;
  * `LowerBound` is `std::lower_bound`, and `MarkGuarded` handles one
    guard of `inplace_scan` (lines 146-156);
  * `Compacted` is the compaction loop and `reset` (163-184);
  * `ClassicKeeps` is the keep test of `classic_scan` line 70, as written.

  `InplaceSurvivors(s, G)` runs the whole in-place pass over a fixed
  guard snapshot `G` (`FoldLeft` of `MarkGuarded` over the sorted buffer,
  then `Compacted`).
* `ScanEquivalence.tla` checks `InplaceSurvivors` against the obvious
  reference over every small input. The input is chosen in `Init` and
  never changes.
* `HazardPointers.tla` is the engine. It extends `ScanAlgorithms`. Its
  state and steps correspond to the code as follows:
  * Records are numbered in creation order. The head is record `nrec`, and
    `next_` of record `r` is `r-1`. A traversal therefore counts down from
    the `nrec` it loaded, so records that other threads prepend later are
    not visited, as in the code.
  * `owner_rec`, `free_`, `hazards` and `retired` are the record fields.
    A retired entry is its word `m_n`, so the in-place mark is the low bit.
  * Each thread has a `pc` and a call `stack`, because
    retire → scan → help_scan → scan nest. The code's locals are
    variables: `aCur`, `sCur`/`sSlot`, `plist`, `hCur`/`hsRec`/`hMove`,
    `retArg` and `helpArg`.
  * Actions, one per shared access or per run of owner-private work:
    * `alloc_thread_data`: `AttachStart`, `AllocReuse` (one CAS),
      `AllocNew` (`create_client_data` plus the head CAS, as one step:
      the retry loop itself is checked in `Lifecycle`, by `Prepend` and
      `RecordsReachable`).
    * `free_thread_data`: `Detach`, `ReleaseAfterScan`, `ReleaseOwner`.
    * `classic_scan`: `ClassicStart`, `ClassicCollect` (one guard slot per
      step; the `owner_rec_` test goes with the first slot),
      `ClassicFinish`.
    * `inplace_scan`: `InplaceEmpty`, `InplaceFallback`, `InplaceStart`
      (sort), `InplaceMark` (one slot per step, `MarkGuarded`),
      `InplaceFinish` (`Compacted`).
    * `help_scan`: `HelpScanStart`, `HelpScanSkip` (own or `free_`
      record), `HelpScanTry` (`free_` read false), then, in a later step,
      `HelpScanOwned` (`curOwner` not null) or `HelpScanClaim` (the CAS,
      `OwnerCAS`). The `free_` read and the CAS are separate steps, as in
      the code, so the hint can be stale by the time of the CAS. Then
      `HelpScanMove` (one `push` per step, then a scan when the buffer
      becomes full), `HelpScanRelease` (`ReleaseClaimed`: clear, `free_`,
      release) and `HelpScanDone`.
    * The shared pieces are operators of their own: `Claimed` (the
      successful CAS of `alloc_thread_data`), `AllUnmarked` (the low-bit
      test), `ClassicCompact` and `InplaceCompact` (the compaction loops).
    * `construct`, and `destruct(bDetachAll)`. The latter is
      `detach_all_thread` followed by the destructor's walk
      (`DestroyThreadList`). Like the code, it leaves each thread's TLS
      as it was, pointing at a destroyed record.
    * Client calls, modelled from the spec because `hp.h` is not under
      src/: `GuardSet` (allowed only on a live node, which models
      protect-and-validate), `GuardClear`, `Retire`, `RetireAfterScan`,
      `RetireAfterHelp` and `ScanCall`.
  * `fault` records a fatal error, after which nothing moves:
    * `retire_capacity`: retire found no room even after a scan and a
      help_scan;
    * `help_scan_dest_full`: the assertion on hp.cpp:287 fails;
    * `retired_overflow`: a push past the end of the buffer.
  * The container is abstracted to `node` (live/retired/freed) and
    `disposed` (how many times each disposer has run).
  * The mapping `Guarded` (every non-null guard slot) instantiates
    `SafeReclamation`.
  * `Holders(r)` is the set of threads working on record r: the thread
    attached to it, and the thread whose help_scan has claimed it.
    `RegStatus` (absent beyond `nrec`, otherwise OWNED or FREE as
    `owner_rec` says) and `RegHolder` instantiate `RecordRegistry`.
* `MC_HazardPointers.tla` gives two or three threads as model values, with
  symmetry sets. Its `LiveView` drops the TLS of a thread that is detached
  or inside `alloc_thread_data`. No step reads it there, and `setTLS`
  overwrites it before the next read. This keeps the stale pointer that
  `destruct` leaves from multiplying the states of the 3-thread run.
* `MC_Completeness.tla` and `MC_Recycling.tla` extend the engine with one
  auxiliary history variable each. The engine's steps are conjoined
  unchanged.
  * `scanGuards[t]` holds the guards published when t's scan pass began.
  * `lastRel[t]` holds the record t released, kept while no other thread
    is inside a call.
* `MemBarrier.tla` models the two asymmetric strategies of `hp.cpp` 27-68
  and the Linux `membarrier` syscall they call:
  * The kernel is one of four variants: no syscall, SHARED only, SHARED
    plus private expedited, or private expedited only.
  * `membarrier(cmd)` returns -1 for an unsupported command, and for
    private expedited before registration.
  * The `int` result is kept as its two's-complement bit pattern, so that
    `res == -1` and the `res & CMD` tests behave as in C++. The width is
    narrowed to 16 bits because TLC's integers are 32-bit. Every command
    bit lies below bit 5.
* `Lifecycle.tla` composes `MemBarrier` with the life cycle of the
  singleton and of the memory it takes from the pluggable allocator.
  * `heap` is a sequence of blocks. Each block records the allocator that
    returned it and the allocator whose free function released it.
  * Actions:
    * `set_memory_allocator`, whose `assert(instance_ == nullptr)` is a
      fault in a debug build;
    * `construct` (the plain test of `instance_`), then `ConstructNew`
      (allocate and store);
    * `destruct` (detach every thread, then free each record and the
      instance);
    * `alloc_thread_data` (claim a free record of the list, or allocate
      one, set `next_` to the head it loads and enter `"prepend"`);
    * `Prepend`, one iteration of the `compare_exchange_weak` loop of
      hp_smr_common.cpp 89-93 (`PrependCAS`). It publishes the record if the
      head is still `next_`. Otherwise it stores the reloaded head into
      `next_` and stays. A spurious failure of the weak CAS leaves the state
      as it was, so it is a stutter step and is not modelled separately.
      `smr[t]` holds the instance the call started on;
    * `ScanStart`, `ScanFence` and `ScanEnd`. `ScanStart` is classic_scan
      reserving its vector from the allocator. `ScanFence` is
      `call_membarrier` when the probe found it available. `ScanEnd`
      returns the vector and optionally releases the record.
  * `Probe(m)` is `check_membarrier_available` for one strategy, made once
    at start-up.
  * Which record a thread claims, and what a scan frees, is
    `HazardPointers`' part. Here the record list is `thread_list[b]` (the
    head) and the `next_` links. `ListFrom(r)` is the RECURSIVE walk
    along `next_`. It is used by the reuse walk, `detach_all_thread` and
    `~basic_smr`, which stores nullptr into the head and frees every record
    it reaches.
* `MC_Lifecycle.tla` gives the threads and a second allocator as model
  values.

The definitions whose names end in `_...` and that appear just before a
mapped definition are mutants. Each is a plausible bug in that definition.
`PROJECT.json` pairs each one with a property that must catch it.

## 3. Runs

Unless stated otherwise, the engine runs use:
* 2 threads;
* 1 guard slot per record;
* `MaxThreadCount = 2` (so H·T = 2);
* at most 3 records;
* addresses drawn from {2, 4, 6}.

| Run | Config | Expect | What it shows |
|---|---|---|---|
| `hp_inplace` | in-place scan, capacity 3, `MC_Completeness` | pass | Two threads go through attach, guard, retire (including the retire that fills the buffer and scans at once), scan, detach with and without help_scan, destruct and construct. The type invariant holds, including destructor assertion 168 that `owner_rec_` is null or self. Disposers run at most once. Each retired node sits in exactly one buffer. The `free_` hint is sound. No capacity fault occurs. The engine refines `SafeReclamation`. `ScanKeepsOnlyGuarded` (spec 8.2) holds: a scan keeps only entries some guard published when its pass began, although owners publish, clear and release during the pass. About 2.7M states, 80 s. |
| `hp_progress` | in-place, addresses {2, 4}, `FairSpec` | pass | Every call that has begun returns (`OperationsComplete`). |
| `hp_classic` | classic scan | pass | Although classic_scan chooses wrongly what to free, it never loses or duplicates an entry and never frees an entry twice. |
| `hp_classic_uaf` | classic scan | **violation** | `RefinesSafeReclamation` fails because of line 70 (finding 1). |
| `hp_fallback` | **3 threads**, 2 records, `MaxThreadCount = 3`, capacity 4, addresses {2, 4, 7} | pass | Three threads contend for two records, so `alloc_thread_data` and `help_scan` claim against each other. The odd address makes inplace_scan fall back to classic_scan. No entry is lost, duplicated or disposed twice, and the `free_` hint stays sound. `ExclusiveOwnership` (spec 5) holds: no record is ever worked on by two threads at once, nor by any thread while `owner_rec_` says it is free. About 2.1M states (under `LiveView`), 90 s. |
| `hp_capacity_edge` | in-place, `MaxRetiredPtrCount = 2 = H·T` | **violation** | A fatal capacity error is reachable (finding 2). |
| `hp_capacity_edge_pass` | same | pass | Up to that error, the retire-after-help and overflow paths keep `RefinesSafeReclamation` and `DisposedAtMostOnce`. The registry refines `RecordRegistry` (spec 4.4): every `owner_rec_` change is a claim by the thread that then works on the record, or a release by the thread that stops. No record is left OWNED with nobody working on it, and the list only grows until `destruct`. 1.46M states, 80 s. |
| `hp_thread_overflow` | `MaxThreadCount = 1`, `MaxRetiredPtrCount = 0`, 2 records | **violation** | Two threads attach although `max_thread_count` is 1. The capacity 2·H·T = 2 is then not enough (finding 3). |
| `hp_recycling` | 2 records, addresses {2, 4}, `MC_Recycling` | **violation** | Spec 8.5 fails. A thread that releases its record and re-attaches with no other thread in a call can get a different record (finding 4). |
| `se_inplace` | 4 addresses, buffers of up to 4, snapshots of up to 3 guards | pass | Over all 10,140 inputs, `InplaceSurvivors` equals the guarded entries of the buffer, sorted and each once. This includes null, repeated and unretired guards, and lookups in a buffer that earlier guards have already marked. |
| `lc_serialized` | one initializer, both strategies, debug build | pass | Every block goes back to the allocator that returned it (`set_memory_allocator` after `construct` trips the assertion first). Nothing leaks once the singleton is destroyed and the threads are idle. Every fence `call_membarrier` issues is accepted by the kernel, whichever of the four kernels runs. `RecordsReachable` holds: when two threads push new records at once, the CAS loop re-links `next_` after a failure, so no returned record drops off the list. A plain store of the head instead of the CAS breaks it. `PrependCompletes` holds under `FairSpec`: a thread inside that loop eventually publishes its record. A loop that does not reload the head on failure spins forever. 158,800 states, 10 s. |

`CHECK_DEADLOCK FALSE` appears only where a fatal error can stop the
program:
* `hp_classic` and `hp_capacity_edge_pass`, because of the capacity
  fault;
* `lc_serialized`, because of the failed `assert`.

**Why these bounds are enough.** The bounds are large enough for every
interleaving the properties depend on:
* With three addresses and capacity 3, one thread can fill its buffer,
  which triggers the scan retire makes when the buffer becomes full.
  A retire into a buffer that is already full is not reachable there,
  because every address is retired by then. The `hp_capacity_edge`
  runs reach it, together with retire after help_scan and the overflow
  paths.
* No run reaches the case of `RetiredHeldOnce` for a node held in
  `retArg` (between a retire and its append). That case is stated for
  completeness and is not exercised.
* Two threads let one thread scan while the other publishes, releases or
  claims records.
* Up to three records let a released record with entries coexist with two
  attached threads, which is what help_scan needs in order to claim
  something.
* Three threads over two records is the smallest case in which a record
  is claimed from three sides: its re-attaching owner, another thread's
  `alloc_thread_data`, and a third thread's help_scan.
  * With two records a third attaching thread can only reuse. When both
    records are owned, its `AllocNew` is disabled by the bound. Runs with
    more records are in the table above.
  * A three-thread run with three records passes too, but takes about
    6 minutes.
* With one guard slot, the owner test and the slot read are one step.
* `se_inplace` covers every permutation of every subset of four
  addresses against every snapshot of up to three guard values.

**Fairness.** `FairSpec` assumes weak fairness only for `Step(t)`, the
steps of a call already under way. The scheduler keeps running a thread
that is inside a call, and every loop in the code is bounded. No thread is
obliged to make a new call. `AllocNew` is bounded by `MaxRecords`, so
`OperationsComplete` excludes the `alloc` phase. The one retry loop of
`alloc_thread_data`, the push CAS of hp_smr_common.cpp 89-93, is checked
in `Lifecycle` instead. There, `FairSpec` assumes weak fairness only for
`Prepend(t)` while no assertion has stopped the program. The loop never
blocks, so a scheduled thread keeps retrying. `PrependCompletes` then
holds because the other threads create only finitely many records
(`MaxBlocks`).

## 4. Findings

1. **classic_scan tests the wrong entry** (`hp_scan_functions.h:70`). The
   call `std::binary_search(itBegin, itEnd, first_retired->m_p)` is made
   inside the loop over `it`, so the first retired entry decides the fate
   of every entry.
   * Example trace: a thread guards 4, retires 2 and then 4, and scans.
     Both entries are freed while its guard still holds 4, which is a use
     after free.
   * In the opposite case, when the first entry is guarded, unguarded
     entries are kept and the buffer fills up.
   * The same bug breaks spec 8.3 (the classic and in-place scans keep the
     same set). On buffer ⟨2, 4⟩ with one guard on 2, in-place keeps {2}
     and classic keeps {2, 4}.
2. **Capacity off-by-one** (`hp.cpp:108`). `calc_retired_size` raises the
   capacity only when `nSize < H·T`, so a request of exactly H·T is kept.
   H·T guarded entries can then fill a buffer for good. Retire then finds
   no room after a scan and a help_scan, or help_scan's
   `assert(!dest.full())` fails.
3. **`max_thread_count` is not enforced** (`hp_smr_common.cpp:86`).
   `alloc_thread_data` creates a record whenever no CAS succeeds, but the
   retired capacity is sized from `max_thread_count`. With one more
   attached thread than configured, guards can pin a full buffer.
4. **Recycling returns the first free record, not one's own**
   (`hp_smr_common.cpp:74`). Trace:
   * Thread A releases record 2, the head of the list, and stays idle.
   * Thread B releases record 1 and attaches again, with no other thread
     in a call.
   * B gets record 2.

   Spec 8.5 promises the identical record. That holds only when no other
   free record precedes it in the list.

## 5. Not modelled (and why)

* Memory ordering. The model is sequentially consistent. The
  relaxed/acquire/release choices are not checked, nor is what the fences
  order. Only whether a fence is executed is modelled (`FenceExecuted`).
* `statistics()`. It only reads counters, and it does so without
  synchronisation, so it has no state change of its own to check.
* `default_alloc_memory`'s rounding of the size up to whole words. The
  blocks in `Lifecycle` carry no sizes.
* The TLS getter (`getTLS`), which is a read, and `StrangeTLSManager`,
  which is declared for tests and has no definition in the repository.
* The RCU wrapper. It forwards to `cds/urcu/details/gpi.h`, which is not
  in the repository. The test files.
* Double retire by a client, and the debug check for it in inplace_scan.
  Clients retire each node once.
* Guard copies between slots. They are in `hp.h`, which is not under
  src/, and the spec's API (section 6) has only set, clear and get. This is the reason
  the hazard list no longer names the slot order of
  `hp_scan_functions.h:44`. The spec only promises that a scan sees a
  guard that stays published throughout its pass, and a guard copied to a
  slot the pass has already read is not such a guard.
* What a thread does with the stale TLS that `destruct(true)` leaves
  behind. The model follows the client contract of `hp.h` (not in the
  repository): the thread attaches again before its next call. The
  hazard list records the stale pointer (`hp.cpp:141`).
* `construct`/`destruct` racing with the other calls. The contract
  forbids it (spec.md: the caller must serialize initialization), so
  `destruct` runs only when every thread is idle. `Lifecycle` keeps
  `construct` as a plain test of `instance_` followed by the store, but
  its runs have one initializer (`Initializers = {t1}`). Two racing
  first calls would break a documented precondition, and no property
  checks that case.

## 6. Plan

Done:
1. `SafeReclamation` and `HazardPointers`, with the first findings (line
   70, capacity off-by-one) and the liveness of every operation.
2. `MemBarrier` and `Lifecycle`: allocator matching, leaks, and the membarrier probe against four kernels. The
   `max_thread_count` overflow run.
3. `ScanAlgorithms` and `ScanEquivalence`, with `InplaceScanCorrect`.
   Spec 8.2 completeness for concurrent scans (`ScanKeepsOnlyGuarded`).
   Spec 8.5 recycling (finding 4). A three-thread run.

4. Record ownership: `ExclusiveOwnership` at three threads, and the
   refinement of the spec 4.4 state machine (`RecordRegistry`).
   `destruct` leaves the TLS as the code does.
5. The record list as a linked list in `Lifecycle`. The push CAS loop
   and its retry are one step each (`Prepend`). The destructor walks the
   list with `ListFrom`. `RecordsReachable` is in `lc_serialized`.

Next:
6. Two guard slots per record, and `RefinesSafeReclamation` at three
   threads, where the run time allows.
7. Spec 8.6 (help-scan conservation) as a count over one help_scan pass.
   `RetiredHeldOnce` already covers it state by state.
8. Spec 8.7's scenario as a fixed trace, if it adds anything beyond
   `hp_inplace`.
