# A verification project for the NewGC page heap

This directory models the collector of `src/crates/newgc-core`: a paged, generational, mostly-precise
copying heap (`page_heap/`) and the cooperative stop-the-world protocol that lets several mutator threads
share it, together with its first client, the interpreter of `src/crates/newgc-test-lisp`. The modules are TLA+, checked by
TLC on small instances; the theorems about some of them are checked by TLAPS for every value of the constants. Paths below are relative to `src/crates/newgc-core/src/page_heap/`
unless they say otherwise.

## 1. Inventory

| Component | State | Operations | Hard behaviour | What makes it correct |
|---|---|---|---|---|
| Safepoint protocol (`mutator.rs`, `shared.rs`) | epoch, `world_running`, `park_cv`, `coord_mutex`, heap lock, registry, per mutator `last_epoch`/`is_active`/`is_acting_coordinator`/`in_native`, root snapshot, TLABs | register, poll, park, enter/leave native, collect (`drive_collect`), drop | threads interleave at every lock and every flag; two drivers at once; a driver that panics; lost wake-ups | the driver collects alone, misses no root set and no TLAB; everyone resumes, with current roots |
| Page table and allocator (`alloc.rs`, `page_desc.rs`, `space.rs`) | page descriptors, LIFO free list, one bump region per generation, start bits | bump allocation, page acquisition, Large runs, release | the free list is lazily cleaned: stale and double entries; start bits survive a release | a page has one owner; no Free page is lost |
| Evacuation (`evac.rs`, `mark.rs`, `pin.rs`) | mark bits, pin set, page pin bytes, forwarding markers, chunk loop | mark, pin folding, mark extension, copy, rewrite, reclaim (flip or release) | several chunks per pass when memory is short; pages that flip in place; out of memory in the middle | objects keep identity and pointers; every reference is rewritten; pinned ones do not move |
| Cycles and cards (`cycle.rs`, `coordinator_api.rs`, `../heap_common.rs`) | promotion counters, dirty cards, page-generation snapshot | `collect_minor` with its cascade, `collect_major`, `collect_full`, card scan, card rebuild | a sequence of passes that share pins and (in the cascade) an old snapshot | every pointer between generations is found by the next scan; promotion empties a generation; a full cycle keeps no garbage |
| Mutator TLABs, slabs (`mutator.rs`, `alloc.rs`, `coordinator_api.rs`) | per mutator and region a buffer (page, cursor, end, next size); slabs a client bumps itself | refill, lock-free bump, flush, `try_alloc_g0_slab` | many owners of one page; dropped tails; pages that are reused with old contents | no cell is handed out twice, what is handed out is zero, `words_used` covers every object |
| Coordinator entry points (`coordinator_api.rs`) | caller-made marks and per-page live counts, static area and its card table | `mark_minor_with_static`, `collect_minor_with_static` with `release_zero_live_unpinned_pages` | pages are released before the evacuation, by marks made before the pins were known | nothing reachable is on a released page; static words stay on dirty cards while they point into the heap |
| Test language, interpreter (`newgc-test-lisp`: `eval.rs`, `value.rs`) | value stack, local frames, globals, Rust frames that hold words | every form and builtin; allocators with their barrier; gathering and scattering of roots | any builtin may collect in the middle; errors leave values and frames | every word it can read names its object; values and frames balance |
| Trigger policy, statistics (`space.rs`, `cycle.rs`) | byte counters | `should_collect`, `collect_auto` | – | decides only when a cycle starts |
| Reservation, commit, decommit (`space.rs`, `alloc.rs`) | commit bits, zeroed flags | system calls | a commit that is refused half way | pages handed out are committed and zero; a refusal changes nothing else |
| Fallible collection (`space.rs`, `evac.rs`, `mutator.rs`) | `poisoned` | `try_collect_*` | unwinding through three locks | a stalled heap is refused; nobody sleeps for ever |
| Crash reports, layouts, words, scanner, the reader of the test language | – | – | – | no protocol state; see section 8 |

How they interact: a mutator allocates under the heap lock (or in its TLAB), polls at safepoints, and calls
`drive_collect`, which stops the world, takes the heap lock, scans the published stacks conservatively into the
pin set, and calls one of the cycles with a closure that visits the mutators' root snapshots. A cycle calls
`evacuate_with_roots` once per pass; a pass calls the marker, the pin set and the allocator. The interpreter allocates
through `alloc_pair`, `alloc_vector` and `alloc_string`, each preceded by a safepoint (`maybe_gc`) at which it hands the
collector every slot of its stack, frames and globals, and takes the new addresses back.

The hazards this gives rise to are listed in `PROJECT.json` with the line where each bites and the properties
that would catch it.

## 2. Modules

| Module | What it is |
|---|---|
| `Safepoint` | the protocol, one action per critical section of `park_mutex` or per lock taken |
| `StopTheWorld` | its abstract specification: access to the heap without epochs, locks or condition variables |
| `SafepointProofs` | inductive invariant and safety theorems of `Safepoint`, and that it implements `StopTheWorld` (safety) |
| `PageTable` | descriptors, free list, bump regions, start bits, Large runs |
| `Evacuator` | one evacuation pass, EXTENDS `PageTable` |
| `PageHeap` | client, write barrier, pins and cycles, EXTENDS `Evacuator` |
| `ManagedHeap` | what the heap promises its client: an object graph, and collections that are no step at all |
| `Order`, `OrderProofs` | finite sets of integers as the page scans walk them, and lemmas about them |
| `PageHeapProofs` | theorems: no Free page is ever missing from the free list, and the types of `PageHeap` |
| `HeapCycleProofs` | the chunk loop, the plan of a cycle, bump regions and pinned objects of `PageHeap` |
| `HeapPointerProofs` | what objects and holders of `PageHeap` point at, throughout a cycle; the remembered set |
| `HeapImplements` | theorems: `PageHeap` implements `ManagedHeap`, and a full collection leaves no garbage |
| `Tlabs` | cells of one heap and their owners: buffers and slabs of mutators, regions, Large runs, commit bits, start bits, across passes |
| `TlabsProofs` | inductive invariant and theorems of `Tlabs`: every property of its passing run |
| `MiniLisp` | the interpreter as a client: an arbitrary program, a collection at any safepoint |
| `MiniLispProofs` | inductive invariant and theorems of `MiniLisp`: every property of its run |
| `MCSafepoint`, `MCPageHeap`, `MCTlabs`, `MCMiniLisp` | instances for TLC (symmetry, lists of cycles) |

`PageHeap` and `Tlabs` look at the same page table from two sides. `PageHeap` has objects with identity and pointers and the whole
of a pass, but one slot per object and one allocator; `Tlabs` has cells, sizes and several allocators at work, but no pointers: a
pass copies, pins and drops arbitrary objects, but page by page and chunk by chunk as the code does. `MiniLisp` in turn reduces the collector to what it does to words. `Safepoint`
justifies that in `Tlabs` and `MiniLisp` a pass begins only with all buffers flushed and ends before anyone goes on.

### Safepoint and the code

| Code | Actions |
|---|---|
| `register_mutator` | `Lookup` (heap lock), `Register` (under `coord_mutex`), `RegisterPanics` (poisoned) |
| `poll_safepoint`, `park` | `Poll` (the unlocked comparison), `ParkPublish` (snapshot, `flush_tlabs`), `Park` (a turn of the loop), `CopyBack` |
| `enter_native`, `leave_native` | `EnterNative`, `AnnounceNative`, `LeaveNative`, `LeaveRetry`, `CopyBack` |
| slow path of allocation | `Refill`, `RefillPanics` |
| `drive_collect` | `StartDrive`, `ClaimCoordinator`, `LockCoord`, `StopWorld`, `SnapshotRegistry`, `AwaitArrivals`, `LockHeap`, `Collect` or `MidEvacOom`, `Resume` (`ResumeGuard::drop`), `ReleaseCoord`, `CopyBack` |
| `Drop for Mutator` | `Deactivate`, `Deregister` |
| condition variable | `waiters`; a notify empties it, `SpuriousWake` (also the driver's `wait_timeout`) removes one |

A root set is one bit, "do these words name where the objects are now?", for the caller's slots (`rootsValid`) and
for the published snapshot (`snapValid`). A collection moves everything: it invalidates all of them and makes
valid again the snapshots it visits. A TLAB is one bit.

A critical section of `park_mutex` is one step. That is exact for what is inside, since only the epoch is read
outside it (`poll_safepoint`, which has its own step). The driver's wait loop passes mutators in slot order and
never returns to one it has passed; `AwaitArrivals` lets it pass any of the arrived ones, which includes every order.

### The heap modules and the code

| Code | Definitions |
|---|---|
| `acquire_free_page`, `try_bump_in_current`, `try_alloc_in_region` | `NextFree`, `AfterPop`, `NextSlot`, `Claim`, `StartsWithNext`, `CellsWithNext`, `Alloc` |
| `try_alloc_large`, `find_contiguous_free` | `LargeFits`, `ClaimLarge`, `AllocLarge` |
| `visit_card_pointer_cells`, `scan_dirty_cards_as_roots` | `WalkFrom`, `Walked`, `ScannedCards` |
| `mark_visit_slot`, the mark drain, `apply_pins_and_extend_mark` | `Markable`, `Closure`, `InternalMark`, `PinSet`, `ExtendedMark`, action `Mark` |
| chunk loop of `evacuate_with_roots` | `PickChunk`, `CopyObject` or `MidEvacOom`, `Rewrite`, `Reclaim` |
| `phase1_copy`, `phase2_rewrite`, `phase3_reclaim` | `ToCopy`, `Rewritten`/`Followed`, `Flipped`/`Released` |
| `collect_minor`, `collect_major`, `collect_full` | `StartMinor`, `StartMajor`, `StartFull`, the lists of `Pass`, `BeginPass`, `EndCycle` |
| conservative stack scan of `drive_collect` | `StackPins`: {G0, G1} for a minor, all generations for a full cycle, not offered with a major |
| `rebuild_cards_for_old_gens`, `clear_all_pins` | `EndCycle` |
| `mark_minor_with_static` | `MarkMinorWithStatic`; `premarked` is `recycle_live_counts_target` |
| `collect_minor_with_static`, `release_zero_live_unpinned_pages` | `CollectMinorWithStatic` and `ZeroLive` up to the call of `collect_minor`, then the passes of a minor |
| static words as roots, `clear_cards_unless_intergen` | `VisitedWords`, the static half of `Rewrite`, `KeptStaticCards` in `EndCycle` |
| client of `newgc-test-lisp` | `Alloc`, `Store` (with the barrier, unconditionally), `SetRoot`, `Spill`, `Pin`, `Unpin` |

What is abstracted: a small object fills one slot and has an identity, which stands for its contents, and one
pointer; a Large object owns `LargeSpan` pages and is named by its first slot. Cons and Boxed pages are walked the
same way and are one kind. Pages are always committed; the zeroed flag, `words_used`, `pages_high_water`, object
ages and the slot numbers in a page's pin byte carry no decision that is left here. The mark bits of one pass are never
read by another, so `marks` is cleared between cycles only to keep states few; those of `mark_minor_with_static` are the marks of the first
pass. A client with static words uses the coordinator's entry points only: the plain cycles do not visit them. Each static word has a
card of its own. A pass that runs out of pages ends in
`phase = "stalled"`, where nothing happens any more: the code panics there and documents the heap as unusable.

### Tlabs and the code

| Code | Definitions |
|---|---|
| `Mutator::bump`, `refill`, `flush_tlabs` | `Bump`, `AllocHit`, `AllocMiss` with `Want`, `Flushed`, `Flush` |
| `reserve_tlab`, `carve_tlab_in_current`, `acquire_free_page` | `Slab`, `Carve`, `PageFor`, `NextFree`, `AfterPop`, `Opened` |
| `try_alloc_g0_slab` and the client that bumps it | `TakeSlab`, `SlabReserve`, `SlabBump` |
| `try_alloc_in_region` as the collector calls it | `RegionAlloc` |
| `try_alloc_large` | `AllocLarge`; `Claimed` takes the pages claimed so far, so that `AllocLargeRefused` can stop in the middle |
| `commit_page` that fails, wherever a page is opened | `CommitRefused`, in `AllocMissRefused`, `TakeSlabRefused`, `CopyRefused`; `AllocLargeRefused` |
| `release_zero_live_unpinned_pages` | `ZeroLive` in `BeginPass` (with `early`): every page of G0 without mark and pin, of Large runs too |
| chunk loop of `evacuate_with_roots` | `BeginPass`, `PickChunk` with `ChunkSize`, `EndPass` |
| `phase1_copy_chunk` | `Sources`, `NextCopy`, `CopyObject` or `MidEvacOom`, in the order of the addresses |
| `phase3_reclaim` | one page of the chunk at a time (`Reclaiming`): `SkipPage`, `FlipRun`, `ReleaseRun`, `FlipPage`, `ReleasePage` |

A start bit pair is 0, 1 or 3 as in the bitmap; the contents of a cell matter as zero or not, and that of a header as the size of its
object. A refill and the bump that follows it are one step, since the slow path allocates its object before it returns. Which objects a
pass finds pinned and which the mark has reached is chosen arbitrarily among the objects of its generation: `Evacuator` has these
decisions, and pointers, the stack scan and the card table are left to `PageHeap`. Marks and pins of a Large object are on its first page,
so `ZeroLive` takes the other pages of a live run; what phase 3 does to a run, it does to as many pages as the head says, whatever they
are by then.

That is the code, and it goes wrong: three steps tear a Large run, and afterwards the head speaks for pages that are not its own. `Spec`
has all three. `UncutSpec` is `Spec` without them:

* the early release takes a part of a run the head of which stays (`RunsListed` says it has not);
* a chunk ends inside a dead run while later chunks have objects to copy (`RunsUncut` says it does not);
* the OS refuses a page in the middle of a run (`TearingRefusal`; every other refusal is in `Refusal` and stays).

Finding 3 is the first of them; section 7 says what the others do.

### MiniLisp and the code

| Code | Definitions |
|---|---|
| Rust call frames of the tree walker | `kont`: one record for each form under way, with the height of the value stack it noted (`high_water`) |
| `eval`, `eval_list`, `eval_if`, `eval_begin`, `eval_and`, ... | `EvalAtom`, `EvalString`, `EvalSymbol`, `EvalForm`, `TakeBranch`, `SkipBranch`, `NextForm`, `Decided` |
| `eval_let`, `eval_call` | `NextOperand`, `OpenScope`, `Call`, `EndScope`, `EvalThunk` |
| `eval_define`, `eval_set`, `lookup` | `Define`, `Assign`, `Slot`, `ValueOf` |
| `try_builtin` | `ConsPair`, `List`/`ListCons`/`ListDone`, `Vector`, `MakeVector`, `Access`, `VectorSet`, `CollectNow`, `Inspect` (every builtin that yields an immediate and changes nothing) |
| errors (`?` through all frames) | `Fail` |
| `maybe_gc`, `poll_shared`, `do_collect`, `gather_roots`, `scatter_roots` | `MaybeGc`, `Collected`, `Roots`, `Scattered` |
| `alloc_pair`, `alloc_vector`, `alloc_string`, `vector_set` | `AllocPair`, `AllocVector`, `AllocString`, `Filled`, `StoredField` with what each does to the card |

A word is `<<tag, id, moves>>`: the object it names and how often that object had been moved when the word was written. Between steps
counts return to 0, a word whose object has moved on becomes `Lost`, and objects nobody reaches are forgotten, so that identities are
used again and a program may allocate without end. The program is arbitrary: where an expression is evaluated, it may be any form.
Immediates are one value of either truth. The heap is what the client sees of a collection: a pass over one generation moves what the roots
and the objects on dirty cards lead to, and rewrites words in roots, scanned objects, moved objects and the destination.

## 3. Runs

| Run | Instance | What it shows |
|---|---|---|
| `safepoint` | 3 threads, 2 epochs, OOM possible; fairness of threads | the driver owns the heap alone (`WorldStopped`), misses nobody (`NobodyMissed`), no open TLAB (`TlabsFlushed`), managed code never holds stale addresses (`RootsCurrent`), a stopped world has a driver (`StoppedHasDriver`), arrivals are never taken back (`ArrivalIsFinal`); every drive ends, every parked or leaving thread runs again; the protocol implements `StopTheWorld`, its fairness included |
| `heap_cycles` | 6 pages of 2 slots (one card each), cap 1, 2 identities, 2 roots, minor, major and full, thresholds 2 and 2; symmetry | identity and pointers survive every cycle (`ImplementsManagedHeap`), cards find every pointer between generations (`RememberedSet`), garbage never points into freed pages (`HeapClosed`), free list and regions are consistent, promotion leaves nothing |
| `heap_pins` | 5 pages of 2 slots, card 1 slot, 2 identities, 1 root, 1 stack word, 1 handle, minor and full | pins stay in place while their pages flip, a full cycle keeps only what is reachable, Tenured is compacted only when no young page is left |
| `heap_large` | 9 pages of 1 slot, Large runs of 2 pages, cap 2, 2 identities, 1 root | Large runs flip in place; stale and double free-list entries never give a page to two owners |
| `heap_tight` | 3 pages of 1 slot, 3 identities, majors only | cycles of one-page chunks, cycles that stall, and every cycle ends |
| `heap_static` | 5 pages of 2 slots, card 1 slot, cap 1, 2 identities, 1 root, 1 static word, 1 stack word, thresholds 2 and 1 | with or without a mark made in advance, what the coordinator's minor releases early holds nothing reachable or pinned, and stale start bits of released pages never come back as objects |
| `tlabs` | 4 pages of 2 cells, cap 3, `UncutSpec`; one mutator with a boxed buffer of 2 cells, another with a slab of 1, Large runs of 2 pages; minors with at most one pinned object, marked in advance or not; the OS may refuse one of the pages | no cell has two owners (`OneOwner`), what is handed out is zero without start bits (`HandsOutZeros`), `words_used` covers every object whatever tails were dropped (`WatermarkCovers`), runs stay whole (`RunsWhole`), no object is overwritten, by mutators, or by a pass that opens pages its earlier chunks or the early release have freed (`ObjectsStay`), G0 respects its cap by each of its four ways to grow (`YoungWithinCap`) |
| `lisp` | any program without `make-vector` of a word (`AnyInit` FALSE); 2 objects, 1 name, forms nested 2 deep with up to 2 arguments, vectors of 1 cell, stack of 3, 1 frame; no collection, a minor or a full one at each safepoint; symmetry | every word the interpreter can read is current (`WordsNameTheirObjects`), values and frames balance (`StackDiscipline`), builtins show nothing of the collections inside them (`CollectionsAreInvisible`) |
| `heap_low_memory`, `heap_card_gap`, `tlabs_marked`, `lisp_make_vector` | the smallest instances found that show the case; see section 7 | what the code does against its own comments |

Deadlock checking is off where the system really stops: threads that have used up `MaxEpoch`, or all dropped on
poisoned locks, a heap whose cycle stalled or that is full, an interpreter at its bounds or after an error that left values behind.
That the three locks of the protocol never deadlock is `DriveEnds` and the fairness half of `ImplementsStopTheWorld`.

### Bounds

* `MaxEpoch` bounds the collections driven in a behaviour. Two are needed for the straggler that wakes when a second
  driver has already stopped the world; a third would repeat the second, because only order and equality of epochs
  matter. With one more thread than drivers there is always a parker, a native caller or a newcomer besides.
* Pages, slots and cards: enough for a page of each generation, a source and a destination page and a spare one,
  two objects on one page (`PageSize` 2), with a card of one slot or of one page. The gaps that flips leave need
  pages of two slots.
* `Id`, `Root`, `Stack`, `Handle`: two objects make every pointer between two generations and the cycle of two
  objects; identities are reused once an object is out of the heap (`Present`), so a behaviour allocates without end.
  Three identities with two roots, minor and major cycles and thresholds 1 and 2 hold as well (822 000 states).
* `G0Threshold`, `G1Threshold` are 3 and 5 in the code; 1 or 2 here, so that plain minors, promotions
  and cascades all occur.
* `YoungPageCap` is 1 or 2 so that allocation fails at the cap as well as at the end of the heap.
* `StaleBound` bounds the stale entries on the free list before a Large allocation. In the code the list grows by
  a run's pages every time a Large run is released, without bound.
* `Tlabs`: two cells on a page are a full buffer, a dropped tail, and a page shared by a buffer and a slab. Under a cap of three a Large run
  and a small page are in G0 at once, or three small pages, with a page left for copies. A chunk is one page there, so the runs that die in a
  pass are released by a chunk that ends inside them, the runs that are pinned flip whole, and later chunks copy to pages that earlier ones
  have freed. `Refusable` is page 1: the refused page is the first of a Large run, one for a buffer, for a slab or for a copy. `FreeListBound`
  bounds the entries of the free list when a pass begins, as many as there are pages; stale ones come from Large claims, also below it.
  `MaxPins` bounds the objects a pass finds pinned.
* `tlabs` takes `UncutSpec`, since with any of the three steps it leaves out `ObjectsStay` fails; `tlabs_marked` takes `Spec`.
* `MiniLisp`: `Id` bounds live objects only. `Cycles` is `MinorOrFull`: a cycle that moves young objects and one that moves all.
  A list of variables binds each name once. Index and size arguments are left out: they are numbers, and their evaluation does nothing the
  evaluation of another argument may not do. `AnyInit` FALSE keeps `make-vector` of heap words out of the passing run, see finding 4.

Section 7 says why several chunks of one promotion lose pointers. `heap_cycles`, `heap_pins` and `heap_large` therefore leave enough
free pages that no promotion puts an object and one it points at into different chunks; passes of many chunks are the business of
`heap_tight`, whose passes compact a generation into itself. Likewise the passing runs keep stack words and Large objects apart.

## 4. Fairness

`Safepoint`: weak fairness of `OwnStep(m)` for every thread: a thread finishes what it began (a poll, a park, a
drive, an unwinding) as the operating system keeps scheduling it. Nothing obliges it to allocate, collect, return from
native code or drop, and no spurious wake-up is ever assumed, so liveness rests on the notifies alone; the
`wait_timeout` of the driver is, as `shared.rs` says, a diagnostic backstop. Polling is an own step because a mutator
that never polls does stop everyone: that is the contract of `poll_safepoint`. Under this fairness a thread could lose
a lock for ever to others; `MaxEpoch` makes such a race finite, so starvation under an unfair `Mutex` is outside the
model.

`PageHeap`: weak fairness of the collector. A cycle runs to its end on the driver's thread while the client is stopped.

## 5. Proofs

`SafepointProofs` proves `Spec => []IInv` (`Invariance`) and from it every safety property of `safepoint`, for any set
of threads, any `MaxEpoch` and with or without failures: `TypeCorrect`, `StopsTheWorld`, `MissesNobody`, `FlushesTlabs`,
`KeepsRootsCurrent`, `StoppedIsDriven`, `ArrivalsAreFinal`. The assumptions are `SafepointAssumption` only.

None of the properties is inductive: that the driver is alone when it collects rests on what it saw, one mutator at a time, in
earlier steps. The invariant records

* `LockInv`: which program points hold which lock, hence at most one thread drives;
* `StopInv`: the world is stopped exactly from `StopWorld` to `Resume`;
* `HandleInv`, `FlagInv`: registry, `is_active`, `acting` and `native` are functions of the program point;
* `PoisonInv`: a poisoned lock goes with an unwound collection;
* `EpochInv`: no `last_epoch` is ahead of the epoch, and one that equals it while the world is stopped belongs to a thread that
  is blocked in `park` or drives;
* `GatherInv`: those the driver has passed have arrived, and everyone active is in its snapshot;
* `TlabInv`, `RootInv`: at which program points TLABs are flushed and which copy of the roots is current.

The wait loop is then one lemma (`WaitLoopStopsWorld`): nobody pending, and everyone passed has arrived, means everyone active is
quiescent. Arrivals cannot be taken back (`ArrivalStep`) because leaving native code, adopting an epoch and clearing the
acting flag all happen while the world runs.

`SafepointProofs` also proves `Spec => Abstract!Spec` (`Implements`): each action is mapped to a step of `StopTheWorld` or to a stutter, one step
of the proof per action; `WorldStopped` is what makes the map of `LockHeap` a legal `Begin`.

`PageHeapProofs` proves `Spec => []FreePagesListed` (`FreePagesStayListed`) for `PageHeap`, from `PageTableAssumption` alone: for any heap,
client, thresholds and cycles, the early release of the coordinator's minor and the stale entries Large objects leave included. The
invariant `ListInv` adds the types of descriptors and list, and of what the chunk loop works on (the pages of a chunk are pages, a pass
moves to a generation that is not Free). The argument: opening a page takes away its own entry and stale ones only, since it takes the
topmost entry that is Free (`ClaimLists`, on `GreatestIs`); whatever becomes Free is appended (`ReleaseLists`, on `AscendingLists`);
pin bytes and Large claims free nothing. That `Ascending` lists a finite set completely rests on rank being a bijection (`RankOrder`,
`RankOnto` of `OrderProofs`), without induction.

`TlabsProofs` proves all that the run `tlabs` checks, for any number of mutators, pages and cells on a page, any sizes, spans,
generations, chunks and cap, with or without the early release and with any page refused: `NoCellTwice` (`OneOwner`), `NoObjectChanges`
(`ObjectsStay`), `HandedOutZero` (`HandsOutZeros`), `WatermarkHolds` (`WatermarkCovers`), `LargeRunsAreWhole` (`RunsWhole`), `YoungCapped`
(`YoungWithinCap`) and `TypeCorrect`. Besides `TlabsAssumption` they have one hypothesis, which is in their statements: they are about
`UncutSpec`, the code short of the three steps of section 2 that tear a Large run of several pages. Each of the three makes `ObjectsStay`
false of `Spec`.

For a client whose Large objects have one page at most, or that has none, none of the three can happen: `OnePageRunsAreUncut` proves that
`Spec` implies `UncutSpec` then. So for it the theorems are about the code as it is, the early release and any chunks included.
`OneOwner` is not inductive by itself: nothing in it says that the unused end of a page is zero, that a region is open where
`words_used` says, or that an object ends before the next one. The invariant `IInv` adds

* `PageSound`: what the descriptor says (kind, generation, span, commit bit, `zeroed`) fits the page, and a small page is `Sound`:
  below `words_used` objects lie apart from each other and from the cells buffers still hold, and everything else is zero;
* `RunSound`: each Large page lies in the run of a head, and the rest of a run repeats its head with span 0;
* `RegionSound`: a region's page has its generation and kind, and is full exactly up to the region's offset;
* `BuffersSound`: buffers on one page hold disjoint cells;
* `PassSound`: while a pass runs nobody holds a buffer; no region is open on a page the pass has still to reclaim; such a page is in use
  as long as there is more to copy, and the head of a run among them has its source generation still; no chunk cuts a dead run before the last
  copy; what is pinned is an object. This is what makes pages that one chunk frees safe for the copies of the next: they are on no list any more.

The code does four things to a small page, and one lemma says of each that the page stays `Sound`: a slab is cut off its end
(`GrowthIsSound`), an object is written into reserved cells (`WriteIsSound`), a buffer forgets its tail (`DropIsSound`), a pass keeps some
objects and zeroes the rest (`PruneIsSound`). Two runs that share a page are one run (`OneRun`), which is why flipping and
releasing by span never cuts one in two (`RunInRun`); the early release takes all of a run or nothing (`EarlyRunsAreWhole`). Each action has then a lemma that it keeps the invariant (`AllocMissKeeps`, `ReleaseKeeps`, ...);
a refused page changes the free list only (`RefusalKeeps`).

`PageHeapProofs` also proves `Spec => []TypeOK` (`TypesKept`), from the assumptions on the constants alone. The
invariant `TypeInv` has a part for the table, the memory, the holders, the pass and the cycle. What only the history tells is that
no run leaves the reservation (`SpansFit`): whatever phase 3 releases are pages. The recursive functions of the model (mark,
remembered set) are followed by a least counterexample (`OrderProofs`).

`HeapCycleProofs` proves what a whole cycle does, for any number of pages, slots and objects. Its theorems carry hypotheses about
the client, because without them they are false, as section 7 shows:

| Hypothesis | Excludes |
|---|---|
| `NoLarge`: no Large object fits the heap | pages of a run that one chunk releases and a later one still lists; a pinned run that flips without its pin |
| `NoStatic`: no cycles with static words | the early release of zero-live pages, which takes the pages of a Large run one by one and the page G0 bumps in |
| `Whole`: one of the two | the combination only |
| `PinsKnown`: no static cycles or no handles | handles unknown to the minor with static words |

* `CycleInvariance` (`Whole`): the inductive invariant `CycleInv` adds to the types that Large runs are whole (`Shape`), that the
  chunk loop has its pages in ascending order, each once, and that a promotion still lists every page of the generation it empties
  (`LoopInv`), and at which pass of its plan the cycle is, with the generations promoted before being empty (`PlanInv`).
* From it `YoungEmptyBeforeCompaction` (`YoungIsEmpty`), which is why the third pass of `collect_full` may do without cards, and
  `PromotionLeavesNothing` (`PromotionIsComplete`). Both are about several passes: a page that a pass forgot would show only in a
  later one.
* `BumpIsExclusive` (`BumpingIsExclusive`, under `NoLarge` and `NoStatic`; `RegionsAreExclusive` under `NoLarge` alone, but for
  the window `Handed` between the early release of the coordinator's minor and the mark of its first pass). The invariant
  `RegionInv`: a region's page has its generation, no object at or above its offset, and is withdrawn while its generation is a
  source.
* `PinsSurvive` (`PinnedSurvive`, under `NoLarge` and `PinsKnown`). The invariant `ObjectInv`: forwarding markers stand on pages
  of the chunk only, a pinned slot holds an object on a page whose pin byte says so, and what a handle names is pinned before
  anything moves. It needs `CycleInv` and `RegionInv`: a copy placed on a used slot would overwrite a pinned object.

`MiniLispProofs` proves all that the run `lisp` checks, from `BoundsAssumption` alone: for every program, any depth of recursion
and any cycles at its safepoints.

* `StackDiscipline` (`StackIsDisciplined`) from the inductive `LispInv`: memory is well-formed and each root is current or `Lost`
  (`MemoryInv`), the pending Rust frames nest and each noted the height the ones below it add up to (`KontInv`), and the value
  stack and the frames are exactly as high as the pending frames say (`HeightInv`).
* `CollectionsAreInvisible` (`BuiltinsAreInvisible`): a safepoint renames words and nothing else (`Follows`), composed over the
  safepoints inside one builtin (`Keeps`, `Yields`).
* `WordsNameTheirObjects` (`WordsAreCurrent`) without `AnyInit`, which is finding 4. The invariant `Good` is about the heap too:
  every field is an immediate or current, and an object with a clean card holds no word. That a pass over one generation keeps it
  is the heart of the proof: what is not rewritten had nothing to rewrite.

`HeapPointerProofs` proves what `HeapClosed`, `RememberedSet` and `PointersFollowed` say (`HeapStaysClosed`, `PointersRemembered`,
`ReachedAreFollowed`), under `NoLarge`, `PinsKnown` and two more hypotheses. Without them the code does not do what the properties say:

| Hypothesis | Excludes |
|---|---|
| `NoGaps`: a card is one slot, or nothing is ever pinned | card walks that stop at a gap before the object (finding 2) |
| `[]OneChunk`: while a promotion copies, rewrites or reclaims, no page of its source waits for a later chunk | promotions that need several chunks (finding 1) |

`OneChunk` is about behaviours, not about constants: it says that memory was sufficient. Passes that compact a generation into
itself may take as many chunks as they like. It holds in every state of `heap_cycles` and `heap_tight`
(add it as an invariant to see it), so the theorems cover all that these runs explore. In `heap_pins` and `heap_static` some promotions
take several chunks, without harm; in `heap_low_memory` one does with harm.

The invariant is `PointerInv` (`PointersKept`). During a pass the heap is not closed: what phase 1 has copied leaves markers, and
what was not marked is on its way out. It is therefore stated for what is `Kept`, all objects but the unmarked ones on pages the
chunk loop has still to deal with (`Doomed`):

* `KeptInv`: what is kept, held or pinned leads to what is kept;
* `FollowInv`: a forwarding marker leads to a copy that the loop is done with;
* `RewrittenInv`: between phase 2 and phase 3 nothing that is kept points at a marker any more;
* `StackInv`: what a stack word names is pinned in every generation that the cycle may move;
* `DirtyInv`: every pointer between generations is on a dirty card, but for those on the chunk at work;
* `MarkedInv`: marks made in advance cover what the roots and the older objects on dirty cards need of G0.

`Mark` establishes `KeptInv` for the pass (`PointerMark`): the closure of the seeds holds every target of an object that stays, for
such an object is pinned or on a card that the scan reaches. That is where the snapshot comes in (`ScanInv`: during a pass pages only
join its destination, or become Free) and the walk (`GapInv`, `WalkReaches`). `Rewrite` re-establishes it for the whole heap:
`MarkersFound` shows that an object that points at a marker is one that phase 2 visits, and this is the step that needs `OneChunk`.
`Reclaim` may then release what it releases.

`HeapImplements` proves `ImplementsManagedHeap` (`HeapKeepsPromise`) and `FullReclaims` (`FullLeavesNoGarbage`; `NoStatic` for
`PinsKnown`) under the same hypotheses and `NamesApart`: identities are finite in number, none of them is `Null`, and no name stands
for two holders.

* `IdInv`: no two objects share an identity, ever. A copy takes over that of its source, which becomes a marker in the same step.
* Every word that leads to what is kept has a name (`Clear`, `Seen`), so nothing the client sees is `"lost"`.
* `Live` of `ManagedHeap` and `ReachedNow` of `PageHeap` are each the least closed set (`LiveIs`, `ReachedNowIs`). Both are recursive
  functions; that as many steps as there are identities suffice rests on a growth that stops (`GrowthEnds`). Hence links of unreached
  objects may come and go (`LinksAre`).
* A step of the collector leaves holders and links as they are: it writes neither (`NothingWritten`) or every word keeps its name
  (`NamesKept`: `CopyHidden`, `RewriteHidden`, `ReclaimHidden`).
* A step of the client is `New`, `Link`, `Move` or none (`AllocSeen`, `StoreSeen`, `HolderSet`).
* For the full collection: every start bit is an object's and every pin is named by a stack word or a handle (`Tidy`); when its third
  pass marks, G0 and G1 are empty and no cards are scanned, so it marks what the client reaches only (`FullMark`), and what follows
  makes no object of another name (`FullInv`).

`Reach` and `Collected`, like the functions of `PageHeap`, are recursive functions. What they compute is not proved for every
input; what the proofs need of them holds at each step and so at the end (`SetInduction`, `Iteration`).

Only model-checked: liveness (`DriveEnds`, `StoppedRunsAgain`, `CycleEnds`, the fairness half of `ImplementsStopTheWorld`), for
fairness and ENABLED are outside the prover. Every other property of the passing runs is a theorem. What the theorems about
`PageHeap` leave to the runs is what their hypotheses exclude: Large objects (`heap_large`) and promotions of several chunks
(`heap_pins`, `heap_static`). Handles together with static words are in neither, for the reason given in section 7.

## 6. What a reader should know about the properties

* `ImplementsManagedHeap` is the main result about the heap. The client of `ManagedHeap` sees holders and links; the map follows a
  forwarding marker, so no step of a cycle, in any phase, may be visible. An object lost, a pointer left behind or a word that
  names another object is a violation at the step where it happens.
* `HeapClosed` is about garbage, which `ManagedHeap` does not see: dead objects on flipped or older pages are still scanned through
  stale cards.
* `RememberedSet` demands that the walk of the card reaches the object, not only that the card is dirty.
* The barrier must mark nursery objects too: with a barrier for older objects only (what the collector's documentation asks of a
  generational client) `collect_major` loses pointers, because it evacuates G1 before G0. The mutant `StoreOldOnlyBarrier` shows it;
  the client in `newgc-test-lisp` marks every store.

## 7. Findings

1. `heap_low_memory`. A promotion that needs several chunks rewrites only pages of the destination generation after each, then
   releases the chunk's pages with their forwarding markers; objects still waiting in a later chunk keep pointers into them
   (`evac.rs` 1096, against the comments at 659 and 676).
2. `heap_card_gap`. The card walk stops at the first cell without a start bit, since bump-allocated pages have no gaps; pages that
   flipped with pins have (`evac.rs` 550).
3. `tlabs_marked`. After a mark made in advance every page of G0 without mark and pin is released, one by one; a Large object has both on
   its first page only, so the others of a live run are freed (`coordinator_api.rs` 393). The pass copies objects there and then flips or
   releases the whole run from its head, copies included.
4. `lisp_make_vector`. `alloc_vector` stores its init word without marking the card, which `alloc_pair` does with a comment on why it
   must; a major cycle then leaves the vector with an old address (`value.rs` 183).

Seen while modelling, without a run of their own:

* Phase 3 releases a dead Large run whole when it meets the head, also pages that a later chunk lists (`evac.rs` 1304). That chunk may copy
  objects there and then releases the page, since it asks only whether the page is Free (`evac.rs` 1271). `ObjectsStay` fails under `Spec`
  in the instance of `tlabs_marked` with `NPages` 4 and `Evacuations <- Promotion`.
* When the OS refuses a page in the middle of a Large run, the pages claimed so far stay Large and the head keeps the length of the whole
  run (`alloc.rs` 528, though `n_span` is the "number of pages in the run", `page_desc.rs` 195-196); the next pass releases that many pages
  from it, whoever owns them by then. `ObjectsStay` fails under `Spec` in the same instance with `YoungPageCap` 2, `Refusable` {0, 1, 2}
  and `Evacuations <- Promotion`.
* The extension of the mark from pinned objects marks a Large child without pinning it, and phase 3 decides by the pin byte
  (`mark.rs` 239, `pin.rs` 362): the child's run is released. `PointersFollowed` of `PageHeap` fails with a stack word and `LargeSpan` 2.
* `collect_minor_with_static` releases zero-live pages before the evacuation folds in explicit pins, so an object that only an FFI pin keeps
  loses its page (`coordinator_api.rs` 251, against the doc of `pin`, `pin.rs` 311, and the comment at `pin.rs` 389).
  `PointersFollowed` fails with a handle and `Cycles` = {"static"}; `heap_static` therefore has stack words and no explicit pins.
* `eval_top_level` pops its value, runs a safepoint and returns the popped word, against `eval.rs` 14; a host that keeps a heap value
  would hold an old address. The model stops following the value there.
* On an error `eval_let` leaves its frame behind (`eval.rs` 349, against the invariant at `eval.rs` 7). The leftovers stay rooted; the
  model goes on only after errors that left nothing, as all users of `run_source` stop.
* `try_alloc_g0_slab` does not look at the poison flag, against the doc of `is_poisoned` (`space.rs` 778); in `Tlabs` it is enabled on a poisoned heap.
* The comment at `mutator.rs` 648 says that `flush_tlabs` reconciles the accounting; it drops the tails, as its own doc at 559 says. The mutant
  `FlushedReconciled` shows why it must.
* A conservatively pinned Large run loses its pin byte when it flips (`evac.rs` 1294); the next pass of the same cycle releases it.
  `PinsSurvive` fails with a stack word and Large objects in a full cycle.
* A mark made in advance marks Large objects without pinning their runs: the
  evacuation then releases every Large object that nothing pins, live or not. It has the root cause of the first case of this list, so `heap_static` has no
  Large objects.
* The doc of `collect_minor_with_static` says that both card tables are cleared (`coordinator_api.rs` 189); the code keeps cards that hold
  heap pointers, and its comment at 293 says why it must.
* `docs/gc-cycles.md` says that each pass ends with `clear_all_pins`; the code clears them once, at the end of the cycle.

## 8. Not modelled

Trigger policy and statistics (any cycle may start at any time, which includes every policy); the system calls behind commit and
decommit, and the growth of the touched prefix; the error values of the `try_collect_*` wrappers; crash reports; layouts and word
encoding (their verdict, pointer or not, is an input: a bit-level model would restate each function); the scanner trait; the
reader of the test language, a parser without state. `GcCoordinator::collect_*` called without stopping mutators is a documented precondition of
its caller and is not offered in `Safepoint`. In `MiniLisp` panics are no steps: no memory, an index out of bounds, a symbol stored
in the heap.

## 9. Where to go next

The work went in this order: `Safepoint`, `StopTheWorld`, their proofs; `PageTable`, `Evacuator`, `PageHeap`, `ManagedHeap`; the
coordinator's entry points; `PageHeapProofs`; `Tlabs`; `MiniLisp`; `TlabsProofs`; `HeapCycleProofs`; `MiniLispProofs`;
`HeapPointerProofs`, `HeapImplements`. Left:

1. Weaker hypotheses for the theorems about pointers: Large objects that nobody pins; and in place of `OneChunk` that no object on
   a page of a later chunk points at one that has moved.
2. An instance that shows the pinned Large run of section 7 that loses its pin when it flips.
