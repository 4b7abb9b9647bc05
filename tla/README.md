# SlabStore in TLA+

SlabStore is a key-value store for persistent memory (PMem): a volatile
extendible hash index over records that a slab allocator places on PMem. This
directory models its protocols in TLA+, checks them with TLC on small
instances, and proves with TLAPS, for every size of the instance, the safety of the
extent allocator (which is shown to implement an abstract pool of extents), of
small, medium and large regions, of the record life cycle of the store, the durability
of acknowledged writes, and the choice and layout of size classes.

    tlc -config MetaHead_crash.cfg MetaHead       # any run below
    tlapm MetaHeadProofs.tla                      # 20 minutes
    tlapm SlabSteps.tla                           # 13 minutes
    tlapm SlabProofs.tla                          # 20 minutes
    tlapm LargeBinProofs.tla                      # 9 minutes
    tlapm SizeClassProofs.tla                     # 1 minute
    tlapm HashStoreSteps.tla                      # 19 minutes
    tlapm HashStoreDurable.tla                    # 20 minutes
    tlapm HashStoreProofs.tla                     # 3 minutes

## 1. The system

| part | code | state | operations |
|---|---|---|---|
| extent metadata | `slab/meta-file.h` `MetaHead`, `slab/desc.h` | PMem: `stat_`, `mind_`, `occupied_`, two copies of `DescMeta`, descriptors | acquire, release, record, shutdown, reboot, resume |
| extent case | `slab/extent.h` | one mutex, the extents allocated during recovery | acquire, release, recovery container |
| run bins | `slab/run.h` `RunBin` | extents with free runs, per run size | acquire and release a run, reload, destructor |
| large bins | `slab/run.h` `LargeBin` | extents with free large regions | acquire, release, reload |
| arenas | `slab/arena.h`, `slab/bits.h` | runs with free regions, bitmaps | fill a cache bin, release, reload, destructor |
| thread caches | `slab/tcache.h` | a queue of free regions per size class | acquire, release, spill, destructor |
| allocator | `slab/slab.h` | open or recovering | open, recover, acquire, release, destructor |
| size classes | `slab/size.h`, `slab/const.h` | two tables | size to class, class to size |
| tokens | `slab/token.h`, `slab/region.h` | PMem: one byte per region | hire (publish), fire |
| records | `store/kv-type.h` | PMem: control word, key, value | make_kv, set_control, invalidate |
| store | `store/hash-store.h` | version table, limbo lists, epoch closures; PMem: the image of the index after a close | upsert, update, remove, lookup, open, destructor |
| index | `store/hash-table.h` | directory, segments, buckets with locks | upsert, update, lookup |

A region goes extent case -> run bin -> arena -> thread cache -> caller and back.
A caller publishes a region by its token; a crash frees what was not published.
The store writes a record, publishes it and swings the index to it; the record
it replaces goes, once no reader can hold it (epochs), to a thread's limbo list
and is rewritten in place by a later write. After a clean close (`kConsistent`) the
allocator and the index are reloaded from PMem; after a crash (`kVolatile`)
every published region is scanned and handed to a callback that rebuilds the index.

What makes it hard: a cache line reaches PMem when it is flushed *or evicted*, so
every order of unflushed stores can survive a crash; writers race through an
index that splits under them; readers hold no locks; recovery runs in parallel
with a callback that changes what it scans; close and reopen can be
interrupted as well. `PROJECT.json` lists these hazards by line.

## 2. The modules

**MetaHead** - each persistent line has a cached and a durable value (`desc`
and `ddesc`, ...); a flush copies one to the other, `Evict` does so at any time,
`Crash` restarts from the durable ones. The store to `mind_` or to the
valid `DescMeta` is a step of its own, as are the flushes before and after it. The
mutex of the extent case admits one operation at a time (`op`). `held` is what callers own.
The two stores that end a reboot (`slab/meta-file.h:309`) share a line: `RebootFinish` does both,
`RebootTorn` is the power failure between them with the line evicted.
**ExtentPool** is what it promises: a set of extents handed out, which a close keeps and
to which a crash adds at most the extent whose release it interrupted.
`ImplementsPool` is the refinement (`out <- held`).

**Slab** - one size class through cache bins, arena bins, run bins and extents.
Regions, runs and extents are numbers; `bits` are busy runs, `tok` published
regions; locks are modelled where a path holds one over several steps. Recovery is one action per step of each worker; the callback may release
the region it is given, acquire new ones or return those (`Rebuild`). The
extent case is a set of free extents, as in ExtentPool.
`pcond`, the mark that a close leaves, stays until the run is constructed again or
the next close, an over-approximation that the code's reset during recovery makes harmless.

**LargeBin** - large regions, which bypass caches and arenas: one LargeBin per run
case. A release takes three steps (token, bin under the lock, extent after it), an
acquire in recovery two (the extent, then `recs_`). `null` holds the regions that
`recover_acquire` marks and does not return (`slab/arena.h:325`). `Recoveries` lists
the calls of recover: their workers and what their callbacks do.

**SizeClass** - one request from its size to the layout of its run: both conversions, by
table and computed, run and region sizes, and the loops that count regions, turn by turn.
`Address` and `TokenOf` are the arithmetic of acquire and of release.

**HashStore** - two persistent lines per record (one for records in `OneLine`),
tokens (`busy`), limbo lists, closures that wait for active guards, and one step
per flush of the three write calls, which fetch their version (`Begin`) before they get a record
(`Acquire`). The index is a map with atomic operations.
Workers of the recovery take records in any order, each in the steps of the
callback: upsert into the index, release or retire of the loser, load and
compare-and-exchange of the version. `MissingKeys` names the calls made on absent keys
and `LateWrites` the writes after a recovery (`"fresh"`: those that get a version above
every acknowledged one), to keep the known disagreements apart from the rest.
`MaxLimbo = 0` is the store with `kWriteOpt = false` (`test/store.h:104`,
`test/libs/libbasic-slabstore.cpp:8`): closures release to the allocator, and limbo lists stay empty.
The destructor deletes the limbo lists (`store/hash-store.h:174`) before it runs the closures that
use them (:202). A closing thread that never used the store gets a new list there; any other has a
pointer to the deleted one, of which `EpochClear` makes either outcome of a list that still works, the
record kept in it or released to the allocator, and a fault is a `Crash`.
When the pool is full `slab_.acquire` returns null and the call writes through it (:481): the fault
is a `Crash`, and `Acquire` is not enabled.

**IndexImage** - what a close writes so that the next open need not scan: head, directory,
version table and one region per segment, in the order of `~HashStore`, with a step for each
region published, for the root and for the copy of the versions; then
`~HashTable`, segment by segment. open reloads it with parallel workers and a barrier, or,
after a crash, releases it from the recovery callback, and resets the root. Which table is closed (`Tables`) and which
of its slots hold tombstones or stale pointers is arbitrary. Records live in HashStore; here they are
allocated or not.

**HashTable** - upsert, update and lookup step by step: optimistic read of the
directory, bucket lock, validation, slots, splits slot by slot under all bucket
locks, directory doubling. **HashIndex** is what it promises: a map in
which each call takes effect at once and a version never goes back.
`Linearizable` is the refinement.

**MetaHeadProofs**, **SlabProofs**, **LargeBinProofs**, **SizeClassProofs**,
**HashStoreProofs** - the theorems. **SlabInv**, **LargeBinInv**, **HashStoreInv**,
**HashStoreDurable** - the inductive invariants (`IInv` of MetaHead is in MetaHead). The
lemmas that the theorems put together, one per action, are for the allocator in **SlabSteps**
(the steps of the open allocator, close, crash, open) and SlabProofs (those that reload runs
or take free ones), for the store in **HashStoreSteps** (begin and end of a call, epochs,
crash, recovery, close) and HashStoreDurable (the steps that write a record, and durability).
**MCHashStore**, **MCHashTable**, **MCIndexImage**, **MCLargeBin**, **MCSizeClass**,
**MCSlab** - instances.

Not in the repository, and modelled from their use: the version locks and epochs of
the `util` submodule, eviction and power failure. A thread holds an epoch
guard for the length of a call and until it has read what a lookup returned, as
`test/libs/libslabstore.cpp` does.

## 3. What TLC checks

| run | shows |
|---|---|
| `MetaHead_crash` | across crashes held extents stay allocated in both copies, no extent or MediumMeta block is lost or shared, at most one extent is left for resume to repair; the pool implements ExtentPool |
| `MetaHead_close` | with crashes in a close, a reboot reads every recorded extent; opening ends |
| `HashStore_crash` | no torn record; acknowledged writes durable and visible; the index has the newest, the version table covers it; one owner per record; readers see stable records; with crashes, closes, fast reboots and two recovery workers |
| `HashStore_large` | a store without limbo lists (`kWriteOpt = false`), tombstones reclaimed at a close, failed updates, writes after recoveries: nothing is lost, no older version outlives its tombstone |
| `HashTable_run` | one slot per key, splits by the owner, the shape of the directory while two segments split and one doubles it, linearizability; every call returns |
| `Slab_run` | single ownership, nothing lost, busy runs and extents reachable |
| `Slab_recover` | two workers pass each published region to the callback once, restore the bins and finish |
| `Slab_close` | the marks of a close are right when they are read; callbacks that acquire |
| `LargeBin_run` | a large region is in one hand, busy ones lie in extents in use, recovery rebuilds each once; with closes, crashes, reboots and recoveries |
| `SizeClass_run` | the smallest class that holds a request, by table and computed; regions, tokens and run bits fit and do not overlap; release finds the token of acquire; the counting loops end |
| `IndexImage_run` | a reload gives back the closed table; no part of the image is read after its release or stays allocated; segments are freed once; the store opens again |
| `HashStore_version` | (violation) the first write after a recovery to the key with the largest version is dropped as expired |

### Known disagreements

The passing runs leave out the following cases because the code does not keep
its comments there. `HashStore_version` is kept as a run. For each of the
others, the change to a configuration and the property make TLC show it.

| code | what happens | configuration and property |
|---|---|---|
| `store/hash-store.h:594` | removing an absent key puts a tombstone that the index uses into a limbo list ("kv pairs whose version is expired", :96) | `HashStore_crash` with `"remove"` in `MissingKeys`, no faults: `LimboExpired` |
| `store/hash-store.h:536` | a failed update leaves a valid record until it is reused, not only "if crashed here" (:533) | `HashStore_crash` with `"update"` in `MissingKeys`, no faults: `NewestIndexed` |
| `store/hash-store.h:202` | closures run by the destructor refill a limbo list nobody empties ("release all older kvs before reclaim tombstone") | `HashStore_crash` with `ReclaimTomb = 0`: `OlderReleased` |
| `slab/meta-file.h:305` | a crash in reboot cuts the list that the next reboot trusts ("all half-used extents", :290) | `MetaHead_close`, `CrashModes = {"reboot"}`: `RebootReadsAll` |
| `slab/meta-file.h:390` | a crash in a close lets resume walk into the free list (`assert(desc->type() != kInvalid)`, :332) | `MetaHead_close`, `CrashModes = {"closing"}`: `NoFreeOccupied` |
| `slab/extent.h:222` | an extent acquired in recovery is visible to the scan before it is recorded ("skip extents allocated during recovering", :113) | `Slab_run` with `Faults = {"crash"}`, `Rebuild = {"acquire"}`, no symmetry: `RebuildExact` |
| `slab/slab.h:134` | the scan goes on in an extent that its callback freed and reused (`slab/tcache.h:258`) | `Slab_close` with `Rebuild = {"release", "acquire"}`, `MaxHeld = 4`, `Faults = {"crash"}`: `RebuildExact` |
| `slab/extent.h:222` | the same race for large extents | `LargeBin_run` with two workers that `"acquire"` in `Recoveries`: `RegionOnce` |
| `slab/arena.h:325` | recover_acquire of a large region marks one and returns null ("@return the start address of the region and its token", :314); it stays lost until the next recovery | `LargeBin_run`: the invariant `null = {}` |
| `slab/slab.h:140` | recovery exceeds the hold limits (`slab/const.h:78`, :81) | `Slab_run` with `Faults = {"crash"}`, no symmetry: `HoldBound` |
| `slab/arena.h:70` | a full pool makes the small path read a null meta ("failed to restock for some reason, e.g., no more space", `slab/tcache.h:119`) | `Slab_recover`: `NoFault` |
| `slab/tcache.h:81` | a spill leaves one region fewer than the stock (`slab/const.h:67`) | `Slab_run`, no symmetry: `SpillKeepsStock` |

The callback of HashStore releases and never acquires, so the two disagreements about
callbacks that acquire do not reach the store. The workers of a recovery call `index_.upsert`
(`store/hash-store.h:280`), which may retire the directory, and retire records (:291), without an epoch
guard. The model runs the closures of these records at any time, since nothing reads them; that a
directory which one worker retires outlives the others' use of it is up to the `util` submodule, and
HashTable has only calls under a guard. With crashes inside a close,
`OneOutstanding` fails too from three extents on, for the reason given for
`slab/meta-file.h:390`; `MetaHead_crash` therefore has no such crashes.

Seen while reading, in code that the models abstract: `roundup(kPageSize, size)` in
`slab/run.h:591` has its arguments in the other order than its other uses, so that the length is not
page aligned as `slab/ext-file.h:234` asks; `slab/run.h:592` passes on a null region when
the pool is full; `slab/arena.h:318` has no check for size zero, which `slab/tcache.h:266` has;
`store/hash-store.h:182` does not check for null, and a directory of 4 MiB makes the
destructor exit (`CloseExit`).

**Bounds.** MetaHead: two extents suffice for both lists and a crash in each
operation, three (small only) for a list with a middle; the proofs have no bound.
`MetaHead_crash` also passes with `Total = 3` (6.8 million states, 8 minutes).
HashStore: two threads, two keys
sharing a version counter, three records of which one fits a line, so that
records are reused and both layouts occur; three or four writes. HashTable: one
slot per bucket makes two keys of a segment split it; the instance starts from a reloaded
table of depth 2 with segments of depth 1 and 2, so that one split doubles the directory
beside another that does not; two buckets to lock in a split. Slab: two
extents of two runs of one or two regions (one thread in `Slab_close`),
`Capacity` 2, `Stock` 1 and both hold limits 1 (as in `const.h`) reach every
limit; `MaxHeld` bounds what callers hold. LargeBin: two extents of two regions fill, empty
and go back. SizeClass: every size up to the end of the table, and the sizes
around every class and limit above it; a request ends, hence no deadlock check there.
IndexImage: directories of two, four and (too large for a region) eight entries, four
ways to share segments, one crash anywhere.

**Fairness.** Weak fairness of the loops of reboot and resume (one thread runs them), of
each thread's steps in the index (it spins, it does not block for ever), of
recovery workers, with callbacks that return, of the workers of the reload, and of the
counting loops. Nothing is assumed of
clients, of eviction or of crashes.

**At a close** no call is in progress and the application has published what it
keeps, as the comments of `acquire` and `release` in `slab/slab.h` ask.

## 4. What is proved

Every theorem holds for all values of the constants that satisfy the named assumptions of
its module. Where the code breaks a property in a case of section 3, the theorem has a
hypothesis that leaves this case out; two of them leave out more. With limbo lists, `[]ReclaimSafe` excludes
every behaviour in which tombstones come to exceed `kReclaimTomb`, also one that is never closed.
`Clients` excludes failed updates from `AckedSurvive` and `AckedAreVisible` too,
which would not need it but share the invariant of `NewestAreIndexed`.

**MetaHead**, for every `Total`, set of requests and set of crash modes
(`TotalAssumption`, `NullAssumption`, `RequestAssumption`, `CrashAssumption`):

* `ExtentSafety`: `Spec => []HeldIsAllocated`, an extent a caller holds is
  allocated in the cached and in the durable metadata;
* `PoolRefinement`: `Spec => ImplementsPool`;
* `BlockSafety`: `Spec => []MediumBlocks`;
* `RebootComplete`: `Spec => []RebootReadsAll`, if power does not fail inside a reboot
  (`slab/meta-file.h:305`);
* `ExtentsAccounted`, `OutstandingOne`: `Spec => []NoExtentLeak` and `Spec => []OneOutstanding`,
  if power does not fail inside a close (`slab/meta-file.h:390`);
* `Inductive`: `Spec => []IInv`, from which the others follow, and `TypeCorrect`.

`HeldIsAllocated` is not inductive: a release or a crash may expose any stale
pointer. `IInv` adds which lines may differ from their durable value at each step
(`HeadSync`, `DescSync`), what the mode and the operation in flight imply (`ModeInv`,
`AcquireInv`, `ReleaseInv`), when the head of the free list may still carry a type
(`HeadInvalid`), and that over the cached and over the durable descriptors the successor
of a free extent is an invalid one below `ext_used`, is not the head and has no other
free predecessor (`FreeInv`). One lemma per action preserves each conjunct.

For the refinement `held` must be exactly what the metadata has in use whenever a
step of the abstract pool depends on it. `PoolInv` says so: while the pool is up or
cleanly closed, an extent that either copy marks as allocated is held or in
`Doubt` (the operation in flight is about to hand it out or has just taken it back), and
after a crash all of them but one are held. Acquire, release and recovery then map to their
abstract steps, every flush, eviction and loop to a stutter.

What a list holds (`ListFrom`) is the least set that has its first element and is closed
under `next`, so that lists of any length need no induction. `LinkedList(first, F, next)`
states that a list holds exactly `F`, with one predecessor each, and ends;
lemmas show what taking the head, putting a new head and changing links outside of `F` do to
it. `FreeListInv` (the free list holds exactly the free extents, with durable links),
`OccupiedInv` and `RecordedInv` (the list of a close) and `BlockInv` with `SlotInv` (MediumMeta
blocks, cached, durable and in the copy being prepared) are preserved on top of `IInv`.
That `med_used` stays below the end of the segment is a pigeonhole argument: when no block is free and an
extent without one is being acquired, the medium extents do not fill the pool.

**Slab**, for any sets of threads and arenas and any numbers of extents, runs, regions,
capacity, stock and hold limits (`SlabAssumption`), under `AcquireFree`: the callback of a
recovery does not acquire. Without it `RebuildExact` is false, by the races at `slab/extent.h:222`
and `slab/slab.h:134` in section 3; the callback of `HashStore::open` only releases.

* `OneHand`: `Spec => []NoDoubleAllocation`;
* `NoneLost`: `Spec => []NoLostRegion`;
* `BusyFound`: `Spec => []BusyReachable`;
* `RebuildOnce`: `Spec => []RebuildExact`;
* `PollutedHalfUsed`: `Spec => []PollutedIsHalfUsed`;
* `SlabInductive`: `Spec => []SlabIInv`, from which the five follow.

The properties speak of one mode each, and what makes them true must survive all of them.
`SlabIInv` singles out the *live* runs, those for which the arenas account: none without DRAM, in a
recovery those that a worker has passed, else those that no close has marked. Of the others
only the tokens say what is free. A region of a live run is out (known to a caller, cached, or
about to be handed to the callback) exactly when it is marked in its run, or its run is in no bin
(`AccountInv`); what is out is in one hand (`HandInv`) and lies in a marked run, and a busy region of
a live run is known or pending (`PlaceInv`). `ExtInv` says that an extent with a free
run is in its bin, recorded by the close, or still ahead of the scan, `CondInv` what the marks of a close
mean from one session to the next, `ScanInv` that an extent has one worker, and `BitsInv`,
`BinInv`, `ModeInv`, `ThreadInv` and `SpillInv` where runs, bins, modes and threads can be. TLC
checks `SlabIInv` on the instances of `Slab_run` and `Slab_recover` too.

**LargeBin**, for any sets of threads and run cases, any number of extents and of regions
in one, any hold count and any list of recoveries (`LargeAssumption`), under `AcquireAlone`:
a recovery whose callback acquires has one worker. Without it the theorems are false, by
the race at `slab/extent.h:222` in section 3; the recovery of HashStore, whose callback
only releases, satisfies it with any number of workers.

* `RegionSafety`: `Spec => []RegionOnce`;
* `BusySafety`: `Spec => []BusyReachable`;
* `RebuildSafety`: `Spec => []RebuildOnce`;
* `LargeInductive`: `Spec => []LInv`, from which the three follow.

`RegionOnce` speaks of the open allocator only, and what it says must survive a close, a
crash and the steps of a recovery. `LInv` therefore classes every extent in use at every instant:
*raw*, when only its tokens say what is free (all of them after a crash; in a recovery those
that the scan has not passed or a worker is about to reload; in a reboot those recorded and not yet
reloaded), *given*, on its way back to the pool, or neither. In the last class
`RunBits` is exact: a region is marked in its bin, or its extent in no bin, exactly when the
region is out, that is held, lost to a null return, in a release, or pending for rebuild
(`AccountInv`). Those four are disjoint (`HandInv`, `PairInv`), lie in extents in use that are
not given (`PlaceInv`), and a busy region of an extent that is not raw is held or pending
(`TokInv`). `ModeInv`, `ThreadInv`, `ScanInv` and `BinInv` say where the threads, the scan and the
bins can be. TLC checks `LInv` on the instance of `LargeBin_run` too (`INVARIANT LInv` in a
module that extends LargeBinInv).

**SizeClass**, for every set of sizes (`SizesAssumption`):

* `EveryClassFits`: `Spec => []ClassFits`;
* `EveryRegionFits`: `Spec => []RegionsFit`.

The sizes up to 64 KiB are cut into *cells*, one per class: class `4 * g + k` ends at
`Low(g) + (k + 1) * Unit(g)`. `CellIndex` shows that both conversions
agree on a cell, `Cells` that the cells cover all sizes, `SizeTable` and `IndexTable` that
the tables hold what is computed, `LargeSmallest` that a large region is less than twice the request. Powers
of two are opaque in all of these lemmas. The layout rests on `CountInv`, what the counting
loops keep: the regions counted fit in the run with their tokens when the loop of small runs is
stable, and a medium run has at least eight, because eight medium regions are whole pages and its loop
stops there at the latest. `DivUnique` and `TokenBack` then invert the address of a region.

**HashStore**, for any sets of threads, keys and records, any number of writes and any layout of
records on lines. With `"remove" \notin MissingKeys` (remove is called on keys that are there, `store/hash-store.h:594`):

* `RecordExclusive`, `NeverTorn`, `ReadsStable`, `VersionsCovered`: `Spec => []ExclusiveRecord`,
  `[]NoTornRecord`, `[]StableRead` and `[]VersionCovers`;
* `NothingLost`, `OlderAreReleased`: `Spec => []NoLostRecord` and `[]OlderReleased`, if there are no
  limbo lists (`kWriteOpt = false`) or the store is not closed (`NoLeak`, `store/hash-store.h:202`);
* `StoreInductive`: `Spec => []SInv` (and the writes are finitely many), from which these follow.

`SInv` puts every record in one place (the allocator, the index, a limbo list, the epoch, a call, or
the part that recovery has not scanned: `OnceInv`, `ApartInv`, `BusyInv`), says what its cached and durable lines
hold there (`CleanInv`, `NoTornRecord`), and what the thread that has it knows of it (`Agreeing`): between
`invalidate` and `set_control` the two lines may differ in any way, and only there. A call has a record from
`Acquire` on (`Filling`, of the steps `Writing` of a write) until it hands it on (`Holding`).

With `Clients` (update and remove are called on keys that are there, `store/hash-store.h:536`, and a
key is written after a recovery only with a version above the acknowledged one, the run `HashStore_version`), in
behaviours in which tombstones are reclaimed only where no limbo list can hide an older record
(`[]ReclaimSafe`, `store/hash-store.h:202`):

* `AckedSurvive`, `AckedAreVisible`, `NewestAreIndexed`: `Spec /\ []ReclaimSafe => []AckedDurable`,
  `[]AckedVisible` and `[]NewestIndexed`;
* `StoreDurable`: the same for `SInv /\ DInv /\ ReclaimInv`, from which they follow.

`DInv` says that a key has no two writes of one version among the running calls and what a crash would leave
(`UniqueInv`), that the newest record which a crash would leave is in the index, about to be put there, or not yet scanned
(`NewestInv`), that the index shows the newest write that returned (`ShownInv`), and that this write is kept (`KeptInv`).

**Only model-checked.**

* Liveness (`OpenTerminates`, `CallsReturn`, `RecoveryEnds`, `CountEnds`, `Reopens`): the prover has no
  rule for fairness and `ENABLED`.
* HashTable (`OneSlot`, `SplitOwnsLeft`, `DirectoryShape`) and its refinement `Linearizable`: which
  bucket and which entry a hash value belongs to is arithmetic on `2^depth` with a symbolic depth, of
  which the prover knows nothing without induction, and the linearization point of a lookup that misses
  depends on a later validation.
* IndexImage (`ReloadExact`, `ImageReleasedOnce`, `FreedOnce`): the image is a sequence built from a set, and the shape
  of its directory is again one of powers of two.

## 5. Not modelled

Files, mappings and physical space (`slab/ext-file.h`, `slab/fs-util.h`, `MetaFile`), which
are calls of the file system without a protocol of their own; pool creation (a crash
in it leaves a pool that the code refuses to open); reordering by the compiler; the words of the
bitmaps (a set of regions or runs); tags and the SIMD comparison of
slots (a filter before the key is compared); benchmarks and tests.

## 6. Plan

1. Proofs: `SplitOwnsLeft` and `OneSlot` of HashTable, from lemmas about `2^depth` stated for the function
   that computes it; `FreedOnce` of IndexImage.
2. Slab and LargeBin over ExtentPool itself, in place of their own set of free extents.
