-------------------------------- MODULE Slab --------------------------------
(***************************************************************************)
(* The slab allocator above the extents, for one size class: thread caches *)
(* (slab/tcache.h), arena bins (slab/arena.h, slab/bits.h), run bins       *)
(* (slab/run.h), the run bits and tokens on PMem (slab/desc.h,             *)
(* slab/token.h), and how AllocatorDetail (slab/slab.h) closes, reboots    *)
(* and recovers them.                                                      *)
(*                                                                         *)
(* Small and medium classes differ in where the metadata of a run lies and *)
(* in what select_run does when there is no run left (Type).  Extents come *)
(* from MetaHead, here an atomic pool.  Tokens, run bits and run metadata  *)
(* are written back before the next step, so they have one copy; cond_ is  *)
(* flushed without a fence and has two.                                    *)
(*                                                                         *)
(* An arena lock is held over the steps of fill_cache_bin.  A release      *)
(* takes the arena, run bin and extent locks nested, in one step.          *)
(***************************************************************************)
EXTENDS Integers, Sequences, FiniteSets, Functions

CONSTANTS Thread, Arena, None,
          ArenaOf,             \* the arena to which each thread cache is bound
          Type,                \* "kSmall" or "kMedium"
          NExtent, NRun, NRegion, \* extents, runs of an extent, regions of a run
          Capacity, Stock,     \* of a cache bin
          RunHold, ExtentHold, \* kRunHoldCount, kExtentHoldCount
          MaxHeld,             \* bound on the regions that the application holds
          Rebuild,             \* what the rebuild callback does: "release" regions found,
                               \* "acquire" new ones, "return" some of those
          Faults               \* which of "crash" and "close" happen

Extent == 0 .. NExtent - 1
Run    == 0 .. NExtent * NRun - 1
Region == 0 .. NExtent * NRun * NRegion - 1
Bin    == {"normal", "recover"}

\* An extent holds more than one run (4 MB against at most 512 KB), and recover has
\* at least one worker (nthd).
ASSUME SlabAssumption ==
    /\ NExtent \in Nat \ {0} /\ NRun \in Nat \ {0, 1} /\ NRegion \in Nat \ {0}
    /\ Capacity \in Nat /\ Stock \in 1 .. Capacity
    /\ RunHold \in Nat /\ ExtentHold \in Nat /\ MaxHeld \in Nat
    /\ Thread # {} /\ ArenaOf \in [Thread -> Arena] /\ None \notin Thread \union Arena
    /\ Type \in {"kSmall", "kMedium"}
    /\ Rebuild \subseteq {"release", "acquire", "return"} /\ Faults \subseteq {"crash", "close"}

VARIABLES ext,    \* extents whose descriptor is not kInvalid
          used,   \* ext_used_ of the pool
          bits,   \* runs marked in small_ or medium_ of their descriptor
          arena,  \* arena_ of each run, None before its first use
          tok,    \* regions whose token is busy
          cond,   \* runs whose cond_ is kPolluted, as the threads see it
          pcond,  \* ... and on PMem
          rbin,   \* RunBin::bins_: extents
          abin,   \* ArenaBin::bins_: runs, per arena
          alloc,  \* RunBits::bits_: the allocated regions of a run in abin
          alock,  \* ArenaBin::lock_: its owner
          cache,  \* CacheBin::regions_
          known,  \* regions that the application holds
          th,     \* what each thread is doing
          mode,   \* of the allocator
          half,   \* extents recorded by close, then those open has yet to reload
          consistent, \* stat_ = kConsistent
          recs,   \* ExtentCase::recs_
          scan    \* RecoverContainer::index_

pool == <<ext, used, bits, arena, tok>>
cnd  == <<cond, pcond>>
bins == <<rbin, abin, alloc>>
rec  == <<half, consistent, recs, scan>>
vars == <<pool, cnd, bins, alock, cache, known, th, mode, rec>>

RunOf(x)   == x \div NRegion
ExtOf(r)   == r \div NRun
Regions(r) == {x \in Region : RunOf(x) = r}
Runs(e)    == {r \in Run : ExtOf(r) = e}
Least(S)   == CHOOSE x \in S : \A y \in S : x <= y
Cached     == UNION {Range(cache[t]) : t \in Thread}

Local == [pc : {"idle", "fill", "spill", "reload", "runs", "rebuild", "recs", "done"},
          ret : {"idle", "rebuild"}, \* where a release returns to
          ext : Extent,              \* being recovered, or just acquired
          rid : 0 .. NRun,           \* next run of that extent
          regs : SUBSET Region,      \* regions still to be rebuilt
          got : Extent]
Idle == [pc |-> "idle", ret |-> "idle", ext |-> 0, rid |-> 0, regs |-> {}, got |-> 0]

Init ==
    /\ ext = {} /\ used = 0 /\ bits = {} /\ tok = {} /\ cond = {} /\ pcond = {}
    /\ arena = [r \in Run |-> None]
    /\ rbin = [b \in Bin |-> {}]
    /\ abin = [a \in Arena |-> [b \in Bin |-> {}]]
    /\ alloc = [r \in Run |-> {}]
    /\ alock = [a \in Arena |-> None]
    /\ cache = [t \in Thread |-> <<>>]
    /\ known = {} /\ th = [t \in Thread |-> Idle] /\ mode = "open"
    /\ half = {} /\ consistent = FALSE /\ recs = {} /\ scan = 0

-----------------------------------------------------------------------------
(* Runs and extents. *)

\* What MetaHead may hand out: a released extent, else the next unused one.
Free == LET released == {e \in Extent : e < used} \ ext
        IN  IF released # {} THEN released ELSE {used} \intersect Extent

\* The lock of the run bin is free: nobody is inside ExtentCase::acquire.
RunLock == \A t \in Thread : th[t].pc # "recs"

\* The extents from which the run bin b can serve a run.
Source(b) == IF rbin[b] # {} THEN rbin[b] ELSE Free

\* The run bits once e is in use: ExtentDesc::construct clears those of a new one.
Marked(e) == IF e \in ext THEN bits ELSE bits \ Runs(e)

\* select_ext and srun_acquire: mark the least free run r of e.  construct has
\* made its tokens free and its condition kPure before the bit is set.
RunAcquire(e, r, b, a) ==
    /\ r = Least(Runs(e) \ Marked(e))
    /\ ext' = ext \union {e} /\ used' = IF e < used THEN used ELSE e + 1
    /\ bits' = Marked(e) \union {r} /\ tok' = tok \ Regions(r)
    /\ arena' = [arena EXCEPT ![r] = a]
    /\ cond' = cond \ {r} /\ pcond' = pcond \ {r}
    /\ rbin' = [rbin EXCEPT ![b] = IF Runs(e) \subseteq bits' THEN @ \ {e} ELSE @ \union {e}]

\* Mutant of the next definition: also with runs in use.
GivesBusyExtent(e, left, held) == Cardinality(held) > ExtentHold

\* Whether a run bin with the extents held gives e back: no run of e is left in
\* use, and the bin holds others.
GivesExtent(e, left, held) == Runs(e) \intersect left = {} /\ Cardinality(held) > ExtentHold

\* Mutant of the next definition: it stays absent.
WithoutExtent(b, e) == rbin[b]

\* The extents of a run bin once a run of e comes back: a fully used e was absent.
WithExtent(b, e) == rbin[b] \union {e}

\* srun_release of r.  Without release it only tells the bin of a half-used run.
RunRelease(r, b, release) ==
    LET e == ExtOf(r)
        left == IF release THEN bits \ {r} ELSE bits
        held == WithExtent(b, e)
        give == GivesExtent(e, left, held)
    IN  /\ RunLock
        /\ bits' = left
        /\ rbin' = [rbin EXCEPT ![b] = IF give THEN held \ {e} ELSE held]
        /\ ext' = IF give THEN ext \ {e} ELSE ext

\* Mutant of the next definition: also with regions in use.
GivesBusyRun(left, held) == Cardinality(held) > RunHold

\* Whether an arena bin with the runs held gives back one with the regions left.
GivesRun(left, held) == left = {} /\ Cardinality(held) > RunHold

\* Mutant of the next definition: it is reconstructed as free.
AllocatedInBin(r, b) == alloc[r]

\* The allocated regions of r.  A run that is in no bin was fully allocated.
AllocatedIn(r, b) == IF r \in abin[arena[r]][b] THEN alloc[r] ELSE Regions(r)

\* ArenaBin::release of region x.
ArenaRelease(x, b) ==
    LET r == RunOf(x)
        a == arena[r]
        left == AllocatedIn(r, b) \ {x}
        held == abin[a][b] \union {r}
        give == GivesRun(left, held)
    IN  /\ alock[a] = None
        /\ abin' = [abin EXCEPT ![a][b] = IF give THEN held \ {r} ELSE held]
        /\ alloc' = [alloc EXCEPT ![r] = left]
        /\ IF give THEN RunRelease(r, b, TRUE) ELSE UNCHANGED <<bits, rbin, ext>>
        /\ UNCHANGED <<used, arena>>

\* RunBits::fill_regions: the regions got leave run r; a run with none left
\* leaves its bin.
FillRegions(r, a, b, got) ==
    LET full == alloc[r] \union got = Regions(r)
    IN  /\ abin' = [abin EXCEPT ![a][b] = IF full THEN @ \ {r} ELSE @ \union {r}]
        /\ alloc' = [alloc EXCEPT ![r] = IF full THEN {} ELSE @ \union got]

LeastN(S, n) == {x \in S : Cardinality({y \in S : y < x}) < n}

\* The regions S of a run in increasing order (the only member of this set).
Ascending(S) == {q \in UNION {[1 .. n -> S] : n \in 0 .. NRegion} :
    Range(q) = S /\ \A i, j \in DOMAIN q : i < j => q[i] < q[j]}

-----------------------------------------------------------------------------
(* Operations of the application. *)

\* CacheBin::acquire with a cached region.
AcquireCached(t) ==
    /\ mode = "open" /\ th[t].pc = "idle" /\ Cardinality(known) < MaxHeld
    /\ cache[t] # <<>>
    /\ known' = known \union {Head(cache[t])}
    /\ cache' = [cache EXCEPT ![t] = Tail(@)]
    /\ UNCHANGED <<pool, cnd, bins, alock, th, mode, rec>>

\* ... without one: fill_cache_bin takes the lock of the arena bin.
AcquireFill(t) ==
    /\ mode = "open" /\ th[t].pc = "idle" /\ Cardinality(known) < MaxHeld
    /\ cache[t] = <<>> /\ alock[ArenaOf[t]] = None
    /\ alock' = [alock EXCEPT ![ArenaOf[t]] = t]
    /\ th' = [th EXCEPT ![t].pc = "fill"]
    /\ UNCHANGED <<pool, cnd, bins, cache, known, mode, rec>>

Filling(t) == th[t].pc = "fill" /\ Len(cache[t]) < Stock

\* One iteration of the loop of fill_cache_bin over a run of the bin.
FillCacheBin(t) ==
    /\ Filling(t)
    /\ \E r \in abin[ArenaOf[t]]["normal"] :
          LET got == LeastN(Regions(r) \ alloc[r], Stock - Len(cache[t]))
          IN  /\ FillRegions(r, ArenaOf[t], "normal", got)
              /\ \E q \in Ascending(got) : cache' = [cache EXCEPT ![t] = @ \o q]
    /\ UNCHANGED <<pool, cnd, rbin, alock, known, th, mode, rec>>

\* select_run: the bin is empty, acquire a run.
SelectRun(t) ==
    /\ Filling(t) /\ abin[ArenaOf[t]]["normal"] = {} /\ RunLock
    /\ \E e \in Source("normal"), r \in Run :
          /\ RunAcquire(e, r, "normal", ArenaOf[t])
          /\ abin' = [abin EXCEPT ![ArenaOf[t]]["normal"] = {r}]
          /\ alloc' = [alloc EXCEPT ![r] = {}]
    /\ UNCHANGED <<alock, cache, known, th, mode, rec>>

OutOfSpace(t) ==
    Filling(t) /\ abin[ArenaOf[t]]["normal"] = {} /\ Source("normal") = {}

\* The end of fill_cache_bin, and of the acquire that called it: with a region,
\* or with null when there is no space.
FillDone(t) ==
    /\ th[t].pc = "fill" /\ (Len(cache[t]) >= Stock \/ OutOfSpace(t))
    /\ known' = IF cache[t] = <<>> THEN known ELSE known \union {Head(cache[t])}
    /\ cache' = [cache EXCEPT ![t] = IF @ = <<>> THEN @ ELSE Tail(@)]
    /\ alock' = [alock EXCEPT ![ArenaOf[t]] = None]
    /\ th' = [th EXCEPT ![t].pc = "idle"]
    /\ UNCHANGED <<pool, cnd, bins, mode, rec>>

\* select_run reads meta->count() of the null meta before it tests run: the
\* load may fault, or be sunk below the test (then FillDone).
NullMeta(t) ==
    /\ OutOfSpace(t) /\ Type = "kSmall"
    /\ mode' = "fault" /\ th' = [s \in Thread |-> Idle]
    /\ UNCHANGED <<pool, cnd, bins, alock, cache, known, rec>>

\* region_t::publish: the token is hired and written back.
Publish(x) ==
    /\ mode \in {"open", "recover"} /\ x \in known \ tok
    /\ tok' = tok \union {x}
    /\ UNCHANGED <<ext, used, bits, arena, cnd, bins, alock, cache, known, th, mode, rec>>

\* The rebuild callback runs in t and may call the allocator.
InCallback(t, call) == mode = "recover" /\ th[t].pc = "rebuild" /\ call \in Rebuild

\* A cache bin with n regions spills.
Spills(n) == n >= Capacity

\* ThreadCache::release of a region that goes to the cache bin of t.
Release(t, x) ==
    /\ (mode = "open" /\ th[t].pc = "idle") \/ InCallback(t, "release")
    /\ x \in known /\ ExtOf(RunOf(x)) \notin recs
    /\ tok' = tok \ {x} /\ known' = known \ {x}
    /\ cache' = [cache EXCEPT ![t] = Append(@, x)]
    /\ th' = IF Spills(Len(cache'[t]))
             THEN [th EXCEPT ![t].pc = "spill", ![t].ret = th[t].pc] ELSE th
    /\ UNCHANGED <<ext, used, bits, arena, cnd, bins, alock, mode, rec>>

\* One spill_front of spill_cache_bin, which leaves fewer than stock_ regions.
Spill(t) ==
    /\ th[t].pc = "spill"
    /\ ArenaRelease(Head(cache[t]), "normal")
    /\ cache' = [cache EXCEPT ![t] = Tail(@)]
    /\ th' = IF Len(cache'[t]) >= Stock THEN th
             ELSE [th EXCEPT ![t].pc = th[t].ret, ![t].ret = "idle"]
    /\ UNCHANGED <<tok, cnd, alock, known, mode, rec>>

-----------------------------------------------------------------------------
(* Close, crash, open. *)

CloseBegin ==
    /\ "close" \in Faults /\ mode = "open" /\ \A t \in Thread : th[t] = Idle
    /\ known \subseteq tok  \* the application has published what it keeps
    /\ mode' = "close"
    /\ UNCHANGED <<pool, cnd, bins, alock, cache, known, th, rec>>

\* ~CacheBin: one spill_front.
CloseCache(t) ==
    /\ mode = "close" /\ cache[t] # <<>>
    /\ ArenaRelease(Head(cache[t]), "normal")
    /\ cache' = [cache EXCEPT ![t] = Tail(@)]
    /\ UNCHANGED <<tok, cnd, alock, known, th, mode, rec>>

\* ~ArenaBin for one run: free ones are released, the others marked kPolluted.
CloseArena(a, r) ==
    /\ mode = "close" /\ Cached = {} /\ r \in abin[a]["normal"]
    /\ RunRelease(r, "normal", alloc[r] = {})
    /\ cond' = IF alloc[r] = {} THEN cond ELSE cond \union {r}
    /\ abin' = [abin EXCEPT ![a]["normal"] = @ \ {r}]
    /\ alloc' = [alloc EXCEPT ![r] = {}]
    /\ UNCHANGED <<used, arena, tok, pcond, alock, cache, known, th, mode, rec>>

NoRuns == \A a \in Arena, b \in Bin : abin[a][b] = {}

\* ~RunBin for one extent: record it if a run of it is used, else release it.
CloseRun(e) ==
    /\ mode = "close" /\ Cached = {} /\ NoRuns /\ e \in rbin["normal"]
    /\ IF Runs(e) \intersect bits # {}
       THEN half' = half \union {e} /\ UNCHANGED ext
       ELSE ext' = ext \ {e} /\ UNCHANGED half
    /\ rbin' = [rbin EXCEPT !["normal"] = @ \ {e}]
    /\ UNCHANGED <<used, bits, arena, tok, cnd, abin, alloc, alock, cache, known, th, mode>>
    /\ UNCHANGED <<consistent, recs, scan>>

\* MetaHead::shutdown fences the write-backs of cond_ and sets kConsistent.
CloseDone ==
    /\ mode = "close" /\ Cached = {} /\ NoRuns /\ rbin["normal"] = {}
    /\ pcond' = cond /\ consistent' = TRUE /\ mode' = "down" /\ known' = {}
    /\ UNCHANGED <<pool, cond, bins, alock, cache, th, half, recs, scan>>

\* A power failure: DRAM is lost, and each cond_ not yet fenced is old or new.
Crash ==
    /\ "crash" \in Faults /\ mode # "down"
    /\ \E s \in SUBSET ((cond \ pcond) \union (pcond \ cond)) :
          pcond' = {r \in Run : r \in (IF r \in s THEN cond ELSE pcond)}
    /\ cond' = pcond'
    /\ rbin' = [b \in Bin |-> {}] /\ abin' = [a \in Arena |-> [b \in Bin |-> {}]]
    /\ alloc' = [r \in Run |-> {}] /\ alock' = [a \in Arena |-> None]
    /\ cache' = [t \in Thread |-> <<>>] /\ known' = {} /\ th' = [t \in Thread |-> Idle]
    /\ mode' = "down" /\ half' = {} /\ recs' = {} /\ scan' = 0
    /\ UNCHANGED <<pool, consistent>>

\* open: reboot a pool that was closed; recover one that was not, or on demand.
\* After a clean close the application finds its regions through its own root.
Open ==
    /\ mode = "down" /\ consistent' = FALSE
    /\ \/ consistent /\ mode' = "reboot" /\ known' = tok /\ UNCHANGED half
       \/ mode' = "recover" /\ half' = {} /\ UNCHANGED known
    /\ UNCHANGED <<pool, cnd, bins, alock, cache, th, recs, scan>>

\* RunBits::reload of the runs rs, each into the bin of its arena.
Reload(rs) ==
    /\ abin' = [a \in Arena |-> [abin[a] EXCEPT !["normal"] =
                    @ \union {r \in rs : arena[r] = a}]]
    /\ alloc' = [r \in Run |-> IF r \in rs THEN Regions(r) \intersect tok ELSE alloc[r]]

\* small_reload: the extent enters the run bin if it has a free run.
ExtentReload(e) ==
    rbin' = [rbin EXCEPT !["normal"] = IF Runs(e) \subseteq bits THEN @ ELSE @ \union {e}]

\* Mutant of the next definition: they stay kPolluted.
NotCleaned(rs) == cond

\* The runs that are kPolluted once those of rs have been reloaded.
Cleaned(rs) == cond \ rs

\* small_reboot of one half-used extent.
RebootExtent(e) == LET polluted == Runs(e) \intersect bits \intersect cond IN
    /\ mode = "reboot" /\ e \in half
    /\ ExtentReload(e) /\ Reload(polluted)
    /\ cond' = Cleaned(polluted) /\ half' = half \ {e}
    /\ UNCHANGED <<pool, pcond, alock, cache, known, th, mode, consistent, recs, scan>>

RebootDone ==
    /\ mode = "reboot" /\ half = {} /\ mode' = "open"
    /\ UNCHANGED <<pool, cnd, bins, alock, cache, known, th, rec>>

-----------------------------------------------------------------------------
(* recover: every thread is a worker. *)

\* Mutant of the next definition: the index is not advanced.
Again(e) == e

\* fetch_add: where the scan goes on after extent e.
After(e) == e + 1

\* RecoverContainer::next skips free extents and those acquired by recovery.
RecoverNext(t) ==
    LET left == {e \in ext \ recs : scan <= e /\ e < used}
    IN  /\ mode = "recover" /\ th[t].pc = "idle"
        /\ \/ left = {} /\ scan' = used /\ th' = [th EXCEPT ![t].pc = "done"]
           \/ /\ left # {} /\ scan' = After(Least(left))
              /\ th' = [th EXCEPT ![t].pc = "reload", ![t].ext = Least(left)]
        /\ UNCHANGED <<pool, cnd, bins, alock, cache, known, mode, half, consistent, recs>>

\* The first step of small_recover.
RecoverExtentReload(t) ==
    /\ th[t].pc = "reload" /\ RunLock
    /\ ExtentReload(th[t].ext)
    /\ th' = [th EXCEPT ![t].pc = "runs"]
    /\ UNCHANGED <<pool, cnd, abin, alloc, alock, cache, known, mode, rec>>

\* The regions of run r to be rebuilt: all the busy ones.
Busy(r) == Regions(r) \intersect tok

\* Mutant of the next definition: it stays.
SameRid(rid) == rid

\* The loop of small_recover over the runs goes to the next one.
NextRid(rid) == rid + 1

\* One iteration of the loop of small_recover over the runs of the extent: a used
\* run is reloaded if half_used, and its busy regions are collected.
RecoverRun(t) == LET r == th[t].ext * NRun + th[t].rid IN
    /\ th[t].pc = "runs" /\ th[t].rid < NRun
    /\ \/ /\ r \in bits /\ alock[arena[r]] = None
          /\ Reload(IF Regions(r) \subseteq tok THEN {} ELSE {r}) /\ cond' = Cleaned({r})
          /\ th' = [th EXCEPT ![t].rid = NextRid(@), ![t].regs = Busy(r),
                              ![t].pc = IF Busy(r) = {} THEN "runs" ELSE "rebuild"]
       \/ /\ r \notin bits
          /\ th' = [th EXCEPT ![t].rid = NextRid(@)]
          /\ UNCHANGED <<abin, alloc, cond>>
    /\ UNCHANGED <<pool, pcond, rbin, alock, cache, known, mode, rec>>

RecoverExtentDone(t) ==
    /\ th[t].pc = "runs" /\ th[t].rid = NRun
    /\ th' = [th EXCEPT ![t] = Idle]
    /\ UNCHANGED <<pool, cnd, bins, alock, cache, known, mode, rec>>

\* rebuild(reg): the application learns of the next region.
RebuildRegion(t) == LET x == Least(th[t].regs) IN
    /\ th[t].pc = "rebuild" /\ th[t].regs # {}
    /\ known' = known \union {x} /\ th' = [th EXCEPT ![t].regs = @ \ {x}]
    /\ UNCHANGED <<pool, cnd, bins, alock, cache, mode, rec>>

RebuildDone(t) ==
    /\ th[t].pc = "rebuild" /\ th[t].regs = {}
    /\ th' = [th EXCEPT ![t].pc = "runs"]
    /\ UNCHANGED <<pool, cnd, bins, alock, cache, known, mode, rec>>

\* Arena::recover_acquire takes one region of run r from the recovering bin.
TakeOne(r, a) == LET x == Least(Regions(r) \ alloc[r]) IN
    FillRegions(r, a, "recover", {x}) /\ known' = known \union {x}

\* recover_acquire from a run, or from an extent, that recovery has acquired.
RecoverAcquire(t) == LET a == ArenaOf[t] IN
    /\ InCallback(t, "acquire") /\ Cardinality(known) < MaxHeld /\ alock[a] = None
    /\ \/ /\ \E r \in abin[a]["recover"] : TakeOne(r, a)
          /\ UNCHANGED <<pool, cnd, rbin>>
       \/ /\ abin[a]["recover"] = {} /\ rbin["recover"] # {} /\ RunLock
          /\ \E e \in rbin["recover"], r \in Run :
                RunAcquire(e, r, "recover", a) /\ TakeOne(r, a)
    /\ UNCHANGED <<alock, cache, th, mode, rec>>

\* ... or from a new extent.  ExtentCase::acquire has taken it from MetaHead,
\* which makes its descriptor valid, and has yet to insert it into recs_.
RecoverExtent(t) == LET a == ArenaOf[t] IN
    /\ InCallback(t, "acquire") /\ Cardinality(known) < MaxHeld /\ alock[a] = None
    /\ abin[a]["recover"] = {} /\ rbin["recover"] = {} /\ RunLock
    /\ \E e \in Free :
          /\ ext' = ext \union {e} /\ used' = IF e < used THEN used ELSE e + 1
          /\ bits' = Marked(e)
          /\ th' = [th EXCEPT ![t].pc = "recs", ![t].got = e]
    /\ alock' = [alock EXCEPT ![a] = t]
    /\ UNCHANGED <<arena, tok, cnd, bins, cache, known, mode, rec>>

\* ... recs_.insert(desc), and the rest of recover_acquire.
RecordExtent(t) == LET a == ArenaOf[t] IN
    /\ th[t].pc = "recs"
    /\ recs' = recs \union {th[t].got}
    /\ \E r \in Run : RunAcquire(th[t].got, r, "recover", a) /\ TakeOne(r, a)
    /\ th' = [th EXCEPT ![t].pc = "rebuild", ![t].got = 0]
    /\ alock' = [alock EXCEPT ![a] = None]
    /\ UNCHANGED <<cache, mode, half, consistent, scan>>

\* release of a region that recovery has acquired bypasses the thread cache.
RecoverRelease(t, x) ==
    /\ InCallback(t, "return") /\ x \in known /\ ExtOf(RunOf(x)) \in recs
    /\ tok' = tok \ {x} /\ known' = known \ {x}
    /\ ArenaRelease(x, "recover")
    /\ UNCHANGED <<cnd, alock, cache, th, mode, rec>>

\* finish_recover, once the workers have joined.
RecoverDone ==
    /\ mode = "recover" /\ \A t \in Thread : th[t].pc = "done"
    /\ abin' = [a \in Arena |-> [normal |-> abin[a]["normal"] \union abin[a]["recover"],
                                recover |-> {}]]
    /\ rbin' = [normal |-> rbin["normal"] \union rbin["recover"], recover |-> {}]
    /\ recs' = {} /\ scan' = 0 /\ mode' = "open" /\ th' = [t \in Thread |-> Idle]
    /\ UNCHANGED <<pool, cnd, alloc, alock, cache, known, half, consistent>>

-----------------------------------------------------------------------------
Step(t) ==
    \/ AcquireCached(t) \/ AcquireFill(t) \/ FillCacheBin(t) \/ SelectRun(t)
    \/ FillDone(t) \/ NullMeta(t) \/ Spill(t)
    \/ \E x \in Region : Release(t, x)

Recover(t) ==
    \/ RecoverNext(t) \/ RecoverExtentReload(t) \/ RecoverRun(t)
    \/ RecoverExtentDone(t) \/ RebuildRegion(t) \/ RebuildDone(t)
    \/ RecoverAcquire(t) \/ RecoverExtent(t) \/ RecordExtent(t)
    \/ \E x \in Region : RecoverRelease(t, x)

Next ==
    \/ \E t \in Thread : Step(t) \/ Recover(t) \/ CloseCache(t)
    \/ \E x \in Region : Publish(x)
    \/ \E a \in Arena, r \in Run : CloseArena(a, r)
    \/ \E e \in Extent : CloseRun(e) \/ RebootExtent(e)
    \/ CloseBegin \/ CloseDone \/ Crash \/ Open \/ RebootDone \/ RecoverDone

Spec == Init /\ [][Next]_vars

-----------------------------------------------------------------------------
\* The regions that somebody may use or hand out without asking an arena.
Owned == known \union Cached \union tok

\* No region is in two hands: it is cached at most once, a cached region is
\* neither held by the application nor busy, and a run in an arena bin is marked,
\* in one bin only, and offers none of the regions owned elsewhere (fill_regions,
\* dealloc_region and RunBits::reload against acquire and release).
NoDoubleAllocation ==
    /\ \A t \in Thread : IsInjective(cache[t])
    /\ \A s, t \in Thread : s # t => Range(cache[s]) \intersect Range(cache[t]) = {}
    /\ Cached \intersect (known \union tok) = {}
    /\ \A a \in Arena, b \in Bin : \A r \in abin[a][b] :
          /\ r \in bits /\ Owned \intersect Regions(r) \subseteq alloc[r]
          /\ \A c \in Arena, d \in Bin : r \in abin[c][d] => c = a /\ d = b

\* Every region of every extent in use can be allocated again or is owned: the
\* arena and run bins forget nothing, across fills, spills, close, reboot and
\* recovery (ArenaBin::release, srun_release, small_reload, small_reboot).
NoLostRegion == mode = "open" =>
    \A e \in ext :
        /\ Runs(e) \subseteq bits \/ e \in rbin["normal"]
        /\ \A r \in Runs(e) \intersect bits : \A x \in Regions(r) :
              \/ x \in known \union Cached
              \/ r \in abin[arena[r]]["normal"] /\ x \notin alloc[r]

\* At every instant, hence at every crash, a busy region lies in a run that is
\* marked in the descriptor of an extent in use: recovery will find it
\* (palloc_srun before a region is handed out, pdealloc_srun after the last one).
BusyReachable == \A x \in tok : RunOf(x) \in bits /\ ExtOf(RunOf(x)) \in ext

\* Recovery hands to rebuild only busy regions that the application does not know
\* yet, and no two workers the same one, whatever rebuild releases or acquires
\* meanwhile ("these regions should not be iterated", ThreadCache::acquire); when
\* it is over it has handed over every busy region (recover).
RebuildExact ==
    /\ \A t \in Thread : th[t].regs \subseteq tok \ known
    /\ \A s, t \in Thread : s # t => th[s].regs \intersect th[t].regs = {}
    /\ mode = "open" => tok \subseteq known

\* "runs marked with kPolluted must be half-used" (small_reboot), which the
\* assertion alloc_ < count_ of RunBits::reload relies on.
PollutedIsHalfUsed == mode = "reboot" =>
    \A r \in bits \intersect cond : ExtOf(r) \in half => ~ Regions(r) \subseteq tok

\* "the upper limit number of runs held by ArenaBin, redundant free runs will be
\* released" and the same for extents (kRunHoldCount, kExtentHoldCount).
HoldBound == mode = "open" =>
    /\ \A a \in Arena : Cardinality({r \in abin[a]["normal"] : alloc[r] = {}}) <= RunHold
    /\ Cardinality({e \in rbin["normal"] : Runs(e) \intersect bits = {}}) <= ExtentHold

\* A small class that runs out of space fails with null, as a medium one does:
\* "failed to restock for some reason, e.g., no more space" (CacheBin::acquire).
NoFault == mode # "fault"

\* "the regions in excess of stock quantity will be purged" (kCacheBinStockTab):
\* a release that purges leaves the stock.
SpillKeepsStock == [][\A t \in Thread :
    th[t].pc = "spill" /\ th'[t].pc = "idle" /\ mode' = "open" => Len(cache'[t]) = Stock]_vars

\* Workers are scheduled, and the callback returns.
Fairness == WF_vars(RecoverDone) /\ \A t \in Thread :
    /\ WF_vars(RecoverNext(t) \/ RecoverExtentReload(t) \/ RecoverRun(t) \/ RecoverExtentDone(t))
    /\ WF_vars(RebuildRegion(t) \/ RebuildDone(t))
    /\ WF_vars(Spill(t)) /\ WF_vars(RecordExtent(t))

FairSpec == Spec /\ Fairness

\* Recovery comes to an end unless the machine crashes again, although its
\* workers release into the extents that others scan (recover).
RecoveryEnds == mode = "recover" ~> mode \in {"open", "down"}
=============================================================================
