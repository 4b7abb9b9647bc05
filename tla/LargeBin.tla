------------------------------ MODULE LargeBin ------------------------------
(***************************************************************************)
(* Large regions, those above kMaxMediumSize: the LargeBin of one size in  *)
(* each RunCase (slab/run.h), which cuts extents into regions with a token *)
(* each in the extent descriptor (slab/desc.h), and how AllocatorDetail    *)
(* (slab/slab.h) closes, reboots and recovers them.  Arenas and thread     *)
(* caches only pass the calls on.                                          *)
(*                                                                         *)
(* Extents come from MetaHead, here an atomic pool.  Tokens are written    *)
(* back by the step that changes them, so they have one copy.  release     *)
(* takes three steps: the token, the bin under its lock, and the extent    *)
(* once the lock is dropped.                                               *)
(***************************************************************************)
EXTENDS Integers, FiniteSets

CONSTANTS Thread, Case, None,
          CaseOf,              \* the RunCase of the arena of each thread
          NExtent, NRegion,    \* extents, regions of an extent
          ExtentHold,          \* kExtentHoldCount
          MaxHeld,             \* bound on the regions that the application holds
          Recoveries,          \* the calls of recover: its workers (nthd), and what its
                               \* rebuild callback does: "release" regions that it was
                               \* given, "acquire" new ones
          Faults               \* which of "crash" and "close" happen

ASSUME LargeAssumption ==
    /\ NExtent \in Nat \ {0} /\ NRegion \in Nat \ {0}
    /\ ExtentHold \in Nat /\ MaxHeld \in Nat
    /\ CaseOf \in [Thread -> Case] /\ None \notin Thread \union Case
    /\ Recoveries \subseteq [worker : (SUBSET Thread) \ {{}}, does : SUBSET {"release", "acquire"}]
    /\ Faults \subseteq {"crash", "close"}

Extent == 0 .. NExtent - 1
Index  == 0 .. NRegion - 1
Region == Extent \X Index
Bin    == {"normal", "recover"}

VARIABLES ext,    \* extents whose descriptor is not kInvalid
          used,   \* ext_used_ of the pool
          rcase,  \* rcase_ of each descriptor
          tok,    \* regions whose token is busy
          bins,   \* bins_ of each LargeBin: extents that are not fully allocated
          alloc,  \* RunBits::bits_ of the extents in bins: allocated regions
          lock,   \* lock_ of each LargeBin: its owner
          known,  \* regions that the application holds
          null,   \* regions that an acquire marked, and returned null
          th,     \* what each thread is doing
          mode,   \* of the allocator
          half,   \* extents recorded by close, then those open has yet to reload
          consistent, \* stat_ = kConsistent
          recs,   \* ExtentCase::recs_
          scan,   \* RecoverContainer::index_
          call    \* the current call of recover

pool == <<ext, used, rcase>>
rec  == <<half, consistent, recs, scan, call>>
vars == <<pool, tok, bins, alloc, lock, known, null, th, mode, rec>>

Regions(e) == {x \in Region : x[1] = e}

Local == [pc : {"idle", "bits", "give", "recs", "reload", "collect", "rebuild", "done"},
          ret : {"idle", "rebuild"},         \* where a release returns to
          reg : Region,                      \* being released
          bin : Bin,                         \* to which it goes
          ext : Extent,                      \* being recovered
          got : Extent,                      \* just acquired, or to be given back
          regs : SUBSET Region]              \* still to be rebuilt
Idle == [pc |-> "idle", ret |-> "idle", reg |-> <<0, 0>>, bin |-> "normal",
         ext |-> 0, got |-> 0, regs |-> {}]

Init ==
    /\ ext = {} /\ used = 0 /\ tok = {} /\ known = {} /\ null = {}
    /\ rcase \in [Extent -> Case]
    /\ bins = [c \in Case |-> [b \in Bin |-> {}]]
    /\ alloc = [e \in Extent |-> {}]
    /\ lock = [c \in Case |-> None]
    /\ th = [t \in Thread |-> Idle] /\ mode = "open"
    /\ half = {} /\ consistent = FALSE /\ recs = {} /\ scan = 0
    /\ call = [worker |-> {}, does |-> {}]
-----------------------------------------------------------------------------
(* acquire and release. *)

\* What MetaHead may hand out: a released extent, else the next unused one.
Free == LET released == {e \in Extent : e < used} \ ext
        IN  IF released # {} THEN released ELSE {used} \intersect Extent

\* ExtentCase::acquire of e by RunCase c: construct makes its tokens free.
ExtentAcquire(e, c) ==
    /\ e \in Free
    /\ ext' = ext \union {e} /\ used' = IF e < used THEN used ELSE e + 1
    /\ rcase' = [rcase EXCEPT ![e] = c] /\ tok' = tok \ Regions(e)

\* alloc_large of region x from e, of which the regions in taken are allocated: the
\* least free one; an extent with none left leaves its bin.
AllocLarge(x, e, c, b, taken) ==
    /\ x \in Regions(e) \ taken /\ \A y \in Regions(e) \ taken : x[2] <= y[2]
    /\ alloc' = [alloc EXCEPT ![e] = taken \union {x}]
    /\ bins' = [bins EXCEPT ![c][b] = IF Regions(e) \subseteq taken \union {x}
                                      THEN @ \ {e} ELSE @ \union {e}]

\* acquire from an extent of the bin, or from a new one.
Acquire(t) == LET c == CaseOf[t] IN
    /\ mode = "open" /\ th[t].pc = "idle" /\ lock[c] = None
    /\ Cardinality(known) < MaxHeld
    /\ \E e \in Extent, x \in Region :
          /\ \/ /\ e \in bins[c]["normal"] /\ AllocLarge(x, e, c, "normal", alloc[e])
                /\ UNCHANGED <<pool, tok>>
             \/ /\ bins[c]["normal"] = {} /\ ExtentAcquire(e, c)
                /\ AllocLarge(x, e, c, "normal", {})
          /\ known' = known \union {x}
    /\ UNCHANGED <<lock, null, th, mode, rec>>

\* region_t::publish: the token is hired and written back.
Publish(x) ==
    /\ mode \in {"open", "recover"} /\ x \in known \ tok
    /\ tok' = tok \union {x}
    /\ UNCHANGED <<pool, bins, alloc, lock, known, null, th, mode, rec>>

\* The rebuild callback runs in t and may call the allocator.
InCallback(t, f) == mode = "recover" /\ th[t].pc = "rebuild" /\ f \in call.does

\* release, first step: the token is fired.
Release(t, x) ==
    /\ (mode = "open" /\ th[t].pc = "idle") \/ InCallback(t, "release")
    /\ x \in known
    /\ known' = known \ {x} /\ tok' = tok \ {x}
    /\ th' = [th EXCEPT ![t].pc = "bits", ![t].ret = th[t].pc, ![t].reg = x,
                        ![t].bin = IF x[1] \in recs THEN "recover" ELSE "normal"]
    /\ UNCHANGED <<pool, bins, alloc, lock, null, mode, rec>>

\* The allocated regions of e; one that is in no bin was fully allocated.
AllocatedIn(e, held) == IF e \in held THEN alloc[e] ELSE Regions(e)

\* Mutant of the next definition: also with regions in use.
GivesBusyExtent(left, held) == Cardinality(held) > ExtentHold

\* Whether a bin gives back an extent with the regions left.
GivesExtent(left, held) == left = {} /\ Cardinality(held) > ExtentHold

\* ... second step: dealloc_large under the lock.
ReleaseBits(t) ==
    LET x == th[t].reg  e == x[1]  c == rcase[e]  b == th[t].bin
        left == AllocatedIn(e, bins[c][b]) \ {x}
        held == bins[c][b] \union {e}
        give == GivesExtent(left, held) IN
    /\ th[t].pc = "bits" /\ lock[c] = None
    /\ alloc' = [alloc EXCEPT ![e] = left]
    /\ bins' = [bins EXCEPT ![c][b] = IF give THEN held \ {e} ELSE held]
    /\ th' = [th EXCEPT ![t].pc = IF give THEN "give" ELSE th[t].ret, ![t].got = e]
    /\ UNCHANGED <<pool, tok, lock, known, null, mode, rec>>

\* ... third step: ExtentCase::release, without the lock.
ReleaseExtent(t) ==
    /\ th[t].pc = "give"
    /\ ext' = ext \ {th[t].got}
    /\ th' = [th EXCEPT ![t].pc = th[t].ret]
    /\ UNCHANGED <<used, rcase, tok, bins, alloc, lock, known, null, mode, rec>>
-----------------------------------------------------------------------------
(* Close, crash, open. *)

CloseBegin ==
    /\ "close" \in Faults /\ mode = "open" /\ \A t \in Thread : th[t].pc = "idle"
    /\ known \subseteq tok  \* the application has published what it keeps
    /\ mode' = "close"
    /\ UNCHANGED <<pool, tok, bins, alloc, lock, known, null, th, rec>>

\* Mutant of CloseBin: an extent in use is not recorded.
CloseBinForgets(c, e) ==
    /\ mode = "close" /\ e \in bins[c]["normal"]
    /\ bins' = [bins EXCEPT ![c]["normal"] = @ \ {e}]
    /\ ext' = IF alloc[e] = {} THEN ext \ {e} ELSE ext
    /\ UNCHANGED <<used, rcase, tok, alloc, lock, known, null, th, mode, rec>>

\* ~LargeBin for one extent: record it if a region of it is allocated, else release it.
CloseBin(c, e) ==
    /\ mode = "close" /\ e \in bins[c]["normal"]
    /\ bins' = [bins EXCEPT ![c]["normal"] = @ \ {e}]
    /\ half' = IF alloc[e] = {} THEN half ELSE half \union {e}
    /\ ext' = IF alloc[e] = {} THEN ext \ {e} ELSE ext
    /\ UNCHANGED <<used, rcase, tok, alloc, lock, known, null, th, mode, consistent, recs, scan, call>>

\* Only the next recovery, not a reboot, finds a lost region of an extent that was
\* not recorded.
CloseDone ==
    /\ mode = "close" /\ \A c \in Case : bins[c]["normal"] = {}
    /\ consistent' = TRUE /\ mode' = "down"
    /\ known' = {} /\ null' = {x \in null : x[1] \notin half}
    /\ UNCHANGED <<pool, tok, bins, alloc, lock, th, half, recs, scan, call>>

\* A power failure: DRAM is lost.
Crash ==
    /\ "crash" \in Faults /\ mode # "down"
    /\ bins' = [c \in Case |-> [b \in Bin |-> {}]]
    /\ lock' = [c \in Case |-> None]
    /\ known' = {} /\ null' = {} /\ th' = [t \in Thread |-> Idle]
    /\ mode' = "down" /\ half' = {} /\ recs' = {} /\ scan' = 0
    /\ UNCHANGED <<pool, tok, alloc, consistent, call>>

\* open: reboot a pool that was closed; recover one that was not, or on demand.
\* After a clean close the application finds its regions through its own root.
Open ==
    /\ mode = "down" /\ consistent' = FALSE
    /\ \/ consistent /\ mode' = "reboot" /\ known' = tok /\ UNCHANGED <<null, half, call>>
       \/ /\ mode' = "recover" /\ call' \in Recoveries
          /\ null' = {} /\ half' = {} /\ UNCHANGED known
    /\ UNCHANGED <<pool, tok, bins, alloc, lock, th, recs, scan>>

\* LargeBin::reload: the regions with a busy token are allocated.
Reload(e) ==
    /\ bins' = [bins EXCEPT ![rcase[e]]["normal"] = @ \union {e}]
    /\ alloc' = [alloc EXCEPT ![e] = Regions(e) \intersect tok]

\* large_reboot of a recorded extent.
RebootExtent(e) ==
    /\ mode = "reboot" /\ e \in half
    /\ Reload(e) /\ half' = half \ {e}
    /\ UNCHANGED <<pool, tok, lock, known, null, th, mode, consistent, recs, scan, call>>

RebootDone ==
    /\ mode = "reboot" /\ half = {} /\ mode' = "open"
    /\ UNCHANGED <<pool, tok, bins, alloc, lock, known, null, th, rec>>
-----------------------------------------------------------------------------
(* recover, by the threads of call.worker. *)

\* Mutant of the next definition: the index is not advanced.
Again(e) == e

\* fetch_add: where the scan goes on after extent e.
After(e) == e + 1

\* RecoverContainer::next skips free extents and those acquired by recovery.
RecoverNext(t) ==
    LET left == {e \in ext \ recs : scan <= e /\ e < used} IN
    /\ mode = "recover" /\ t \in call.worker /\ th[t].pc = "idle"
    /\ \/ left = {} /\ scan' = used /\ th' = [th EXCEPT ![t].pc = "done"]
       \/ \E e \in left :
             /\ \A d \in left : e <= d
             /\ scan' = After(e)
             /\ th' = [th EXCEPT ![t].pc = "reload", ![t].ext = e]
    /\ UNCHANGED <<pool, tok, bins, alloc, lock, known, null, mode, half, consistent, recs, call>>

\* large_recover: reload the extent if it is half_used ...
RecoverReload(t) == LET e == th[t].ext IN
    /\ th[t].pc = "reload"
    /\ \/ Regions(e) \subseteq tok /\ UNCHANGED <<bins, alloc>>
       \/ ~ Regions(e) \subseteq tok /\ lock[rcase[e]] = None /\ Reload(e)
    /\ th' = [th EXCEPT ![t].pc = "collect"]
    /\ UNCHANGED <<pool, tok, lock, known, null, mode, rec>>

\* ... collect its busy regions ...
RecoverCollect(t) ==
    /\ th[t].pc = "collect"
    /\ th' = [th EXCEPT ![t].pc = "rebuild", ![t].regs = Regions(th[t].ext) \intersect tok]
    /\ UNCHANGED <<pool, tok, bins, alloc, lock, known, null, mode, rec>>

\* ... and rebuild each of them.
RebuildRegion(t) ==
    /\ th[t].pc = "rebuild"
    /\ \E x \in th[t].regs :
          /\ \A y \in th[t].regs : x[2] <= y[2]
          /\ known' = known \union {x} /\ th' = [th EXCEPT ![t].regs = @ \ {x}]
    /\ UNCHANGED <<pool, tok, bins, alloc, lock, null, mode, rec>>

RebuildDone(t) ==
    /\ th[t].pc = "rebuild" /\ th[t].regs = {}
    /\ th' = [th EXCEPT ![t].pc = "idle"]
    /\ UNCHANGED <<pool, tok, bins, alloc, lock, known, null, mode, rec>>

\* recover_acquire calls large_acquire and drops what it returns.
RecoverAcquire(t) == LET c == CaseOf[t] IN
    /\ InCallback(t, "acquire") /\ lock[c] = None
    /\ \E e \in bins[c]["recover"], x \in Region :
          AllocLarge(x, e, c, "recover", alloc[e]) /\ null' = null \union {x}
    /\ UNCHANGED <<pool, tok, lock, known, th, mode, rec>>

\* ... from a new extent, whose descriptor is valid before recs_ has it.
RecoverExtent(t) == LET c == CaseOf[t] IN
    /\ InCallback(t, "acquire") /\ lock[c] = None /\ bins[c]["recover"] = {}
    /\ \E e \in Extent : ExtentAcquire(e, c) /\ th' = [th EXCEPT ![t].pc = "recs", ![t].got = e]
    /\ lock' = [lock EXCEPT ![c] = t]
    /\ UNCHANGED <<bins, alloc, known, null, mode, rec>>

\* ... recs_.insert(desc), and the rest of the acquire.
RecordExtent(t) == LET c == CaseOf[t]  e == th[t].got IN
    /\ th[t].pc = "recs"
    /\ recs' = recs \union {e}
    /\ \E x \in Region : AllocLarge(x, e, c, "recover", {}) /\ null' = null \union {x}
    /\ th' = [th EXCEPT ![t].pc = "rebuild"]
    /\ lock' = [lock EXCEPT ![c] = None]
    /\ UNCHANGED <<pool, tok, known, mode, half, consistent, scan, call>>

\* finish_recover, once the workers have joined: the bins are merged.
RecoverDone ==
    /\ mode = "recover" /\ \A t \in call.worker : th[t].pc = "done"
    /\ bins' = [c \in Case |-> [b \in Bin |->
                   IF b = "normal" THEN bins[c]["normal"] \union bins[c]["recover"] ELSE {}]]
    /\ recs' = {} /\ scan' = 0 /\ mode' = "open" /\ th' = [t \in Thread |-> Idle]
    /\ UNCHANGED <<pool, tok, alloc, lock, known, null, half, consistent, call>>
-----------------------------------------------------------------------------
Step(t) ==
    \/ Acquire(t) \/ ReleaseBits(t) \/ ReleaseExtent(t)
    \/ \E x \in Region : Release(t, x)

Recover(t) ==
    \/ RecoverNext(t) \/ RecoverReload(t) \/ RecoverCollect(t)
    \/ RebuildRegion(t) \/ RebuildDone(t)
    \/ RecoverAcquire(t) \/ RecoverExtent(t) \/ RecordExtent(t)

Next ==
    \/ \E t \in Thread : Step(t) \/ Recover(t)
    \/ \E x \in Region : Publish(x)
    \/ \E c \in Case, e \in Extent : CloseBin(c, e)
    \/ \E e \in Extent : RebootExtent(e)
    \/ CloseBegin \/ CloseDone \/ Crash \/ Open \/ RebootDone \/ RecoverDone

Spec == Init /\ [][Next]_vars
-----------------------------------------------------------------------------
\* The places that hold region x and may hand it on: the application, a release
\* on its way, the bins, and the acquires that returned null.
Hands(x) ==
    {<<"known", y>> : y \in known \intersect {x}}
    \union {<<"null", y>> : y \in null \intersect {x}}
    \union {<<"release", t>> : t \in {t \in Thread : th[t].pc = "bits" /\ th[t].reg = x}}
    \union {<<"bin", p>> : p \in {p \in Case \X Bin : x[1] \in bins[p[1]][p[2]]
                                                      /\ x \notin alloc[x[1]]}}

\* In the open allocator a region of an extent in use is in exactly one hand: the
\* bins neither offer it twice nor forget it, across concurrent acquires and
\* releases, close, reboot and recovery (LargeBin).  An extent on its way back to
\* ExtentCase is in none.
RegionOnce == mode = "open" =>
    \A x \in Region : x[1] \in ext =>
        IF \E t \in Thread : th[t].pc = "give" /\ th[t].got = x[1]
        THEN Hands(x) = {}
        ELSE \E h \in Hands(x) : Hands(x) = {h}

\* At every instant, hence at every crash, a busy region lies in an extent in use:
\* recovery will find it (release fires the token before it gives the extent back).
BusyReachable == \A x \in tok : x[1] \in ext

\* Recovery hands each busy region to rebuild exactly once: no two workers have the
\* same one, none is known to the application yet, and at the end all of them were
\* handed over, whatever rebuild releases or acquires meanwhile (large_recover).
RebuildOnce ==
    /\ \A t \in Thread : th[t].regs \subseteq tok \ known
    /\ \A s, t \in Thread : s # t => th[s].regs \intersect th[t].regs = {}
    /\ mode = "open" => \A x \in tok : x \in known
=============================================================================
