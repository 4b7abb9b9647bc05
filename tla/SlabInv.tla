------------------------------ MODULE SlabInv ------------------------------
(***************************************************************************)
(* The inductive invariant of Slab.                                        *)
(***************************************************************************)
EXTENDS Slab

\* The worker t has an extent of which it has yet to visit runs.
Working(t) ==
    \/ th[t].pc \in {"reload", "runs", "rebuild"}
    \/ th[t].pc = "spill" /\ th[t].ret = "rebuild"

\* The regions that a worker has still to hand to the callback.
Pending == UNION {th[t].regs : t \in Thread}

\* The regions that are out of the arenas.
Out == known \union Cached \union Pending

\* Run r awaits the worker t.
Ahead(t, r) == Working(t) /\ th[t].ext = ExtOf(r) /\ th[t].ext * NRun + th[t].rid <= r

\* The marked runs for which the arenas account: none without DRAM, in a recovery those
\* that a worker has visited, else those that a close has not marked.  Of the others
\* only the tokens say what is free.
Live == {r \in bits :
    /\ mode # "down"
    /\ mode = "recover" => ExtOf(r) < scan /\ \A t \in Thread : ~ Ahead(t, r)
    /\ mode # "recover" => r \notin cond}

\* The type invariant.  Nobody acquires in a recovery: the bins for that stay empty.
TypeOK ==
    /\ ext \subseteq Extent /\ used \in 0 .. NExtent /\ bits \subseteq Run /\ tok \subseteq Region
    /\ arena \in [Run -> Arena \union {None}] /\ cond \subseteq Run
    /\ rbin \in [Bin -> SUBSET Extent] /\ rbin["recover"] = {}
    /\ abin \in [Arena -> [Bin -> SUBSET Run]] /\ \A a \in Arena : abin[a]["recover"] = {}
    /\ alloc \in [Run -> SUBSET Region] /\ cache \in [Thread -> Seq(Region)]
    /\ known \subseteq Region /\ th \in [Thread -> Local]
    /\ mode \in {"open", "close", "fault", "down", "reboot", "recover"}
    /\ half \subseteq Extent /\ recs = {} /\ scan \in 0 .. NExtent

\* Where the threads can be.
ThreadOK(t) ==
    /\ mode \notin {"open", "recover"} => th[t] = Idle
    /\ mode = "open" => /\ th[t].pc \in {"idle", "fill", "spill"} /\ th[t].ret = "idle"
                        /\ th[t].rid = 0 /\ th[t].regs = {}
    /\ mode = "recover" =>
          /\ th[t].pc \in {"idle", "reload", "runs", "rebuild", "spill", "done"}
          /\ th[t].pc = "spill" => th[t].ret = "rebuild"
          /\ th[t].pc \notin {"rebuild", "spill"} => th[t].regs = {}
          /\ th[t].pc \notin {"runs", "rebuild", "spill"} => th[t].rid = 0

ThreadInv == \A t \in Thread : ThreadOK(t)

\* What the mode implies.
ModeInv ==
    /\ mode \in {"down", "reboot"} => \A t \in Thread : cache[t] = <<>>
    /\ mode = "down" => /\ known = {} /\ rbin["normal"] = {}
                        /\ \A a \in Arena : abin[a]["normal"] = {}
    /\ mode \in {"close", "reboot"} => known = tok
    /\ mode \in {"open", "fault", "recover"} => half = {}
    /\ mode # "recover" => scan = 0
    /\ consistent => mode = "down"

\* Marked runs lie in extents in use, which the scan of recovery reaches.
BitsInv ==
    /\ \A r \in bits : ExtOf(r) \in ext /\ arena[r] \in Arena
    /\ \A e \in ext : e < used

\* A run in an arena bin is marked, in the bin of its arena, and has a free region.
BinInv == \A a \in Arena : \A r \in abin[a]["normal"] :
    /\ r \in Live /\ arena[r] = a
    /\ alloc[r] \subseteq Regions(r) /\ alloc[r] # Regions(r)

\* RunBits is exact: a region is out exactly when it is marked in its run, or its
\* run is in no bin.
AccountInv == \A r \in Live : \A x \in Regions(r) :
    x \in Out <=> (r \in abin[arena[r]]["normal"] => x \in alloc[r])

\* The regions that are out are in one hand.
CacheOnce == \A s, t \in Thread : \A i \in DOMAIN cache[s], j \in DOMAIN cache[t] :
    cache[s][i] = cache[t][j] => s = t /\ i = j
PendOnce  == \A s, t \in Thread : s # t => th[s].regs \intersect th[t].regs = {}
HandInv   == /\ CacheOnce /\ PendOnce /\ Pending \subseteq tok \ known
             /\ Cached \intersect (known \union tok) = {}

\* Where the regions that are out, and those that are busy, lie.
PlaceInv ==
    /\ \A x \in Out : RunOf(x) \in bits /\ (mode = "recover" => RunOf(x) \in Live)
    /\ \A x \in tok : RunOf(x) \in bits /\ (RunOf(x) \in Live => x \in known \union Pending)

\* Extents with free runs are in the run bin, or will be.
ExtInv ==
    /\ mode \in {"open", "reboot", "recover"} => \A e \in rbin["normal"] : ~ Runs(e) \subseteq bits
    /\ mode \in {"open", "close", "reboot"} \/ consistent =>
          \A e \in ext : Runs(e) \subseteq bits \/ e \in rbin["normal"] \/ e \in half
    /\ mode = "recover" =>
          \A e \in ext : \/ Runs(e) \subseteq bits \/ e \in rbin["normal"] \/ scan <= e
                         \/ \E t \in Thread : th[t].pc = "reload" /\ th[t].ext = e

\* What the marks of a close mean.
CondInv ==
    /\ mode = "open" \/ (mode = "close" /\ Cached # {}) => bits \intersect cond = {}
    /\ mode = "recover" => Live \intersect cond = {}
    /\ mode \in {"close", "reboot"} \/ consistent => \A r \in bits \intersect cond :
          /\ ExtOf(r) \in half \/ (mode = "close" /\ ExtOf(r) \in rbin["normal"])
          /\ ~ Regions(r) \subseteq tok
    /\ consistent => \A r \in bits \ cond : Regions(r) \subseteq tok

\* The scan of recovery: each extent has one worker.
ScanInv == mode = "recover" =>
    /\ scan <= used
    /\ \A t \in Thread : /\ Working(t) => th[t].ext < scan
                         /\ th[t].pc = "done" => scan = used
    /\ \A s, t \in Thread : s # t /\ Working(s) /\ Working(t) => th[s].ext # th[t].ext

\* A thread that spills has regions cached.
SpillInv == \A t \in Thread : th[t].pc = "spill" => cache[t] # <<>>

SlInv ==
    /\ TypeOK /\ ThreadInv /\ ModeInv /\ BitsInv /\ BinInv /\ AccountInv /\ HandInv
    /\ PlaceInv /\ ExtInv /\ CondInv /\ ScanInv
SlabIInv == SlInv /\ SpillInv
=============================================================================
