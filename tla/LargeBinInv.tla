---------------------------- MODULE LargeBinInv -----------------------------
(***************************************************************************)
(* The inductive invariant of LargeBin (LInv), and the definitions that it *)
(* is stated with.                                                         *)
(***************************************************************************)
EXTENDS LargeBin

(* The assumption of the theorems: a recovery whose rebuild callback       *)
(* acquires has one worker.  With more, an extent is scanned as soon as    *)
(* its descriptor is valid, before recs_ has it.                           *)
AcquireAlone ==
    \A r \in Recoveries : "acquire" \in r.does => \A s, t \in r.worker : s = t

(* The region that a release by t is returning. *)
Releasing == [t \in Thread |-> IF th[t].pc = "bits" THEN {th[t].reg} ELSE {}]

(* The busy regions that worker t has yet to give to rebuild. *)
Pending == [t \in Thread |-> IF th[t].pc = "collect"
                             THEN Regions(th[t].ext) \intersect tok ELSE th[t].regs]

(* The regions that are allocated, as opposed to free in a bin. *)
Claimed == known \union {x \in Region : \E t \in Thread : x \in Releasing[t] \/ x \in Pending[t]}
Out     == null \union Claimed

(* The extents on their way back to ExtentCase, and those in a bin. *)
Given  == {e \in Extent : \E t \in Thread : th[t].pc = "give" /\ th[t].got = e}
Binned == {e \in Extent : \E c \in Case, b \in Bin : e \in bins[c][b]}

(* The extents of which DRAM does not know yet what is free: the tokens    *)
(* are all there is.                                                       *)
Raw ==
    IF mode = "down" THEN Extent ELSE
    IF mode = "recover"
    THEN {e \in Extent : \/ e \notin recs /\ scan <= e
                         \/ \E t \in Thread : \/ th[t].pc = "reload" /\ th[t].ext = e
                                              \/ th[t].pc = "recs" /\ th[t].got = e}
    ELSE half

TypeOK ==
    /\ ext \subseteq Extent /\ used \in 0 .. NExtent /\ rcase \in [Extent -> Case]
    /\ tok \subseteq Region /\ known \subseteq Region /\ null \subseteq Region
    /\ bins \in [Case -> [Bin -> SUBSET Extent]]
    /\ alloc \in [Extent -> SUBSET Region]
    /\ th \in [Thread -> Local]
    /\ mode \in {"open", "close", "down", "reboot", "recover"}
    /\ half \subseteq Extent /\ consistent \in BOOLEAN
    /\ recs \subseteq Extent /\ scan \in Nat

(* What each mode of the allocator implies.  In a pool marked kConsistent, *)
(* a region outside the recorded extents is busy or lost.                  *)
ModeInv ==
    /\ consistent => mode = "down"
    /\ mode # "recover" => recs = {} /\ scan = 0
    /\ mode = "recover" => call \in Recoveries
    /\ mode \in {"open", "recover"} => half = {}
    /\ half \subseteq ext /\ recs \subseteq ext
    /\ \A e \in ext : e < used
    /\ mode = "down" => known = {} /\ null \intersect tok = {}
    /\ mode = "close" => known \subseteq tok
    /\ mode = "reboot" => known = tok
    /\ consistent => \A x \in Region : x[1] \in ext \ half => x \in tok \union null
    /\ consistent \/ mode = "reboot" => \A x \in null : x[1] \notin half

(* Where the threads can be.  A worker is done when the scan has passed    *)
(* every extent that recovery did not acquire.                             *)
ThreadInv == \A t \in Thread :
    /\ mode \notin {"open", "recover"} => th[t].pc = "idle"
    /\ mode = "open" => th[t].pc \in {"idle", "bits", "give"} /\ th[t].regs = {}
                        /\ (th[t].pc # "idle" => th[t].ret = "idle")
    /\ mode = "recover" => /\ th[t].pc \in {"bits", "give"} => th[t].ret = "rebuild"
                           /\ th[t].pc # "idle" => t \in call.worker
    /\ th[t].pc \in {"idle", "done", "reload", "collect"} => th[t].regs = {}
    /\ th[t].pc = "bits" => th[t].bin = "normal"
    /\ th[t].pc = "done" => \A e \in ext \ recs : e < scan

(* The extent that a thread is working on. *)
ScanInv == \A t \in Thread :
    /\ th[t].pc \in {"reload", "collect"} => th[t].ext \in ext \ recs /\ th[t].ext < scan
    /\ th[t].pc = "collect" =>
          /\ th[t].ext \notin Given
          /\ \A x \in Regions(th[t].ext) :
                x \notin null /\ x \notin known /\ \A s \in Thread : x \notin Releasing[s]
    /\ th[t].pc = "recs" => /\ th[t].got \in ext \ recs /\ "acquire" \in call.does
                            /\ rcase[th[t].got] = CaseOf[t]
                            /\ \A x \in tok : x[1] # th[t].got
    /\ th[t].pc = "give" => th[t].got \in ext \ recs /\ th[t].got \notin Raw
    /\ Pending[t] \subseteq tok

(* No two threads work on the same extent or region. *)
PairInv == \A s, t \in Thread : s # t =>
    /\ th[s].pc \in {"reload", "collect"} /\ th[t].pc \in {"reload", "collect"} =>
          th[s].ext # th[t].ext
    /\ th[s].pc = "give" /\ th[t].pc = "give" => th[s].got # th[t].got
    /\ Releasing[s] \intersect Releasing[t] = {} /\ Pending[s] \intersect Pending[t] = {}

(* A region is allocated once. *)
HandInv ==
    /\ known \intersect null = {}
    /\ \A t \in Thread : /\ Releasing[t] \intersect (known \union null) = {}
                         /\ Pending[t] \intersect (known \union null) = {}
    /\ \A s, t \in Thread : Releasing[s] \intersect Pending[t] = {}

(* Where an allocated region lies. *)
PlaceInv ==
    /\ \A x \in Out : /\ x[1] \in ext /\ x[1] \notin Given
                      /\ mode = "recover" => x[1] \notin Raw
    /\ \A x \in Claimed : x[1] \notin recs

(* Where an extent in a bin comes from. *)
BinInv == \A c \in Case, b \in Bin : \A e \in bins[c][b] :
    /\ e \in ext /\ rcase[e] = c /\ e \notin Raw /\ e \notin Given
    /\ b = "recover" <=> e \in recs

(* RunBits is exact, and an extent in no bin is fully allocated. *)
AccountInv == \A x \in Region : x[1] \in ext /\ x[1] \notin Raw /\ x[1] \notin Given =>
    IF x[1] \in Binned THEN x \in alloc[x[1]] <=> x \in Out ELSE x \in Out

(* A busy region of an extent that is not raw is known or about to be. *)
TokInv == \A x \in tok :
    x[1] \in ext /\ (x[1] \notin Raw => x \in known \/ \E t \in Thread : x \in Pending[t])

LInv == TypeOK /\ ModeInv /\ ThreadInv /\ ScanInv /\ PairInv /\ HandInv /\ PlaceInv /\ BinInv
        /\ AccountInv /\ TokInv
=============================================================================
