--------------------------- MODULE LargeBinProofs ---------------------------
(***************************************************************************)
(* Proof that the invariant LInv of LargeBinInv is inductive, for every    *)
(* number of threads, extents and regions, and of what follows from it:    *)
(* first the facts about the definitions, then one lemma per action for    *)
(* release, recovery, acquire and publish, then the theorems.              *)
(***************************************************************************)
EXTENDS LargeBinInv, TLAPS

(* Extents are the numbers below NExtent, the slots of the descriptor      *)
(* array that recover scans in order.                                      *)
LEMMA ExtentFact ==
    Extent \subseteq Nat /\ (\A e \in Nat : e \in Extent <=> e < NExtent) /\ NExtent \in Nat
BY LargeAssumption DEF Extent

(* A region is an extent and an index in it, and Regions(e) are those of   *)
(* extent e: what a release finds from the offset of a region.             *)
LEMMA RegionFact ==
    /\ \A x \in Region : x[1] \in Extent /\ x[2] \in Int
    /\ \A e, x : x \in Regions(e) <=> x \in Region /\ x[1] = e
<1>1. \A x \in Region : x[1] \in Extent /\ x[2] \in Int
  BY LargeAssumption DEF Region, Index
<1> QED BY <1>1, Zenon DEF Regions

(* The locals of a thread inside acquire, release or recover have their    *)
(* types.                                                                  *)
LEMMA LocalFact ==
    ASSUME TypeOK, NEW t \in Thread
    PROVE  /\ th[t].pc \in {"idle", "bits", "give", "recs", "reload", "collect", "rebuild", "done"}
           /\ th[t].ret \in {"idle", "rebuild"} /\ th[t].reg \in Region /\ th[t].bin \in Bin
           /\ th[t].ext \in Extent /\ th[t].got \in Extent /\ th[t].regs \subseteq Region
<1>1. th[t] \in Local
  BY Zenon DEF TypeOK
<1> QED BY <1>1, Zenon DEF Local

(* The locals of a thread outside every call have their types. *)
LEMMA IdleTyped == Idle \in Local
<1>1. 0 \in Extent /\ <<0, 0>> \in Region
  BY LargeAssumption DEF Extent, Index, Region
<1> QED BY <1>1, Zenon DEF Idle, Local, Bin

(* The scan positions of a thread occur during recover only; the extent it *)
(* is about to reload or has just acquired is raw, and the one it is about *)
(* to release is on its way to ExtentCase.                                 *)
LEMMA AtWork ==
    ASSUME LInv, NEW t \in Thread
    PROVE  /\ th[t].pc \in {"recs", "reload", "collect", "rebuild", "done"} => mode = "recover"
           /\ th[t].pc = "recs" => th[t].got \in Raw
           /\ th[t].pc = "reload" => th[t].ext \in Raw
           /\ th[t].pc = "give" => th[t].got \in Given
<1>1. th[t].pc \in {"recs", "reload", "collect", "rebuild", "done"} => mode = "recover"
  BY Zenon DEF LInv, TypeOK, ThreadInv
<1>2. th[t].ext \in Extent /\ th[t].got \in Extent
  BY LocalFact, Zenon DEF LInv
<1>3. th[t].pc = "give" => th[t].got \in Given
  BY <1>2, Zenon DEF Given
<1> QED BY <1>1, <1>2, <1>3, Zenon DEF Raw

(* A region is out of the bins in one of four ways: the application holds  *)
(* it, an acquire marked it and returned null, a release is returning it,  *)
(* or a worker has yet to rebuild it.                                      *)
LEMMA InHand ==
    \A x \in Region : x \in Out <=>
        x \in known \/ x \in null \/ \E t \in Thread : x \in Releasing[t] \/ x \in Pending[t]
BY Zenon DEF Out, Claimed

-----------------------------------------------------------------------------
(* alloc_large, from an extent that is in no bin but bins[c][b]: it marks  *)
(* the one region x, which was free, moves no other extent, and drops the  *)
(* extent from the bin only when every region of it is marked.             *)
LEMMA AllocFact ==
    ASSUME TypeOK, NEW x \in Region, NEW e \in Extent, NEW c \in Case, NEW b \in Bin,
           NEW taken \in SUBSET Region, AllocLarge(x, e, c, b, taken),
           \A d \in Case, a \in Bin : e \in bins[d][a] => d = c /\ a = b
    PROVE  /\ bins' \in [Case -> [Bin -> SUBSET Extent]] /\ alloc' \in [Extent -> SUBSET Region]
           /\ x[1] = e /\ x \notin taken
           /\ alloc'[e] = taken \union {x} /\ \A f \in Extent : f # e => alloc'[f] = alloc[f]
           /\ \A d \in Case, a \in Bin, f \in Extent :
                 f # e => (f \in bins'[d][a] <=> f \in bins[d][a])
           /\ \A d \in Case, a \in Bin : e \in bins'[d][a] => d = c /\ a = b
           /\ \A f \in Extent : f # e => (f \in Binned' <=> f \in Binned)
           /\ e \in Binned' \/ Regions(e) \subseteq taken \union {x}
<1>1. x[1] = e /\ x \notin taken
  BY RegionFact, Zenon DEF AllocLarge
<1>2. /\ bins' \in [Case -> [Bin -> SUBSET Extent]]
      /\ \A d \in Case, a \in Bin, f \in Extent :
            f # e => (f \in bins'[d][a] <=> f \in bins[d][a])
  BY ZenonT(30) DEF TypeOK, AllocLarge
<1>3. alloc' \in [Extent -> SUBSET Region] /\ alloc'[e] = taken \union {x}
      /\ \A f \in Extent : f # e => alloc'[f] = alloc[f]
  BY Zenon DEF TypeOK, AllocLarge
<1>4. \A d \in Case, a \in Bin : e \in bins'[d][a] => d = c /\ a = b
  BY Zenon DEF TypeOK, AllocLarge
<1>5. e \in bins'[c][b] \/ Regions(e) \subseteq taken \union {x}
  BY Zenon DEF TypeOK, AllocLarge
<1>6. \A f \in Extent : f # e => (f \in Binned' <=> f \in Binned)
  BY <1>2, Zenon DEF Binned
<1>7. e \in Binned' \/ Regions(e) \subseteq taken \union {x}
  BY <1>5, Zenon DEF Binned
<1> QED BY <1>1, <1>2, <1>3, <1>4, <1>6, <1>7, Zenon

(* The extent that acquire_extent hands out was not in use, is now, and    *)
(* has the RunCase of its caller.                                          *)
LEMMA AcquiredFact ==
    ASSUME LInv, NEW e \in Extent, NEW c \in Case, ExtentAcquire(e, c)
    PROVE  /\ e \notin ext /\ ext' = ext \union {e} /\ used' \in 0 .. NExtent
           /\ (\A d \in ext' : d < used') /\ tok' = tok
           /\ rcase' \in [Extent -> Case] /\ rcase'[e] = c /\ \A d \in Extent : d # e => rcase'[d] = rcase[d]
<1>1. e \notin ext /\ ext' = ext \union {e}
  BY ExtentFact DEF LInv, TypeOK, ModeInv, ExtentAcquire, Free
<1>2. used' \in 0 .. NExtent /\ \A d \in ext' : d < used'
  BY ExtentFact, <1>1 DEF LInv, TypeOK, ModeInv, ExtentAcquire, Free
<1>3. tok' = tok
  BY <1>1, RegionFact DEF LInv, TokInv, ExtentAcquire
<1>4. rcase' \in [Extent -> Case] /\ rcase'[e] = c /\ \A d \in Extent : d # e => rcase'[d] = rcase[d]
  BY Zenon DEF LInv, TypeOK, ExtentAcquire
<1> QED BY <1>1, <1>2, <1>3, <1>4, Zenon

(* A store to the program counter of a thread changes nothing else of its  *)
(* locals and nothing of the other threads.                                *)
LEMMA PcOnly ==
    ASSUME TypeOK, NEW t \in Thread,
           NEW p \in {"idle", "bits", "give", "recs", "reload", "collect", "rebuild", "done"},
           th' = [th EXCEPT ![t].pc = p]
    PROVE  /\ th' \in [Thread -> Local]
           /\ th'[t].pc = p /\ th'[t].ret = th[t].ret /\ th'[t].reg = th[t].reg /\ th'[t].bin = th[t].bin
           /\ th'[t].ext = th[t].ext /\ th'[t].got = th[t].got /\ th'[t].regs = th[t].regs
           /\ \A s \in Thread : s # t => th'[s] = th[s]
<1>1. th \in [Thread -> Local] /\ th[t] \in Local
  BY Zenon DEF TypeOK
<1> DEFINE l == [th[t] EXCEPT !.pc = p]
<1>2. l \in Local /\ l.pc = p /\ l.ret = th[t].ret /\ l.reg = th[t].reg /\ l.bin = th[t].bin
      /\ l.ext = th[t].ext /\ l.got = th[t].got /\ l.regs = th[t].regs
  BY <1>1, Zenon DEF Local
<1>3. th' = [th EXCEPT ![t] = l]
  BY <1>1, Zenon DEF Local
<1> HIDE DEF l
<1> QED BY <1>1, <1>2, <1>3, Zenon

(* A store to the program counter and to the extent that a thread acquires *)
(* or gives back changes nothing else of its locals.                       *)
LEMMA PcGot ==
    ASSUME TypeOK, NEW t \in Thread, NEW e \in Extent,
           NEW p \in {"idle", "bits", "give", "recs", "reload", "collect", "rebuild", "done"},
           th' = [th EXCEPT ![t].pc = p, ![t].got = e]
    PROVE  /\ th' \in [Thread -> Local]
           /\ th'[t].pc = p /\ th'[t].ret = th[t].ret /\ th'[t].reg = th[t].reg /\ th'[t].bin = th[t].bin
           /\ th'[t].ext = th[t].ext /\ th'[t].got = e /\ th'[t].regs = th[t].regs
           /\ \A s \in Thread : s # t => th'[s] = th[s]
<1>1. th \in [Thread -> Local] /\ th[t] \in Local
  BY Zenon DEF TypeOK
<1> DEFINE l == [th[t] EXCEPT !.pc = p, !.got = e]
<1>2. l \in Local /\ l.pc = p /\ l.ret = th[t].ret /\ l.reg = th[t].reg /\ l.bin = th[t].bin
      /\ l.ext = th[t].ext /\ l.got = e /\ l.regs = th[t].regs
  BY <1>1, Zenon DEF Local
<1>3. th' = [th EXCEPT ![t] = l]
  BY <1>1, Zenon DEF Local
<1> HIDE DEF l
<1> QED BY <1>1, <1>2, <1>3, ZenonT(30)

(* A store to the program counter and to the extent that a worker scans    *)
(* changes nothing else of its locals.                                     *)
LEMMA PcExt ==
    ASSUME TypeOK, NEW t \in Thread, NEW e \in Extent,
           th' = [th EXCEPT ![t].pc = "reload", ![t].ext = e]
    PROVE  /\ th' \in [Thread -> Local]
           /\ th'[t].pc = "reload" /\ th'[t].ext = e /\ th'[t].regs = th[t].regs
           /\ \A s \in Thread : s # t => th'[s] = th[s]
<1>1. th \in [Thread -> Local] /\ th[t] \in Local
  BY Zenon DEF TypeOK
<1> DEFINE l == [th[t] EXCEPT !.pc = "reload", !.ext = e]
<1>2. l \in Local /\ l.pc = "reload" /\ l.ext = e /\ l.regs = th[t].regs
  BY <1>1, Zenon DEF Local
<1>3. th' = [th EXCEPT ![t] = l]
  BY <1>1, Zenon DEF Local
<1> HIDE DEF l
<1> QED BY <1>1, <1>2, <1>3, Zenon

(* The extents that are raw stay so in a step outside the scan of recover. *)
LEMMA SameRaw ==
    ASSUME NEW t \in Thread, mode' = mode, half' = half, recs' = recs, scan' = scan,
           th[t].pc \notin {"reload", "recs"}, th'[t].pc \notin {"reload", "recs"},
           \A s \in Thread : s # t => th'[s] = th[s]
    PROVE  Raw' = Raw
<1>1. ASSUME NEW e \in Extent, NEW s \in Thread
      PROVE  /\ th[s].pc = "reload" /\ th[s].ext = e <=> th'[s].pc = "reload" /\ th'[s].ext = e
             /\ th[s].pc = "recs" /\ th[s].got = e <=> th'[s].pc = "recs" /\ th'[s].got = e
  BY Zenon
<1>2. \A e \in Extent :
         (\E s \in Thread : \/ th[s].pc = "reload" /\ th[s].ext = e
                            \/ th[s].pc = "recs" /\ th[s].got = e)
         <=> (\E s \in Thread : \/ th'[s].pc = "reload" /\ th'[s].ext = e
                                \/ th'[s].pc = "recs" /\ th'[s].got = e)
  BY <1>1
<1> QED BY <1>2, Zenon DEF Raw

(* A step that neither begins nor ends the release of an extent leaves the *)
(* extents on their way to ExtentCase.                                     *)
LEMMA SameGiven ==
    ASSUME NEW t \in Thread, th[t].pc # "give", th'[t].pc # "give",
           \A s \in Thread : s # t => th'[s] = th[s]
    PROVE  Given' = Given
BY Zenon DEF Given

(* Under AcquireAlone, a recovery whose rebuild callback acquires has one  *)
(* thread inside recover.                                                  *)
LEMMA Alone ==
    ASSUME LInv, AcquireAlone, NEW s \in Thread, NEW t \in Thread, "acquire" \in call.does,
           mode = "recover", th[s].pc # "idle", th[t].pc # "idle"
    PROVE  s = t
BY DEF LInv, ModeInv, ThreadInv, AcquireAlone

(* Two threads still work on different extents and regions after a step to *)
(* a place where t works on no extent, if it adds no region to what the    *)
(* threads release or have yet to rebuild.                                 *)
LEMMA SamePair ==
    ASSUME LInv, NEW t \in Thread, th'[t].pc \notin {"reload", "collect", "give"},
           \A s \in Thread : s # t => th'[s] = th[s],
           \A s \in Thread : Releasing'[s] \subseteq Releasing[s] /\ Pending'[s] \subseteq Pending[s]
    PROVE  PairInv'
<1> SUFFICES ASSUME NEW s \in Thread, NEW u \in Thread, s # u
             PROVE  /\ th'[s].pc \in {"reload", "collect"} /\ th'[u].pc \in {"reload", "collect"} =>
                          th'[s].ext # th'[u].ext
                    /\ th'[s].pc = "give" /\ th'[u].pc = "give" => th'[s].got # th'[u].got
                    /\ Releasing'[s] \intersect Releasing'[u] = {}
                    /\ Pending'[s] \intersect Pending'[u] = {}
  BY Zenon DEF PairInv
<1>1. Releasing[s] \intersect Releasing[u] = {} /\ Pending[s] \intersect Pending[u] = {}
  BY Zenon DEF LInv, PairInv
<1>2. Releasing'[s] \intersect Releasing'[u] = {} /\ Pending'[s] \intersect Pending'[u] = {}
  BY <1>1, Zenon
<1>3. /\ th'[s].pc \in {"reload", "collect"} /\ th'[u].pc \in {"reload", "collect"} =>
            th'[s].ext # th'[u].ext
      /\ th'[s].pc = "give" /\ th'[u].pc = "give" => th'[s].got # th'[u].got
  BY DEF LInv, PairInv
<1> QED BY <1>2, <1>3, Zenon

(* A region is still allocated once after a step that changes nothing of   *)
(* what the application holds and adds no region to what the threads       *)
(* release or have yet to rebuild.                                         *)
LEMMA SameHand ==
    ASSUME LInv, known' = known, null' = null,
           \A s \in Thread : Releasing'[s] \subseteq Releasing[s] /\ Pending'[s] \subseteq Pending[s]
    PROVE  HandInv'
BY Zenon DEF LInv, HandInv

(* The scan positions stay correct in a step of t that changes neither the *)
(* pool nor the regions in hand.                                           *)
LEMMA SameScan ==
    ASSUME LInv, NEW t \in Thread, th'[t].pc \in {"idle", "rebuild"},
           \A s \in Thread : s # t => th'[s] = th[s],
           \A s \in Thread : Releasing'[s] = Releasing[s] /\ Pending'[s] = Pending[s],
           ext' = ext, recs' = recs, scan' = scan, null' = null, known' = known,
           call' = call, rcase' = rcase, tok' = tok, Given' = Given, Raw' = Raw
    PROVE  ScanInv'
<1>1. \A s \in Thread : th'[s].pc \in {"reload", "collect", "recs", "give"} => th'[s] = th[s]
  BY Zenon
<1> QED BY <1>1 DEF LInv, ScanInv

(* The places of regions and extents stay correct in a step that changes   *)
(* none of the sets they are about.                                        *)
LEMMA SamePlace ==
    ASSUME LInv, ext' = ext, recs' = recs, mode' = mode, rcase' = rcase, tok' = tok,
           known' = known, bins' = bins, alloc' = alloc, Given' = Given, Raw' = Raw,
           Binned' = Binned, Claimed' = Claimed, Out' = Out,
           \A s \in Thread : Pending'[s] = Pending[s]
    PROVE  PlaceInv' /\ BinInv' /\ AccountInv' /\ TokInv'
<1>1. PlaceInv'
  BY Zenon DEF LInv, PlaceInv
<1>2. BinInv'
  BY DEF LInv, BinInv
<1>3. AccountInv'
  BY Zenon DEF LInv, AccountInv
<1>4. TokInv'
  BY Zenon DEF LInv, TokInv
<1> QED BY <1>1, <1>2, <1>3, <1>4, Zenon
-----------------------------------------------------------------------------
(***************************************************************************)
(* The inductive invariant of LargeBin is preserved by the three steps of  *)
(* release.                                                                *)
(***************************************************************************)

(* The first step of release preserves the invariant: the token is cleared *)
(* and the region passes from the application to the release.              *)
LEMMA ReleaseStep ==
    ASSUME LInv, NEW t \in Thread, NEW x \in Region, Release(t, x)
    PROVE  LInv'
<1>1. /\ x \in known /\ known' = known \ {x} /\ tok' = tok \ {x} /\ null' = null
      /\ ext' = ext /\ used' = used /\ rcase' = rcase /\ bins' = bins /\ alloc' = alloc
      /\ mode' = mode /\ half' = half /\ consistent' = consistent /\ recs' = recs
      /\ scan' = scan /\ call' = call
  BY Zenon DEF Release, pool, rec
<1>2. x \in Claimed /\ x \in Out /\ x[1] \notin recs
  BY <1>1, Zenon DEF LInv, PlaceInv, Out, Claimed
<1>3. \/ mode = "open" /\ th[t].pc = "idle"
      \/ mode = "recover" /\ th[t].pc = "rebuild"
  BY Zenon DEF Release, InCallback
<1>4. /\ th' \in [Thread -> Local]
      /\ th'[t].pc = "bits" /\ th'[t].ret = th[t].pc /\ th'[t].reg = x /\ th'[t].bin = "normal"
      /\ th'[t].ext = th[t].ext /\ th'[t].got = th[t].got /\ th'[t].regs = th[t].regs
      /\ \A s \in Thread : s # t => th'[s] = th[s]
  <2> DEFINE l == [th[t] EXCEPT !.pc = "bits", !.ret = th[t].pc, !.reg = x, !.bin = "normal"]
  <2>1. th' = [th EXCEPT ![t] = l]
    BY <1>2, Zenon DEF LInv, TypeOK, Local, Release
  <2>2. th \in [Thread -> Local] /\ th[t] \in Local
    BY Zenon DEF LInv, TypeOK
  <2>3. /\ l \in Local /\ l.pc = "bits" /\ l.ret = th[t].pc /\ l.reg = x /\ l.bin = "normal"
        /\ l.ext = th[t].ext /\ l.got = th[t].got /\ l.regs = th[t].regs
    BY <1>3, <2>2, Zenon DEF Local, Bin
  <2> HIDE DEF l
  <2> QED BY <2>1, <2>2, <2>3, Zenon
<1>5. /\ Releasing[t] = {} /\ Releasing'[t] = {x}
      /\ \A s \in Thread : s # t => Releasing'[s] = Releasing[s]
  BY <1>3, <1>4, Zenon DEF Releasing
<1>6. \A s \in Thread : Pending'[s] = Pending[s]
  <2>1. ASSUME NEW s \in Thread, th[s].pc = "collect"
        PROVE  Regions(th[s].ext) \intersect tok' = Regions(th[s].ext) \intersect tok
    BY <1>1, <2>1 DEF LInv, ScanInv
  <2>2. ASSUME NEW s \in Thread PROVE Pending'[s] = Pending[s]
    BY <1>3, <1>4, <2>1, Zenon DEF Pending
  <2> QED BY <2>2, Zenon
<1>7. Given' = Given /\ Binned' = Binned /\ Raw' = Raw
  BY <1>1, <1>3, <1>4, SameRaw, SameGiven, Zenon DEF Binned
<1>8. Claimed' = Claimed /\ Out' = Out
  BY <1>1, <1>5, <1>6 DEF Claimed, Out
<1>9. TypeOK'
  BY <1>1, <1>4, Zenon DEF LInv, TypeOK
<1>10. ModeInv'
  BY <1>1, <1>3, Zenon DEF LInv, ModeInv
<1>11. ThreadInv'
  BY <1>1, <1>3, <1>4 DEF LInv, ThreadInv
<1>12. ScanInv'
  BY <1>1, <1>3, <1>4, <1>5, <1>6, <1>7, <1>9, SMTT(30) DEF LInv, ScanInv, HandInv
<1>13. PairInv' /\ HandInv'
  BY <1>1, <1>3, <1>4, <1>5, <1>6, SMTT(30) DEF LInv, PairInv, HandInv
<1>14. PlaceInv' /\ BinInv' /\ AccountInv'
  BY <1>1, <1>7, <1>8, Zenon DEF LInv, PlaceInv, BinInv, AccountInv
<1>15. TokInv'
  BY <1>1, <1>6, <1>7, Zenon DEF LInv, TokInv
<1> QED BY <1>9, <1>10, <1>11, <1>12, <1>13, <1>14, <1>15, Zenon DEF LInv

(* The second step of release, under the lock of the LargeBin, preserves   *)
(* the invariant: the region is free in its bin, or its extent is empty    *)
(* and leaves the bin.                                                     *)
LEMMA ReleaseBitsStep ==
    ASSUME LInv, NEW t \in Thread, ReleaseBits(t)
    PROVE  LInv'
<1> DEFINE x == th[t].reg
           e == x[1]
           c == rcase[e]
           left == AllocatedIn(e, bins[c]["normal"]) \ {x}
           held == bins[c]["normal"] \union {e}
           give == GivesExtent(left, held)
<1>1. /\ known' = known /\ tok' = tok /\ null' = null
      /\ ext' = ext /\ used' = used /\ rcase' = rcase
      /\ mode' = mode /\ half' = half /\ consistent' = consistent /\ recs' = recs
      /\ scan' = scan /\ call' = call
  BY Zenon DEF ReleaseBits, pool, rec
<1>2. /\ th[t].pc = "bits" /\ th[t].bin = "normal" /\ mode \in {"open", "recover"}
      /\ mode = "open" => th[t].ret = "idle" /\ th[t].regs = {}
      /\ mode = "recover" => th[t].ret = "rebuild" /\ t \in call.worker
  BY Zenon DEF LInv, ThreadInv, ReleaseBits
<1>3. x \in Region /\ x[1] = e /\ e \in Extent /\ c \in Case /\ rcase[e] = c /\ "normal" \in Bin
  BY LocalFact, RegionFact, Zenon DEF LInv, TypeOK, Bin
<1>4. Releasing[t] = {x} /\ x \in Claimed /\ x \in Out
  BY <1>2, <1>3, Zenon DEF Releasing, Claimed, Out
<1>5. e \in ext /\ e \notin Given /\ e \notin recs /\ e \notin Raw
  BY <1>2, <1>4, Zenon DEF LInv, PlaceInv, ModeInv, Raw
<1>6. /\ alloc' = [alloc EXCEPT ![e] = left]
      /\ bins' = [bins EXCEPT ![c]["normal"] = IF give THEN held \ {e} ELSE held]
      /\ th' = [th EXCEPT ![t].pc = IF give THEN "give" ELSE th[t].ret, ![t].got = e]
  BY <1>2, Zenon DEF ReleaseBits
<1>7. \A d \in Case, a \in Bin : e \in bins[d][a] => d = c /\ a = "normal"
  BY <1>5 DEF LInv, BinInv, Bin
<1>8. e \in Binned <=> e \in bins[c]["normal"]
  BY <1>3, <1>7, Zenon DEF Binned
<1>9. \A y \in Region : y[1] = e => (y \in left <=> y \in Out /\ y # x)
  BY <1>5, <1>8, RegionFact, Zenon DEF LInv, AccountInv, AllocatedIn
<1>10. give \in BOOLEAN /\ (give => left = {})
  BY Zenon DEF GivesExtent
<1>11. left \subseteq Region
  BY <1>3, RegionFact DEF LInv, TypeOK, AllocatedIn
<1>Held. held = bins[c]["normal"] \union {e}
  BY Zenon
<1> HIDE DEF x, e, c, left, held, give
<1>12. /\ bins' \in [Case -> [Bin -> SUBSET Extent]] /\ alloc' \in [Extent -> SUBSET Region]
       /\ alloc'[e] = left /\ \A f \in Extent : f # e => alloc'[f] = alloc[f]
       /\ \A d \in Case, a \in Bin, f \in Extent :
             f # e => (f \in bins'[d][a] <=> f \in bins[d][a])
       /\ \A d \in Case, a \in Bin : e \in bins'[d][a] <=> ~ give /\ d = c /\ a = "normal"
  <2>1. alloc' \in [Extent -> SUBSET Region] /\ alloc'[e] = left
        /\ \A f \in Extent : f # e => alloc'[f] = alloc[f]
    BY <1>3, <1>6, <1>11, Zenon DEF LInv, TypeOK
  <2> DEFINE rest == IF give THEN held \ {e} ELSE held
  <2>2. rest \in SUBSET Extent /\ (\A f \in Extent : f # e => (f \in rest <=> f \in bins[c]["normal"]))
        /\ (e \in rest <=> ~ give)
    BY <1>3, <1>Held DEF LInv, TypeOK
  <2>3. bins' = [bins EXCEPT ![c]["normal"] = rest]
    BY <1>6, Zenon
  <2> HIDE DEF rest
  <2>4. bins' \in [Case -> [Bin -> SUBSET Extent]] /\ bins'[c]["normal"] = rest
        /\ \A d \in Case, a \in Bin : d # c \/ a # "normal" => bins'[d][a] = bins[d][a]
    BY <1>3, <2>2, <2>3, Zenon DEF LInv, TypeOK
  <2>5. \A d \in Case, a \in Bin, f \in Extent :
           f # e => (f \in bins'[d][a] <=> f \in bins[d][a])
    BY <2>2, <2>4, Zenon
  <2>6. \A d \in Case, a \in Bin : e \in bins'[d][a] <=> ~ give /\ d = c /\ a = "normal"
    BY <1>7, <2>2, <2>4, Zenon
  <2> QED BY <2>1, <2>4, <2>5, <2>6, Zenon
<1>13. /\ \A f \in Extent : f # e => (f \in Binned' <=> f \in Binned)
       /\ e \in Binned' <=> ~ give
  BY <1>3, <1>12, Zenon DEF Binned
<1>14. /\ th' \in [Thread -> Local]
       /\ th'[t].pc = (IF give THEN "give" ELSE th[t].ret) /\ th'[t].got = e
       /\ th'[t].ret = th[t].ret /\ th'[t].regs = th[t].regs
       /\ \A s \in Thread : s # t => th'[s] = th[s]
  <2> DEFINE p == IF give THEN "give" ELSE th[t].ret
  <2>1. p \in {"idle", "bits", "give", "recs", "reload", "collect", "rebuild", "done"}
    BY <1>2, Zenon
  <2>2. th' = [th EXCEPT ![t].pc = p, ![t].got = e]
    BY <1>6, Zenon
  <2> HIDE DEF p
  <2>3. th' \in [Thread -> Local] /\ th'[t].pc = p /\ th'[t].got = e
        /\ th'[t].ret = th[t].ret /\ th'[t].regs = th[t].regs
        /\ \A s \in Thread : s # t => th'[s] = th[s]
    BY <1>3, <2>1, <2>2, PcGot, ZenonT(30) DEF LInv
  <2> QED BY <2>3, Zenon DEF p
<1>15. th'[t].pc \in {"idle", "rebuild", "give"}
  BY <1>2, <1>14, Zenon
<1>16. /\ Releasing'[t] = {} /\ \A s \in Thread : s # t => Releasing'[s] = Releasing[s]
       /\ \A s \in Thread : Pending'[s] = Pending[s]
  BY <1>1, <1>2, <1>14, <1>15, Zenon DEF Releasing, Pending
<1>17. Raw' = Raw /\ Given' = IF give THEN Given \union {e} ELSE Given
  <2>1. Raw' = Raw
    BY <1>1, <1>2, <1>14, <1>15, SameRaw, Zenon
  <2>2. ASSUME give PROVE Given' = Given \union {e}
    BY <1>2, <1>3, <1>14, <2>2, Zenon DEF Given
  <2>3. ASSUME ~ give PROVE Given' = Given
    BY <1>2, <1>14, <1>15, <2>3, SameGiven, Zenon
  <2> QED BY <2>1, <2>2, <2>3, Zenon
<1>18. \A s \in Thread : s # t => x \notin Releasing[s] /\ x \notin Pending[s] /\ x \notin Pending[t]
  BY <1>4, Zenon DEF LInv, PairInv, HandInv
<1>19. Claimed' = Claimed \ {x} /\ Out' = Out \ {x}
  BY <1>1, <1>4, <1>16, <1>18, InHand DEF Claimed, Out, LInv, HandInv
<1>20. give => \A y \in Out' : y[1] # e
  BY <1>9, <1>10, <1>19, Zenon DEF LInv, TypeOK, Out, Claimed
<1>21. TypeOK'
  BY <1>1, <1>12, <1>14, Zenon DEF LInv, TypeOK
<1>22. ModeInv'
  BY <1>1, Zenon DEF LInv, ModeInv
<1>23. ThreadInv'
  BY <1>1, <1>2, <1>14, <1>15, ZenonT(30) DEF LInv, ThreadInv
<1>24. ScanInv'
  <2>1. ASSUME NEW s \in Thread, th'[s].pc \in {"reload", "collect", "recs"}
        PROVE  s # t /\ th'[s] = th[s]
    BY <1>14, <1>15, <2>1, Zenon
  <2>2. ASSUME NEW s \in Thread, th[s].pc = "collect"
        PROVE  th[s].ext # e
    BY <1>3, <1>4, <2>2, RegionFact, Zenon DEF LInv, ScanInv
  <2>3. ASSUME NEW s \in Thread, th'[s].pc = "give"
        PROVE  th'[s].got \in ext \ recs /\ th'[s].got \notin Raw
    BY <1>5, <1>14, <2>3, Zenon DEF LInv, ScanInv
  <2>4. \A s \in Thread : Releasing'[s] \subseteq Releasing[s] /\ Pending'[s] \subseteq tok
    BY <1>16, Zenon DEF LInv, ScanInv
  <2> QED BY <1>1, <1>17, <2>1, <2>2, <2>3, <2>4 DEF LInv, ScanInv
<1>25. PairInv' /\ HandInv'
  BY <1>1, <1>2, <1>5, <1>14, <1>15, <1>16, AtWork, SMTT(30) DEF LInv, PairInv, HandInv
<1>26. PlaceInv'
  BY <1>1, <1>17, <1>19, <1>20, Zenon DEF LInv, PlaceInv
<1>27. BinInv'
  BY <1>1, <1>3, <1>5, <1>12, <1>17, SMTT(30) DEF LInv, TypeOK, BinInv, Bin
<1>28. AccountInv'
  BY <1>1, <1>3, <1>9, <1>12, <1>13, <1>17, <1>19, RegionFact DEF LInv, AccountInv
<1>29. TokInv'
  BY <1>1, <1>16, <1>17, Zenon DEF LInv, TokInv
<1> QED BY <1>21, <1>22, <1>23, <1>24, <1>25, <1>26, <1>27, <1>28, <1>29, Zenon DEF LInv

(* The third step of release preserves the invariant: the empty extent     *)
(* goes back to ExtentCase, when no region of it is in any hand.           *)
LEMMA ReleaseExtentStep ==
    ASSUME LInv, NEW t \in Thread, ReleaseExtent(t)
    PROVE  LInv'
<1> DEFINE e == th[t].got
<1>1. /\ known' = known /\ tok' = tok /\ null' = null
      /\ ext' = ext \ {e} /\ used' = used /\ rcase' = rcase /\ bins' = bins /\ alloc' = alloc
      /\ mode' = mode /\ half' = half /\ consistent' = consistent /\ recs' = recs
      /\ scan' = scan /\ call' = call /\ th[t].pc = "give"
  BY Zenon DEF ReleaseExtent, rec
<1>2. /\ mode \in {"open", "recover"} /\ half = {} /\ ~ consistent
      /\ mode = "open" => th[t].ret = "idle" /\ th[t].regs = {}
      /\ mode = "recover" => th[t].ret = "rebuild" /\ t \in call.worker
  BY <1>1, Zenon DEF LInv, ModeInv, ThreadInv, TypeOK
<1>3. e \in ext /\ e \in Extent /\ e \notin recs /\ e \notin Raw /\ e \in Given
  BY <1>1, AtWork, Zenon DEF LInv, ScanInv, TypeOK
<1>4. /\ th' \in [Thread -> Local]
      /\ th'[t].pc = th[t].ret /\ th'[t].regs = th[t].regs
      /\ \A s \in Thread : s # t => th'[s] = th[s]
  <2>1. th' = [th EXCEPT ![t].pc = th[t].ret] /\ th[t].ret \in {"idle", "rebuild"}
    BY <1>2, Zenon DEF ReleaseExtent
  <2> QED BY <2>1, PcOnly, Zenon DEF LInv
<1>5. th'[t].pc \in {"idle", "rebuild"}
  BY <1>2, <1>4, Zenon
<1>6. \A s \in Thread : Releasing'[s] = Releasing[s] /\ Pending'[s] = Pending[s]
  BY <1>1, <1>4, <1>5, Zenon DEF Releasing, Pending
<1>7. Raw' = Raw
  BY <1>1, <1>4, <1>5, SameRaw, ZenonT(30)
<1>8. Given' = Given \ {e}
  BY <1>1, <1>4, <1>5 DEF Given, LInv, PairInv
<1>9. Binned' = Binned /\ Claimed' = Claimed /\ Out' = Out
  BY <1>1, <1>6, Zenon DEF Binned, Claimed, Out
<1> HIDE DEF e
<1>10. TypeOK'
  BY <1>1, <1>4, Zenon DEF LInv, TypeOK
<1>11. ModeInv'
  BY <1>1, <1>2, <1>3, Zenon DEF LInv, ModeInv
<1>12. ThreadInv'
  BY <1>1, <1>2, <1>4, <1>5, ZenonT(30) DEF LInv, ThreadInv
<1>13. ScanInv'
  <2>1. ASSUME NEW s \in Thread, s # t, th[s].pc \in {"reload", "collect"} PROVE th[s].ext # e
    BY <1>3, <2>1, AtWork DEF LInv, ScanInv
  <2>2. ASSUME NEW s \in Thread, s # t, th[s].pc = "recs" PROVE th[s].got # e
    BY <1>3, <2>2, AtWork, Zenon
  <2>3. ASSUME NEW s \in Thread, s # t, th[s].pc = "give" PROVE th[s].got # e
    BY <1>1, <2>3, Zenon DEF LInv, PairInv, e
  <2>4. ASSUME NEW s \in Thread, th'[s].pc \in {"reload", "collect", "recs", "give"}
        PROVE  s # t /\ th'[s] = th[s]
    BY <1>4, <1>5, <2>4, ZenonT(30)
  <2> QED BY <1>1, <1>6, <1>7, <1>8, <2>1, <2>2, <2>3, <2>4, SMTT(30) DEF LInv, ScanInv
<1>14. PairInv' /\ HandInv'
  BY <1>1, <1>4, <1>5, <1>6 DEF LInv, PairInv, HandInv
<1>15. PlaceInv' /\ BinInv'
  BY <1>1, <1>3, <1>7, <1>8, <1>9 DEF LInv, PlaceInv, BinInv
<1>16. AccountInv'
  BY <1>1, <1>7, <1>8, <1>9, Zenon DEF LInv, AccountInv
<1>17. TokInv'
  BY <1>1, <1>3, <1>6, <1>7, InHand, SMTT(30) DEF LInv, TypeOK, TokInv, PlaceInv
<1> QED BY <1>10, <1>11, <1>12, <1>13, <1>14, <1>15, <1>16, <1>17, Zenon DEF LInv
-----------------------------------------------------------------------------
(***************************************************************************)
(* The inductive invariant of LargeBin is preserved by the scan of a       *)
(* recovery.                                                               *)
(***************************************************************************)

(* A worker that takes the next extent of the scan preserves the           *)
(* invariant: no other worker gets that extent, and a worker without one   *)
(* is done only when the scan has passed them all.                         *)
LEMMA RecoverNextStep ==
    ASSUME LInv, NEW t \in Thread, RecoverNext(t)
    PROVE  LInv'
<1>1. /\ known' = known /\ tok' = tok /\ null' = null
      /\ ext' = ext /\ used' = used /\ rcase' = rcase /\ bins' = bins /\ alloc' = alloc
      /\ mode' = mode /\ half' = half /\ consistent' = consistent /\ recs' = recs
      /\ call' = call /\ th[t].pc = "idle" /\ mode = "recover" /\ t \in call.worker
  BY Zenon DEF RecoverNext, pool
<1>2. /\ th[t].regs = {} /\ scan \in Nat /\ used \in Nat
      /\ \A e \in ext : e < used /\ e \in Nat /\ e \in Extent
  BY <1>1, ExtentFact DEF LInv, TypeOK, ThreadInv, ModeInv
<1>3. /\ th' \in [Thread -> Local] /\ th'[t].pc \in {"done", "reload"} /\ th'[t].regs = {}
      /\ \A s \in Thread : s # t => th'[s] = th[s]
      /\ scan' \in Nat
      /\ th'[t].pc = "done" => scan' = used /\ \A d \in ext \ recs : d < scan
      /\ th'[t].pc = "reload" => /\ th'[t].ext \in ext \ recs /\ scan <= th'[t].ext
                                 /\ scan' = th'[t].ext + 1
                                 /\ \A d \in ext \ recs : scan <= d => th'[t].ext <= d
  <2> DEFINE left == {e \in ext \ recs : scan <= e /\ e < used}
  <2>1. CASE left = {} /\ scan' = used /\ th' = [th EXCEPT ![t].pc = "done"]
    <3>1. th' \in [Thread -> Local] /\ th'[t].pc = "done" /\ th'[t].regs = {}
          /\ \A s \in Thread : s # t => th'[s] = th[s]
      BY <1>2, <2>1, PcOnly, Zenon DEF LInv
    <3>2. \A d \in ext \ recs : d < scan
      BY <1>2, <2>1
    <3> QED BY <1>2, <2>1, <3>1, <3>2, Zenon
  <2>2. CASE \E e \in left : /\ \A d \in left : e <= d
                             /\ scan' = After(e)
                             /\ th' = [th EXCEPT ![t].pc = "reload", ![t].ext = e]
    <3>0. PICK e \in left : /\ \A d \in left : e <= d
                            /\ scan' = After(e)
                            /\ th' = [th EXCEPT ![t].pc = "reload", ![t].ext = e]
      BY <2>2, Zenon
    <3>1. e \in ext \ recs /\ scan <= e /\ e \in Extent /\ e \in Nat /\ scan' = e + 1
      BY <1>2, <3>0, Zenon DEF After
    <3>2. th' \in [Thread -> Local] /\ th'[t].pc = "reload" /\ th'[t].ext = e /\ th'[t].regs = {}
          /\ \A s \in Thread : s # t => th'[s] = th[s]
      BY <1>2, <3>0, <3>1, PcExt, Zenon DEF LInv
    <3>3. \A d \in ext \ recs : scan <= d => e <= d
      BY <1>2, <3>0, Zenon
    <3>4. scan' \in Nat /\ th'[t].ext \in ext \ recs /\ scan <= th'[t].ext /\ scan' = th'[t].ext + 1
      BY <3>1, <3>2
    <3>5. \A d \in ext \ recs : scan <= d => th'[t].ext <= d
      BY <3>2, <3>3, Zenon
    <3> QED BY <3>2, <3>4, <3>5, Zenon
  <2> QED BY <2>1, <2>2, Zenon DEF RecoverNext
<1>4. scan <= scan' \/ th'[t].pc = "done"
  BY <1>2, <1>3
<1>5. \A s \in Thread : Releasing'[s] = Releasing[s] /\ Pending'[s] = Pending[s]
  BY <1>1, <1>2, <1>3, Zenon DEF Releasing, Pending
<1>6. Given' = Given
  BY <1>1, <1>3, SameGiven, Zenon
<1>7. Binned' = Binned /\ Claimed' = Claimed /\ Out' = Out
  BY <1>1, <1>5, Zenon DEF Binned, Claimed, Out
<1>8. \A e \in ext : e \in Raw' <=> e \in Raw
  <2>1. CASE th'[t].pc = "done"
    BY <1>1, <1>2, <1>3, <2>1 DEF Raw
  <2>2. CASE th'[t].pc = "reload"
    BY <1>1, <1>2, <1>3, <2>2 DEF Raw
  <2> QED BY <1>3, <2>1, <2>2, Zenon
<1>9. TypeOK' /\ ModeInv'
  BY <1>1, <1>3, Zenon DEF LInv, TypeOK, ModeInv
<1>10. ThreadInv'
  BY <1>1, <1>2, <1>3, SMTT(30) DEF LInv, ThreadInv
<1>11. ScanInv'
  <2>1. ASSUME NEW s \in Thread, s # t, th[s].pc \in {"reload", "collect"} PROVE th[s].ext < scan'
    BY <1>2, <1>3, <2>1 DEF LInv, ScanInv
  <2>2. th'[t].pc = "reload" => th'[t].ext < scan'
    BY <1>2, <1>3
  <2> QED BY <1>1, <1>3, <1>5, <1>6, <1>8, <2>1, <2>2, SMTT(30) DEF LInv, ScanInv
<1>12. PairInv'
  <2>1. ASSUME NEW s \in Thread, s # t, th[s].pc \in {"reload", "collect"}, th'[t].pc = "reload"
        PROVE  th[s].ext # th'[t].ext
    BY <1>2, <1>3, <2>1 DEF LInv, ScanInv
  <2> QED BY <1>3, <1>5, <2>1 DEF LInv, PairInv
<1>13. HandInv'
  BY <1>1, <1>5, Zenon DEF LInv, HandInv
<1>14. PlaceInv' /\ BinInv' /\ AccountInv'
  BY <1>1, <1>6, <1>7, <1>8 DEF LInv, PlaceInv, BinInv, AccountInv
<1>15. TokInv'
  BY <1>1, <1>5, <1>8, Zenon DEF LInv, TokInv
<1> QED BY <1>9, <1>10, <1>11, <1>12, <1>13, <1>14, <1>15, Zenon DEF LInv

(* The reload of an extent from its tokens preserves the invariant: its    *)
(* busy regions are pending, its others free in the bin.                   *)
LEMMA RecoverReloadStep ==
    ASSUME LInv, AcquireAlone, NEW t \in Thread, RecoverReload(t)
    PROVE  LInv'
<1> DEFINE e == th[t].ext
<1>1. /\ known' = known /\ tok' = tok /\ null' = null
      /\ ext' = ext /\ used' = used /\ rcase' = rcase
      /\ mode' = mode /\ half' = half /\ consistent' = consistent /\ recs' = recs
      /\ scan' = scan /\ call' = call /\ th[t].pc = "reload" /\ mode = "recover" /\ th[t].regs = {}
  BY AtWork, Zenon DEF RecoverReload, pool, rec, LInv, ThreadInv
<1>2. e \in ext /\ e \in Extent /\ e \notin recs /\ e < scan /\ e \in Raw /\ rcase[e] \in Case
  BY <1>1, AtWork, Zenon DEF LInv, ScanInv, TypeOK
<1>3. /\ th' \in [Thread -> Local] /\ th'[t].pc = "collect" /\ th'[t].ext = e /\ th'[t].regs = {}
      /\ \A s \in Thread : s # t => th'[s] = th[s]
  BY <1>1, PcOnly, Zenon DEF LInv, RecoverReload
<1>4. \A x \in Region : x[1] = e => x \notin Out
  BY <1>1, <1>2, Zenon DEF LInv, PlaceInv
<1>5. e \notin Given /\ Given' = Given
  <2>1. Given' = Given
    BY <1>1, <1>3, SameGiven, Zenon
  <2>2. e \notin Given
    BY <1>2, Zenon DEF Given, LInv, ScanInv
  <2> QED BY <2>1, <2>2, Zenon
<1>6. /\ \A s \in Thread : Releasing'[s] = Releasing[s]
      /\ Pending[t] = {} /\ Pending'[t] = Regions(e) \intersect tok
      /\ \A s \in Thread : s # t => Pending'[s] = Pending[s]
  BY <1>1, <1>3, ZenonT(30) DEF Releasing, Pending
<1>7. /\ Claimed' = Claimed \union (Regions(e) \intersect tok)
      /\ Out' = Out \union (Regions(e) \intersect tok)
  BY <1>1, <1>6, RegionFact DEF Claimed, Out
<1>8. \A d \in Extent : d \in Raw' <=> d \in Raw /\ d # e
  <2>1. ASSUME NEW s \in Thread, s # t, th[s].pc \in {"reload", "recs"}
        PROVE  /\ th[s].pc = "reload" => th[s].ext # e
               /\ th[s].pc # "recs"
    <3>1. th[s].pc # "recs"
      BY <1>1, <2>1, Alone, Zenon DEF LInv, ScanInv
    <3> QED BY <1>1, <2>1, <3>1, Zenon DEF LInv, PairInv
  <2>2. e \notin Raw'
    <3>1. e \in Nat /\ scan \in Nat
      BY <1>2, ExtentFact, Zenon DEF LInv, TypeOK
    <3> HIDE DEF e
    <3>2. ~ (scan' <= e)
      BY <1>1, <1>2, <3>1
    <3>3. ASSUME NEW s \in Thread
          PROVE  ~ (th'[s].pc = "reload" /\ th'[s].ext = e) /\ th'[s].pc # "recs"
      BY <1>3, <2>1, Zenon
    <3> QED BY <1>1, <3>2, <3>3, Zenon DEF Raw
  <2>3. ASSUME NEW d \in Extent, d # e PROVE d \in Raw' <=> d \in Raw
    BY <1>1, <1>3, <2>3, ZenonT(30) DEF Raw
  <2> QED BY <1>2, <2>2, <2>3, Zenon
<1>9. \A d \in Case, a \in Bin : e \notin bins[d][a]
  BY <1>2 DEF LInv, BinInv
<1>10. /\ bins' \in [Case -> [Bin -> SUBSET Extent]] /\ alloc' \in [Extent -> SUBSET Region]
       /\ \A f \in Extent : f # e => alloc'[f] = alloc[f]
       /\ \A d \in Case, a \in Bin, f \in Extent :
             f # e => (f \in bins'[d][a] <=> f \in bins[d][a])
       /\ \A d \in Case, a \in Bin : e \in bins'[d][a] => d = rcase[e] /\ a = "normal"
       /\ \/ alloc'[e] = Regions(e) \intersect tok
          \/ Regions(e) \subseteq tok /\ \A d \in Case, a \in Bin : e \notin bins'[d][a]
       /\ (\E d \in Case, a \in Bin : e \in bins'[d][a]) \/ Regions(e) \subseteq tok
  <2>1. CASE Regions(e) \subseteq tok /\ UNCHANGED <<bins, alloc>>
    BY <1>9, <2>1, Zenon DEF LInv, TypeOK
  <2>2. CASE Reload(e)
    <3>1. /\ alloc' = [alloc EXCEPT ![e] = Regions(e) \intersect tok]
          /\ bins' = [bins EXCEPT ![rcase[e]]["normal"] = @ \union {e}]
      BY <2>2, Zenon DEF Reload
    <3>2. alloc' \in [Extent -> SUBSET Region] /\ alloc'[e] = Regions(e) \intersect tok
          /\ \A f \in Extent : f # e => alloc'[f] = alloc[f]
      BY <1>2, <3>1, RegionFact, ZenonT(30) DEF LInv, TypeOK
    <3> DEFINE c == rcase[e]
               more == bins[c]["normal"] \union {e}
    <3>3. c \in Case /\ "normal" \in Bin /\ more \subseteq Extent
      BY <1>2 DEF LInv, TypeOK, Bin
    <3>4. bins' = [bins EXCEPT ![c]["normal"] = more] /\ e \in more
          /\ \A f \in Extent : f # e => (f \in more <=> f \in bins[c]["normal"])
      BY <3>1, Zenon
    <3> HIDE DEF c, more, e
    <3>5. bins' \in [Case -> [Bin -> SUBSET Extent]] /\ bins'[c]["normal"] = more
          /\ \A d \in Case, a \in Bin : d # c \/ a # "normal" => bins'[d][a] = bins[d][a]
      BY <3>3, <3>4, Zenon DEF LInv, TypeOK
    <3>6. \A d \in Case, a \in Bin, f \in Extent :
             f # e => (f \in bins'[d][a] <=> f \in bins[d][a])
      BY <3>4, <3>5, Zenon
    <3>7. \A d \in Case, a \in Bin : e \in bins'[d][a] => d = c /\ a = "normal"
      BY <1>9, <3>5, Zenon
    <3>8. \E d \in Case, a \in Bin : e \in bins'[d][a]
      BY <3>3, <3>4, <3>5, Zenon
    <3> QED BY <3>2, <3>5, <3>6, <3>7, <3>8, Zenon DEF c
  <2> QED BY <2>1, <2>2, Zenon DEF RecoverReload
<1> HIDE DEF e
<1>11. /\ \A f \in Extent : f # e => (f \in Binned' <=> f \in Binned)
       /\ e \in Binned' => alloc'[e] = Regions(e) \intersect tok
       /\ e \notin Binned' => Regions(e) \subseteq tok
  BY <1>2, <1>10, Zenon DEF Binned
<1>12. TypeOK' /\ ModeInv'
  BY <1>1, <1>3, <1>10, Zenon DEF LInv, TypeOK, ModeInv
<1>13. ThreadInv'
  BY <1>1, <1>3, Zenon DEF LInv, ThreadInv
<1>14. ScanInv'
  <2>1. \A x \in Regions(e) : x \notin null /\ x \notin known /\ \A s \in Thread : x \notin Releasing[s]
    BY <1>4, InHand, RegionFact, Zenon
  <2>2. \A s \in Thread : Pending'[s] \subseteq tok
    BY <1>6, Zenon DEF LInv, ScanInv
  <2>3. ASSUME NEW s \in Thread, th'[s].pc = "give" PROVE th'[s].got \notin Raw'
    BY <1>3, <1>8, <2>3, LocalFact, ZenonT(30) DEF LInv, ScanInv
  <2> QED BY <1>1, <1>2, <1>3, <1>5, <1>6, <2>1, <2>2, <2>3, SMTT(30) DEF LInv, ScanInv
<1>15. PairInv'
  <2>1. ASSUME NEW s \in Thread, s # t PROVE Pending[s] \intersect Regions(e) = {}
    BY <1>4, InHand, RegionFact, Zenon
  <2>2. th[t].ext = e
    BY Zenon DEF e
  <2>3. \A s \in Thread :
          /\ th'[s].pc \in {"reload", "collect"} =>
                th[s].pc \in {"reload", "collect"} /\ th'[s].ext = th[s].ext
          /\ th'[s].pc = "give" => th[s].pc = "give" /\ th'[s].got = th[s].got
    BY <1>1, <1>3, <2>2, Zenon
  <2>4. PairInv
    BY Zenon DEF LInv
  <2>5. ASSUME NEW s \in Thread, NEW u \in Thread, s # u
        PROVE  Pending'[s] \intersect Pending'[u] = {}
    <3>1. CASE s = t
      BY <3>1, <2>1, <2>5, <1>6, Zenon
    <3>2. CASE u = t
      BY <3>2, <2>1, <2>5, <1>6, Zenon
    <3>3. CASE s # t /\ u # t
      BY <3>3, <2>4, <2>5, <1>6, Zenon DEF PairInv
    <3> QED BY <3>1, <3>2, <3>3, Zenon
  <2>6. ASSUME NEW s \in Thread, NEW u \in Thread, s # u
        PROVE  /\ th'[s].pc \in {"reload", "collect"} /\ th'[u].pc \in {"reload", "collect"} =>
                     th'[s].ext # th'[u].ext
               /\ th'[s].pc = "give" /\ th'[u].pc = "give" => th'[s].got # th'[u].got
               /\ Releasing'[s] \intersect Releasing'[u] = {}
    <3>1. /\ th[s].pc \in {"reload", "collect"} /\ th[u].pc \in {"reload", "collect"} =>
                th[s].ext # th[u].ext
          /\ th[s].pc = "give" /\ th[u].pc = "give" => th[s].got # th[u].got
          /\ Releasing[s] \intersect Releasing[u] = {}
      BY <2>4, <2>6, Zenon DEF PairInv
    <3>2. Releasing'[s] = Releasing[s] /\ Releasing'[u] = Releasing[u]
      BY <1>6, Zenon
    <3> QED BY <3>1, <3>2, <2>3, Zenon
  <2> QED BY <2>5, <2>6, ZenonT(30) DEF PairInv
<1>16. HandInv'
  <2>1. HandInv /\ known' = known /\ null' = null
    BY <1>1, Zenon DEF LInv
  <2>2. \A x \in Regions(e) : x \notin null /\ x \notin known /\ \A s \in Thread : x \notin Releasing[s]
    BY <1>4, InHand, RegionFact, Zenon
  <2>3. ASSUME NEW s \in Thread, NEW u \in Thread
        PROVE  /\ Pending'[s] \intersect (known \union null) = {}
               /\ Releasing[u] \intersect Pending'[s] = {}
    <3>1. CASE s = t
      BY <3>1, <2>2, <1>6, Zenon
    <3>2. CASE s # t
      BY <3>2, <2>1, <1>6, ZenonT(30) DEF HandInv
    <3> QED BY <3>1, <3>2, Zenon
  <2> QED BY <1>6, <2>1, <2>3, ZenonT(30) DEF HandInv
<1>17. PlaceInv'
  BY <1>1, <1>2, <1>5, <1>7, <1>8, RegionFact, SMTT(30) DEF LInv, PlaceInv, TypeOK
<1>18. BinInv'
  BY <1>1, <1>2, <1>5, <1>8, <1>10 DEF LInv, TypeOK, BinInv
<1>19. AccountInv'
  <2>1. ASSUME NEW x \in Region, x[1] = e
        PROVE  IF e \in Binned' THEN x \in alloc'[e] <=> x \in Out' ELSE x \in Out'
    BY <1>4, <1>7, <1>11, <2>1, RegionFact, Zenon
  <2>2. ASSUME NEW x \in Region, x[1] # e
        PROVE  /\ x \in Out' <=> x \in Out
               /\ x[1] \in Raw' <=> x[1] \in Raw
               /\ x[1] \in Binned' <=> x[1] \in Binned
               /\ alloc'[x[1]] = alloc[x[1]]
    BY <1>7, <1>8, <1>10, <1>11, <2>2, RegionFact, ZenonT(30)
  <2> QED BY <1>1, <1>5, <2>1, <2>2, Zenon DEF LInv, AccountInv
<1>20. TokInv'
  BY <1>1, <1>6, <1>8, RegionFact DEF LInv, TokInv, TypeOK
<1> QED BY <1>12, <1>13, <1>14, <1>15, <1>16, <1>17, <1>18, <1>19, <1>20, Zenon DEF LInv

(* The collection of the busy regions of an extent preserves the           *)
(* invariant: they become the ones to give to rebuild.                     *)
LEMMA RecoverCollectStep ==
    ASSUME LInv, NEW t \in Thread, RecoverCollect(t)
    PROVE  LInv'
<1>1. /\ known' = known /\ tok' = tok /\ null' = null
      /\ ext' = ext /\ used' = used /\ rcase' = rcase /\ bins' = bins /\ alloc' = alloc
      /\ mode' = mode /\ half' = half /\ consistent' = consistent /\ recs' = recs
      /\ scan' = scan /\ call' = call /\ th[t].pc = "collect"
  BY Zenon DEF RecoverCollect, pool, rec
<1>2. /\ th' \in [Thread -> Local] /\ th'[t].pc = "rebuild"
      /\ th'[t].regs = Regions(th[t].ext) \intersect tok
      /\ \A s \in Thread : s # t => th'[s] = th[s]
  <2>1. th \in [Thread -> Local] /\ th[t] \in Local /\ tok \subseteq Region
    BY Zenon DEF LInv, TypeOK
  <2> DEFINE r == Regions(th[t].ext) \intersect tok
             l == [th[t] EXCEPT !.pc = "rebuild", !.regs = r]
  <2>2. r \in SUBSET Region
    BY <2>1, Zenon
  <2>3. th' = [th EXCEPT ![t] = l]
    BY <2>1, Zenon DEF RecoverCollect, Local
  <2> HIDE DEF r
  <2>4. l \in Local /\ l.pc = "rebuild" /\ l.regs = r
    BY <2>1, <2>2, Zenon DEF Local
  <2> HIDE DEF l
  <2>5. th' \in [Thread -> Local] /\ th'[t] = l /\ \A s \in Thread : s # t => th'[s] = th[s]
    BY <2>1, <2>3, <2>4, Zenon
  <2> QED BY <2>4, <2>5, Zenon DEF r
<1>3. /\ \A s \in Thread : Releasing'[s] = Releasing[s] /\ Pending'[s] = Pending[s]
      /\ Given' = Given /\ Raw' = Raw
  BY <1>1, <1>2, SameRaw, SameGiven, Zenon DEF Releasing, Pending
<1>4. Binned' = Binned /\ Claimed' = Claimed /\ Out' = Out
  BY <1>1, <1>3, Zenon DEF Binned, Claimed, Out
<1>5. TypeOK' /\ ModeInv'
  BY <1>1, <1>2, Zenon DEF LInv, TypeOK, ModeInv
<1>6. ThreadInv'
  BY <1>1, <1>2, Zenon DEF LInv, ThreadInv, TypeOK
<1>7. ScanInv'
  BY <1>1, <1>2, <1>3, SameScan, Zenon
<1>8. PairInv' /\ HandInv'
  BY <1>1, <1>2, <1>3, SamePair, SameHand, Zenon
<1>9. PlaceInv' /\ BinInv' /\ AccountInv' /\ TokInv'
  BY <1>1, <1>3, <1>4, SamePlace, Zenon
<1> QED BY <1>5, <1>6, <1>7, <1>8, <1>9, Zenon DEF LInv

(* A call of rebuild preserves the invariant: the region passes from the   *)
(* worker to the application.                                              *)
LEMMA RebuildRegionStep ==
    ASSUME LInv, NEW t \in Thread, RebuildRegion(t)
    PROVE  LInv'
<1>1. /\ tok' = tok /\ null' = null
      /\ ext' = ext /\ used' = used /\ rcase' = rcase /\ bins' = bins /\ alloc' = alloc
      /\ mode' = mode /\ half' = half /\ consistent' = consistent /\ recs' = recs
      /\ scan' = scan /\ call' = call /\ th[t].pc = "rebuild" /\ mode = "recover"
  BY AtWork, Zenon DEF RebuildRegion, pool, rec
<1>2. PICK x \in th[t].regs : known' = known \union {x} /\ th' = [th EXCEPT ![t].regs = @ \ {x}]
  BY Zenon DEF RebuildRegion
<1>3. x \in Region /\ x \in Pending[t] /\ x \in tok
  BY <1>1, LocalFact, Zenon DEF LInv, Pending, ScanInv
<1>4. /\ th' \in [Thread -> Local] /\ th'[t].pc = "rebuild" /\ th'[t].regs = th[t].regs \ {x}
      /\ \A s \in Thread : s # t => th'[s] = th[s]
  <2>1. th \in [Thread -> Local] /\ th[t] \in Local
    BY Zenon DEF LInv, TypeOK
  <2> DEFINE r == th[t].regs \ {x}
             l == [th[t] EXCEPT !.regs = r]
  <2>2. r \in SUBSET Region
    BY LocalFact, Zenon DEF LInv
  <2>3. th' = [th EXCEPT ![t] = l]
    BY <1>2, <2>1, Zenon DEF Local
  <2> HIDE DEF r
  <2>4. l \in Local /\ l.pc = th[t].pc /\ l.regs = r
    BY <2>1, <2>2, Zenon DEF Local
  <2> HIDE DEF l
  <2>5. th' \in [Thread -> Local] /\ th'[t] = l /\ \A s \in Thread : s # t => th'[s] = th[s]
    BY <2>1, <2>3, <2>4, Zenon
  <2> QED BY <1>1, <2>4, <2>5, Zenon DEF r
<1>5. /\ \A s \in Thread : Releasing'[s] = Releasing[s]
      /\ Pending'[t] = Pending[t] \ {x}
      /\ \A s \in Thread : s # t => Pending'[s] = Pending[s]
      /\ Given' = Given /\ Raw' = Raw
  BY <1>1, <1>4, SameRaw, SameGiven, Zenon DEF Releasing, Pending
<1>6. Binned' = Binned /\ Claimed' = Claimed /\ Out' = Out
  BY <1>1, <1>2, <1>3, <1>5 DEF Binned, Claimed, Out
<1>7. TypeOK' /\ ModeInv'
  BY <1>1, <1>2, <1>3, <1>4, Zenon DEF LInv, TypeOK, ModeInv
<1>8. ThreadInv'
  BY <1>1, <1>4, Zenon DEF LInv, ThreadInv, TypeOK
<1>9. ScanInv'
  <2>1. ASSUME NEW s \in Thread, th[s].pc = "collect" PROVE s # t /\ x \notin Regions(th[s].ext)
    BY <1>1, <1>3, <2>1, Zenon DEF LInv, PairInv, Pending
  <2>2. ASSUME NEW s \in Thread, th'[s].pc \in {"reload", "collect", "recs", "give"}
        PROVE  th'[s] = th[s]
    BY <1>4, <2>2, Zenon
  <2>3. \A s \in Thread : Pending'[s] \subseteq tok
    BY <1>5, Zenon DEF LInv, ScanInv
  <2>4. ScanInv
    BY Zenon DEF LInv
  <2>5. ASSUME NEW s \in Thread, th'[s].pc = "collect"
        PROVE  /\ th'[s].ext \notin Given'
               /\ \A y \in Regions(th'[s].ext) :
                     y \notin null' /\ y \notin known' /\ \A u \in Thread : y \notin Releasing'[u]
    <3>1. th'[s] = th[s]
      BY <2>2, <2>5, Zenon
    <3>2. /\ th[s].ext \notin Given /\ x \notin Regions(th[s].ext)
          /\ \A y \in Regions(th[s].ext) :
                y \notin null /\ y \notin known /\ \A u \in Thread : y \notin Releasing[u]
      BY <3>1, <2>1, <2>4, <2>5, Zenon DEF ScanInv
    <3>3. null' = null /\ known' = known \union {x} /\ Given' = Given
      BY <1>1, <1>2, <1>5, Zenon
    <3>4. \A u \in Thread : Releasing'[u] = Releasing[u]
      BY <1>5, Zenon
    <3> QED BY <3>1, <3>2, <3>3, <3>4, Zenon
  <2>6. ASSUME NEW s \in Thread
        PROVE  /\ th'[s].pc \in {"reload", "collect"} =>
                     th'[s].ext \in ext' \ recs' /\ th'[s].ext < scan'
               /\ th'[s].pc = "recs" =>
                     /\ th'[s].got \in ext' \ recs' /\ "acquire" \in call'.does
                     /\ rcase'[th'[s].got] = CaseOf[s] /\ \A y \in tok' : y[1] # th'[s].got
               /\ th'[s].pc = "give" => th'[s].got \in ext' \ recs' /\ th'[s].got \notin Raw'
    <3>1. /\ th[s].pc \in {"reload", "collect"} =>
                th[s].ext \in ext \ recs /\ th[s].ext < scan
          /\ th[s].pc = "recs" =>
                /\ th[s].got \in ext \ recs /\ "acquire" \in call.does
                /\ rcase[th[s].got] = CaseOf[s] /\ \A y \in tok : y[1] # th[s].got
          /\ th[s].pc = "give" => th[s].got \in ext \ recs /\ th[s].got \notin Raw
      BY <2>4, Zenon DEF ScanInv
    <3>2. /\ ext' = ext /\ recs' = recs /\ scan' = scan /\ call' = call /\ rcase' = rcase
          /\ tok' = tok /\ Raw' = Raw
      BY <1>1, <1>5, Zenon
    <3>3. CASE th'[s].pc \in {"reload", "collect", "recs", "give"}
      <4>1. th'[s] = th[s]
        BY <3>3, <2>2, Zenon
      <4> QED BY <4>1, <3>1, <3>2, Zenon
    <3>4. CASE th'[s].pc \notin {"reload", "collect", "recs", "give"}
      BY <3>4, Zenon
    <3> QED BY <3>3, <3>4, Zenon
  <2>7. tok' = tok
    BY <1>1, Zenon
  <2> QED BY <2>3, <2>5, <2>6, <2>7, ZenonT(30) DEF ScanInv
<1>10. PairInv'
  <2>1. \A s \in Thread : Releasing'[s] \subseteq Releasing[s] /\ Pending'[s] \subseteq Pending[s]
    BY <1>5, Zenon
  <2> QED BY <1>4, <2>1, SamePair, Zenon
<1>11. HandInv'
  BY <1>1, <1>2, <1>3, <1>5, SMTT(30) DEF LInv, PairInv, HandInv
<1>12. PlaceInv' /\ BinInv' /\ AccountInv'
  BY <1>1, <1>5, <1>6 DEF LInv, PlaceInv, BinInv, AccountInv
<1>13. TokInv'
  BY <1>1, <1>2, <1>3, <1>5, Zenon DEF LInv, TokInv
<1> QED BY <1>7, <1>8, <1>9, <1>10, <1>11, <1>12, <1>13, Zenon DEF LInv

(* The end of an extent preserves the invariant: the worker goes on to the *)
(* next one.                                                               *)
LEMMA RebuildDoneStep ==
    ASSUME LInv, NEW t \in Thread, RebuildDone(t)
    PROVE  LInv'
<1>1. /\ known' = known /\ tok' = tok /\ null' = null
      /\ ext' = ext /\ used' = used /\ rcase' = rcase /\ bins' = bins /\ alloc' = alloc
      /\ mode' = mode /\ half' = half /\ consistent' = consistent /\ recs' = recs
      /\ scan' = scan /\ call' = call /\ th[t].pc = "rebuild" /\ th[t].regs = {}
  BY Zenon DEF RebuildDone, pool, rec
<1>2. /\ th' \in [Thread -> Local] /\ th'[t].pc = "idle" /\ th'[t].regs = {}
      /\ \A s \in Thread : s # t => th'[s] = th[s]
  BY <1>1, PcOnly, Zenon DEF LInv, RebuildDone
<1>3. /\ \A s \in Thread : Releasing'[s] = Releasing[s] /\ Pending'[s] = Pending[s]
      /\ Given' = Given /\ Raw' = Raw
  BY <1>1, <1>2, SameRaw, SameGiven, Zenon DEF Releasing, Pending
<1>4. Binned' = Binned /\ Claimed' = Claimed /\ Out' = Out
  BY <1>1, <1>3, Zenon DEF Binned, Claimed, Out
<1>5. TypeOK' /\ ModeInv'
  BY <1>1, <1>2, Zenon DEF LInv, TypeOK, ModeInv
<1>6. ThreadInv'
  BY <1>1, <1>2, Zenon DEF LInv, ThreadInv, TypeOK
<1>7. ScanInv'
  BY <1>1, <1>2, <1>3, SameScan, Zenon
<1>8. PairInv' /\ HandInv'
  BY <1>1, <1>2, <1>3, SamePair, SameHand, Zenon
<1>9. PlaceInv' /\ BinInv' /\ AccountInv' /\ TokInv'
  BY <1>1, <1>3, <1>4, SamePlace, Zenon
<1> QED BY <1>5, <1>6, <1>7, <1>8, <1>9, Zenon DEF LInv
-----------------------------------------------------------------------------
(***************************************************************************)
(* The first state; acquire, called by the application or by a rebuild     *)
(* callback; publish.                                                      *)
(***************************************************************************)

(* The invariant holds in a new pool, in which no extent is in use. *)
LEMMA InitInv == Init => LInv
<1> SUFFICES ASSUME Init PROVE LInv
  BY Zenon
<1>1. \A t \in Thread : th[t].pc = "idle" /\ th[t].regs = {}
  BY Zenon DEF Init, Idle
<1>2. TypeOK
  <2>1. th \in [Thread -> Local] /\ used \in 0 .. NExtent /\ scan \in Nat
    BY IdleTyped, LargeAssumption DEF Init
  <2>2. bins \in [Case -> [Bin -> SUBSET Extent]] /\ alloc \in [Extent -> SUBSET Region]
    BY Zenon DEF Init
  <2> QED BY <2>1, <2>2, Zenon DEF Init, TypeOK
<1>3. /\ \A t \in Thread : Releasing[t] = {} /\ Pending[t] = {}
      /\ Given = {} /\ Raw = {}
  BY <1>1, Zenon DEF Init, Releasing, Pending, Given, Raw
<1>4. Claimed = {} /\ Out = {}
  BY <1>3, Zenon DEF Init, Claimed, Out
<1>5. ModeInv /\ ThreadInv
  BY <1>1, Zenon DEF Init, ModeInv, ThreadInv
<1>6. ScanInv /\ PairInv /\ HandInv
  BY <1>1, <1>3, Zenon DEF Init, ScanInv, PairInv, HandInv
<1>7. PlaceInv /\ BinInv /\ AccountInv /\ TokInv
  BY <1>3, <1>4, RegionFact, Zenon DEF Init, PlaceInv, BinInv, AccountInv, TokInv
<1> QED BY <1>2, <1>5, <1>6, <1>7, Zenon DEF LInv

(* acquire preserves the invariant: it takes a region of an extent in the  *)
(* bin of its RunCase, or of a new extent that it adds to the bin.         *)
LEMMA AcquireStep ==
    ASSUME LInv, NEW t \in Thread, Acquire(t)
    PROVE  LInv'
<1> DEFINE c == CaseOf[t]
<1>0. c \in Case /\ "normal" \in Bin
  BY LargeAssumption, Zenon DEF Bin
<1>1. PICK e \in Extent, x \in Region :
         /\ \/ /\ e \in bins[c]["normal"] /\ AllocLarge(x, e, c, "normal", alloc[e])
               /\ UNCHANGED <<pool, tok>>
            \/ /\ bins[c]["normal"] = {} /\ ExtentAcquire(e, c)
               /\ AllocLarge(x, e, c, "normal", {})
         /\ known' = known \union {x}
  BY Zenon DEF Acquire
<1>2. /\ mode = "open" /\ mode' = "open" /\ th' = th /\ null' = null /\ half = {} /\ half' = {}
      /\ recs = {} /\ recs' = {} /\ scan' = scan /\ scan = 0 /\ ~consistent /\ consistent' = consistent
      /\ \A s \in Thread : th[s].pc \in {"idle", "bits", "give"} /\ th[s].regs = {}
  BY Zenon DEF LInv, ModeInv, ThreadInv, Acquire, rec
<1>3. Raw = {} /\ Raw' = {} /\ Given' = Given /\ Releasing' = Releasing
  BY <1>2, Zenon DEF Raw, Given, Releasing
<1>4. \A s \in Thread : Pending[s] = {} /\ Pending'[s] = {}
  BY <1>2, Zenon DEF Pending
<1>5. Claimed' = Claimed \union {x} /\ Out' = Out \union {x}
  BY <1>1, <1>2, <1>3, <1>4, Zenon DEF Claimed, Out
<1> DEFINE taken == IF e \in ext THEN alloc[e] ELSE {}
<1>6. /\ AllocLarge(x, e, c, "normal", taken)
      /\ \A d \in Case, a \in Bin : e \in bins[d][a] => d = c /\ a = "normal"
      /\ ext' = ext \union {e} /\ used' \in 0 .. NExtent /\ (\A d \in ext' : d < used')
      /\ tok' = tok /\ rcase' \in [Extent -> Case] /\ rcase'[e] = c
      /\ \A d \in Extent : d # e => rcase'[d] = rcase[d]
  <2>1. CASE e \in bins[c]["normal"] /\ AllocLarge(x, e, c, "normal", alloc[e]) /\ UNCHANGED <<pool, tok>>
    <3>1. e \in ext /\ rcase[e] = c
      BY <2>1, <1>0, Zenon DEF LInv, BinInv
    <3> QED BY <2>1, <3>1, <1>2 DEF LInv, TypeOK, ModeInv, BinInv, pool, Bin
  <2>2. CASE ExtentAcquire(e, c) /\ AllocLarge(x, e, c, "normal", {})
    <3>1. e \notin ext
      BY <2>2, <1>0, AcquiredFact, Zenon
    <3>2. \A d \in Case, a \in Bin : e \notin bins[d][a]
      BY <3>1, Zenon DEF LInv, BinInv
    <3> QED BY <2>2, <3>1, <3>2, <1>0, AcquiredFact, Zenon
  <2> QED BY <1>1, <2>1, <2>2, ZenonT(30)
<1>7. e \notin Given /\ (e \in ext => \A y \in Region : y[1] = e => (y \in taken <=> y \in Out))
  <2>1. e \in ext => e \in Binned
    BY <1>1, <1>0, AcquiredFact, Zenon DEF Binned
  <2>2. e \in bins[c]["normal"] => e \notin Given
    BY <1>0, Zenon DEF LInv, BinInv
  <2>3. e \notin ext => e \notin Given
    BY ZenonT(30) DEF LInv, ScanInv, Given
  <2>4. e \in bins[c]["normal"] \/ e \notin ext
    BY <1>1, <1>0, AcquiredFact, Zenon
  <2>5. e \notin Given
    BY <2>2, <2>3, <2>4, Zenon
  <2> QED BY <1>3, <2>1, <2>5, Zenon DEF LInv, AccountInv
<1>8. \A y \in Region : y[1] = e => (y \in taken <=> y \in Out)
  BY <1>7, Zenon DEF LInv, PlaceInv
<1>9. taken \in SUBSET Region
  BY Zenon DEF LInv, TypeOK
<1>10. /\ bins' \in [Case -> [Bin -> SUBSET Extent]] /\ alloc' \in [Extent -> SUBSET Region]
       /\ x[1] = e /\ x \notin taken
       /\ alloc'[e] = taken \union {x} /\ \A f \in Extent : f # e => alloc'[f] = alloc[f]
       /\ \A d \in Case, a \in Bin, f \in Extent :
             f # e => (f \in bins'[d][a] <=> f \in bins[d][a])
       /\ \A d \in Case, a \in Bin : e \in bins'[d][a] => d = c /\ a = "normal"
       /\ \A f \in Extent : f # e => (f \in Binned' <=> f \in Binned)
       /\ e \in Binned' \/ Regions(e) \subseteq taken \union {x}
  <2> HIDE DEF c, taken
  <2> QED BY <1>0, <1>6, <1>9, AllocFact DEF LInv
<1> HIDE DEF c, taken
<1>11. x \notin Out
  BY <1>8, <1>10, Zenon
<1>12. TypeOK'
  <2>1. ext' \subseteq Extent /\ tok' \subseteq Region /\ known' \subseteq Region
    BY <1>1, <1>6, Zenon DEF LInv, TypeOK
  <2> QED BY <1>2, <1>6, <1>10, <2>1, Zenon DEF LInv, TypeOK
<1>13. ModeInv'
  BY <1>2, <1>6, ZenonT(30) DEF LInv, ModeInv
<1>14. ThreadInv' /\ ScanInv'
  BY <1>2, <1>3, <1>4, <1>6, ZenonT(30) DEF LInv, ThreadInv, ScanInv
<1>15. PairInv' /\ HandInv'
  BY <1>1, <1>2, <1>3, <1>4, <1>11, InHand, SMTT(30) DEF LInv, PairInv, HandInv
<1>16. PlaceInv'
  BY <1>2, <1>3, <1>5, <1>6, <1>7, <1>10, Zenon DEF LInv, PlaceInv
<1>17. BinInv'
  <2> SUFFICES ASSUME NEW d \in Case, NEW a \in Bin, NEW f \in bins'[d][a]
               PROVE  /\ f \in ext' /\ rcase'[f] = d /\ f \notin Raw' /\ f \notin Given'
                      /\ (a = "recover" <=> f \in recs')
    BY Zenon DEF BinInv
  <2>1. f \in Extent
    BY <1>10
  <2>2. CASE f = e
    <3>1. d = c /\ a = "normal"
      BY <2>2, <1>10, Zenon
    <3>2. a # "recover"
      BY <3>1
    <3> QED BY <2>2, <3>1, <3>2, <1>2, <1>3, <1>6, <1>7, Zenon
  <2>3. CASE f # e
    <3>1. f \in bins[d][a]
      BY <2>1, <2>3, <1>10, Zenon
    <3>2. /\ f \in ext /\ rcase[f] = d /\ f \notin Raw /\ f \notin Given
          /\ (a = "recover" <=> f \in recs)
      BY <3>1, Zenon DEF LInv, BinInv
    <3> QED BY <2>1, <2>3, <3>2, <1>2, <1>3, <1>6, Zenon
  <2> QED BY <2>2, <2>3, Zenon
<1>18. AccountInv'
  <2> SUFFICES ASSUME NEW y \in Region, y[1] \in ext', y[1] \notin Raw', y[1] \notin Given'
               PROVE  IF y[1] \in Binned' THEN y \in alloc'[y[1]] <=> y \in Out' ELSE y \in Out'
    BY Zenon DEF AccountInv
  <2>1. y[1] \in Extent
    BY RegionFact, Zenon
  <2>2. CASE y[1] = e
    <3>1. y \in alloc'[e] <=> y \in Out'
      BY <2>2, <1>5, <1>8, <1>10, Zenon
    <3>2. e \in Binned' \/ y \in taken \union {x}
      BY <2>2, <1>10, RegionFact, Zenon
    <3>3. e \in Binned' \/ y \in Out'
      BY <3>1, <3>2, <1>10, Zenon
    <3> QED BY <2>2, <3>1, <3>3, Zenon
  <2>3. CASE y[1] # e
    <3>1. y # x /\ (y \in Out' <=> y \in Out)
      BY <2>3, <1>5, <1>10, Zenon
    <3>2. y[1] \in ext /\ y[1] \notin Raw /\ y[1] \notin Given
      BY <2>3, <1>3, <1>6, Zenon
    <3>3. IF y[1] \in Binned THEN y \in alloc[y[1]] <=> y \in Out ELSE y \in Out
      BY <3>2, Zenon DEF LInv, AccountInv
    <3>4. alloc'[y[1]] = alloc[y[1]] /\ (y[1] \in Binned' <=> y[1] \in Binned)
      BY <2>1, <2>3, <1>10, Zenon
    <3> QED BY <3>1, <3>3, <3>4, Zenon
  <2> QED BY <2>2, <2>3, Zenon
<1>19. TokInv'
  BY <1>1, <1>3, <1>4, <1>6, Zenon DEF LInv, TokInv
<1> QED BY <1>12, <1>13, <1>14, <1>15, <1>16, <1>17, <1>18, <1>19, Zenon DEF LInv

(* publish preserves the invariant: the token of a region that the         *)
(* application holds becomes busy.                                         *)
LEMMA PublishStep ==
    ASSUME LInv, NEW x \in Region, Publish(x)
    PROVE  LInv'
<1> USE DEF Publish
<1>1. Releasing' = Releasing /\ Given' = Given /\ Binned' = Binned /\ Raw' = Raw
  BY Zenon DEF Releasing, Given, Binned, Raw, pool, rec
<1>2. Pending' = Pending
  <2>1. ASSUME NEW t \in Thread, th[t].pc = "collect"
        PROVE  Regions(th[t].ext) \intersect tok' = Regions(th[t].ext) \intersect tok
    BY <2>1, ZenonT(30) DEF LInv, ScanInv
  <2> QED BY <2>1, Zenon DEF Pending
<1>3. Out' = Out /\ Claimed' = Claimed
  BY <1>1, <1>2, Zenon DEF Out, Claimed
<1>4. TypeOK'
  BY Zenon DEF LInv, TypeOK, pool, rec
<1>5. ModeInv'
  BY Zenon DEF LInv, ModeInv, pool, rec
<1>6. ThreadInv'
  BY Zenon DEF LInv, ThreadInv, pool, rec
<1>7. ScanInv'
  <2>1. ASSUME NEW t \in Thread, th[t].pc = "recs" PROVE x[1] # th[t].got
    BY <2>1, AtWork, Zenon DEF LInv, PlaceInv, Out, Claimed
  <2> QED BY <1>1, <1>2, <2>1, ZenonT(30) DEF LInv, ScanInv, pool, rec
<1>8. PairInv' /\ HandInv'
  BY <1>1, <1>2, Zenon DEF LInv, PairInv, HandInv, pool, rec
<1>9. PlaceInv' /\ BinInv' /\ AccountInv'
  BY <1>1, <1>3, Zenon DEF LInv, PlaceInv, BinInv, AccountInv, pool, rec
<1>10. TokInv'
  BY <1>1, <1>2, Zenon DEF LInv, TokInv, PlaceInv, Out, Claimed, pool, rec
<1> QED BY <1>4, <1>5, <1>6, <1>7, <1>8, <1>9, <1>10, Zenon DEF LInv

-----------------------------------------------------------------------------
(* An acquire by a rebuild callback, from an extent that the recovery      *)
(* acquired before, preserves the invariant.                               *)
LEMMA RecoverAcquireStep ==
    ASSUME LInv, NEW t \in Thread, RecoverAcquire(t)
    PROVE  LInv'
<1> DEFINE c == CaseOf[t]
<1>1. /\ known' = known /\ tok' = tok /\ th' = th
      /\ ext' = ext /\ used' = used /\ rcase' = rcase
      /\ mode' = mode /\ half' = half /\ consistent' = consistent /\ recs' = recs
      /\ scan' = scan /\ call' = call /\ mode = "recover"
  BY Zenon DEF RecoverAcquire, InCallback, pool, rec
<1>2. PICK e \in bins[c]["recover"], x \in Region :
         AllocLarge(x, e, c, "recover", alloc[e]) /\ null' = null \union {x}
  BY Zenon DEF RecoverAcquire
<1>3. c \in Case /\ "recover" \in Bin
  BY LargeAssumption, Zenon DEF Bin
<1>4. e \in Extent /\ e \in ext /\ rcase[e] = c /\ e \notin Raw /\ e \notin Given /\ e \in recs
  BY <1>2, <1>3, Zenon DEF LInv, TypeOK, BinInv
<1>5. \A d \in Case, a \in Bin : e \in bins[d][a] => d = c /\ a = "recover"
  BY <1>4 DEF LInv, BinInv
<1>6. e \in Binned
  BY <1>2, <1>3, <1>4, Zenon DEF Binned
<1>7. \A y \in Region : y[1] = e => (y \in alloc[e] <=> y \in Out)
  BY <1>4, <1>6, Zenon DEF LInv, AccountInv
<1> DEFINE taken == alloc[e]
<1>8. taken \in SUBSET Region
  BY <1>4, Zenon DEF LInv, TypeOK
<1>9. /\ bins' \in [Case -> [Bin -> SUBSET Extent]] /\ alloc' \in [Extent -> SUBSET Region]
      /\ x[1] = e /\ x \notin taken
      /\ alloc'[e] = taken \union {x} /\ \A f \in Extent : f # e => alloc'[f] = alloc[f]
      /\ \A d \in Case, a \in Bin, f \in Extent :
            f # e => (f \in bins'[d][a] <=> f \in bins[d][a])
      /\ \A d \in Case, a \in Bin : e \in bins'[d][a] => d = c /\ a = "recover"
      /\ \A f \in Extent : f # e => (f \in Binned' <=> f \in Binned)
      /\ e \in Binned' \/ Regions(e) \subseteq taken \union {x}
  <2>1. AllocLarge(x, e, c, "recover", taken)
    BY <1>2, Zenon
  <2> HIDE DEF c, taken
  <2>2. TypeOK
    BY Zenon DEF LInv
  <2> QED BY <1>3, <1>4, <1>5, <1>8, <2>1, <2>2, AllocFact
<1>10. x \notin Out
  BY <1>7, <1>9, Zenon
<1> HIDE DEF c
<1>11. Raw' = Raw /\ Given' = Given /\ Releasing' = Releasing /\ Pending' = Pending
  BY <1>1, Zenon DEF Raw, Given, Releasing, Pending
<1>12. Claimed' = Claimed /\ Out' = Out \union {x}
  BY <1>1, <1>2, <1>11, Zenon DEF Claimed, Out
<1>13. TypeOK'
  <2>1. null' \subseteq Region
    BY <1>2, Zenon DEF LInv, TypeOK
  <2> QED BY <1>1, <1>9, <2>1, Zenon DEF LInv, TypeOK
<1>14. ModeInv' /\ ThreadInv'
  BY <1>1, Zenon DEF LInv, ModeInv, ThreadInv
<1>15. ScanInv'
  <2>1. ASSUME NEW s \in Thread, th[s].pc = "collect" PROVE x \notin Regions(th[s].ext)
    <3>1. th[s].ext \notin recs
      BY <2>1, Zenon DEF LInv, ScanInv
    <3> QED BY <1>4, <1>9, <3>1, LocalFact, RegionFact DEF LInv
  <2>2. \A s \in Thread : th[s].pc = "collect" => \A y \in Regions(th[s].ext) : y \notin null'
    <3>1. \A s \in Thread : th[s].pc = "collect" => \A y \in Regions(th[s].ext) : y \notin null
      BY Zenon DEF LInv, ScanInv
    <3> QED BY <1>2, <2>1, <3>1, Zenon
  <2> QED BY <1>1, <1>11, <2>2, Zenon DEF LInv, ScanInv
<1>16. PairInv' /\ HandInv'
  BY <1>1, <1>2, <1>10, <1>11, InHand DEF LInv, PairInv, HandInv
<1>17. PlaceInv'
  BY <1>1, <1>4, <1>9, <1>11, <1>12, Zenon DEF LInv, PlaceInv
<1>18. BinInv'
  BY <1>1, <1>4, <1>9, <1>11, SMTT(30) DEF LInv, TypeOK, BinInv
<1>19. AccountInv'
  BY <1>1, <1>7, <1>9, <1>11, <1>12, RegionFact DEF LInv, AccountInv
<1>20. TokInv'
  BY <1>1, <1>11, Zenon DEF LInv, TokInv
<1> QED BY <1>13, <1>14, <1>15, <1>16, <1>17, <1>18, <1>19, <1>20, Zenon DEF LInv

(* An acquire_extent by a rebuild callback preserves the invariant: the    *)
(* extent is raw until recs_ has it.                                       *)
LEMMA RecoverExtentStep ==
    ASSUME LInv, AcquireAlone, NEW t \in Thread, RecoverExtent(t)
    PROVE  LInv'
<1> DEFINE c == CaseOf[t]
<1>1. /\ known' = known /\ null' = null /\ bins' = bins /\ alloc' = alloc
      /\ mode' = mode /\ half' = half /\ consistent' = consistent /\ recs' = recs
      /\ scan' = scan /\ call' = call /\ mode = "recover" /\ th[t].pc = "rebuild"
      /\ "acquire" \in call.does
  BY Zenon DEF RecoverExtent, InCallback, rec
<1>2. PICK e \in Extent : ExtentAcquire(e, c) /\ th' = [th EXCEPT ![t].pc = "recs", ![t].got = e]
  BY Zenon DEF RecoverExtent
<1>3. c \in Case
  BY LargeAssumption, Zenon
<1>4. /\ e \notin ext /\ ext' = ext \union {e} /\ used' \in 0 .. NExtent
      /\ (\A d \in ext' : d < used') /\ tok' = tok
      /\ rcase' \in [Extent -> Case] /\ rcase'[e] = c /\ \A d \in Extent : d # e => rcase'[d] = rcase[d]
  <2> HIDE DEF c
  <2> QED BY <1>2, <1>3, AcquiredFact, Zenon
<1>5. /\ th' \in [Thread -> Local] /\ th'[t].pc = "recs" /\ th'[t].got = e /\ th'[t].regs = th[t].regs
      /\ \A s \in Thread : s # t => th'[s] = th[s]
  BY <1>2, PcGot, Zenon DEF LInv
<1> HIDE DEF c
<1>6. \A s \in Thread : s # t => th[s].pc = "idle"
  BY <1>1, Alone, Zenon
<1>7. /\ \A s \in Thread : Releasing'[s] = Releasing[s] /\ Pending'[s] = Pending[s]
  BY <1>1, <1>4, <1>5, Zenon DEF Releasing, Pending
<1>8. Given' = {} /\ Given = {}
  BY <1>1, <1>5, <1>6, Zenon DEF Given
<1>9. Binned' = Binned /\ Claimed' = Claimed /\ Out' = Out
  BY <1>1, <1>7, Zenon DEF Binned, Claimed, Out
<1>10. e \in Raw' /\ \A d \in Extent : d # e => (d \in Raw' <=> d \in Raw)
  BY <1>1, <1>5, <1>6, ZenonT(30) DEF Raw
<1>11. e \notin recs /\ (\A x \in Out : x[1] # e) /\ (\A x \in tok : x[1] # e)
       /\ \A d \in Case, a \in Bin : e \notin bins[d][a]
  BY <1>4 DEF LInv, ModeInv, PlaceInv, TokInv, BinInv
<1>12. TypeOK'
  <2>1. ext' \subseteq Extent /\ tok' \subseteq Region
    BY <1>4, Zenon DEF LInv, TypeOK
  <2> QED BY <1>1, <1>4, <1>5, <2>1, Zenon DEF LInv, TypeOK
<1>13. ModeInv'
  BY <1>1, <1>4, ZenonT(30) DEF LInv, ModeInv
<1>14. ThreadInv'
  BY <1>1, <1>5, <1>6 DEF LInv, ThreadInv
<1>15. ScanInv'
  <2>1. rcase'[th'[t].got] = CaseOf[t]
    BY <1>4, <1>5, Zenon DEF c
  <2>2. \A s \in Thread : s # t => th'[s].pc = "idle"
    BY <1>5, <1>6, Zenon
  <2>3. \A s \in Thread : Pending'[s] \subseteq tok'
    BY <1>4, <1>7, Zenon DEF LInv, ScanInv
  <2>4. e \in ext' \ recs' /\ "acquire" \in call'.does /\ \A x \in tok' : x[1] # e
    BY <1>1, <1>4, <1>11, Zenon
  <2> QED BY <1>5, <2>1, <2>2, <2>3, <2>4, Zenon DEF ScanInv
<1>16. PairInv' /\ HandInv'
  BY <1>1, <1>5, <1>7, SamePair, SameHand, Zenon
<1>17. PlaceInv'
  <2>1. \A x \in Out : x[1] \in Extent
    BY <1>9, Zenon DEF LInv, TypeOK, PlaceInv
  <2> QED BY <1>1, <1>4, <1>8, <1>9, <1>10, <1>11, <2>1, Zenon DEF LInv, PlaceInv
<1>18. BinInv'
  <2> SUFFICES ASSUME NEW d \in Case, NEW a \in Bin, NEW f \in bins'[d][a]
               PROVE  /\ f \in ext' /\ rcase'[f] = d /\ f \notin Raw' /\ f \notin Given'
                      /\ a = "recover" <=> f \in recs'
    BY Zenon DEF BinInv
  <2>0. f \in bins[d][a]
    BY <1>1, Zenon
  <2>1. f \in Extent /\ f # e
    BY <1>11, <2>0 DEF LInv, TypeOK
  <2>2. f \in ext /\ rcase[f] = d /\ f \notin Raw /\ (a = "recover" <=> f \in recs)
    BY <2>0, Zenon DEF LInv, BinInv
  <2> QED BY <1>1, <1>4, <1>8, <1>10, <2>1, <2>2, Zenon
<1>19. AccountInv'
  BY <1>1, <1>4, <1>8, <1>9, <1>10, RegionFact, Zenon DEF LInv, AccountInv
<1>20. TokInv'
  BY <1>1, <1>4, <1>7, <1>10, <1>11, RegionFact, Zenon DEF LInv, TypeOK, TokInv
<1> QED BY <1>12, <1>13, <1>14, <1>15, <1>16, <1>17, <1>18, <1>19, <1>20, Zenon DEF LInv

(* The rest of that acquire preserves the invariant: recs_ has the extent, *)
(* so that the scan skips it.                                              *)
LEMMA RecordExtentStep ==
    ASSUME LInv, AcquireAlone, NEW t \in Thread, RecordExtent(t)
    PROVE  LInv'
<1> DEFINE c == CaseOf[t]
           e == th[t].got
<1>1. /\ known' = known /\ tok' = tok /\ ext' = ext /\ used' = used /\ rcase' = rcase
      /\ mode' = mode /\ half' = half /\ consistent' = consistent /\ recs' = recs \union {e}
      /\ scan' = scan /\ call' = call /\ mode = "recover" /\ th[t].pc = "recs"
      /\ "acquire" \in call.does
  BY AtWork, Zenon DEF RecordExtent, pool, LInv, ScanInv
<1>2. PICK x \in Region : AllocLarge(x, e, c, "recover", {}) /\ null' = null \union {x}
  BY Zenon DEF RecordExtent
<1>3. c \in Case /\ "recover" \in Bin
  BY LargeAssumption, Zenon DEF Bin
<1>4. /\ e \in ext /\ e \in Extent /\ e \notin recs /\ e \in Raw /\ rcase[e] = c
      /\ \A y \in tok : y[1] # e
  BY <1>1, AtWork, Zenon DEF LInv, ScanInv, TypeOK
<1>5. /\ th' \in [Thread -> Local] /\ th'[t].pc = "rebuild" /\ th'[t].regs = th[t].regs
      /\ \A s \in Thread : s # t => th'[s] = th[s]
  BY <1>1, PcOnly, Zenon DEF LInv, RecordExtent
<1> HIDE DEF c, e
<1>6. \A s \in Thread : s # t => th[s].pc = "idle"
  BY <1>1, Alone, Zenon
<1>7. (\A y \in Out : y[1] # e) /\ \A d \in Case, a \in Bin : e \notin bins[d][a]
  <2>1. \A y \in Out : y[1] # e
    BY <1>1, <1>4, Zenon DEF LInv, PlaceInv
  <2>2. \A d \in Case, a \in Bin : e \notin bins[d][a]
    BY <1>4, Zenon DEF LInv, BinInv
  <2> QED BY <2>1, <2>2, Zenon
<1>8. /\ bins' \in [Case -> [Bin -> SUBSET Extent]] /\ alloc' \in [Extent -> SUBSET Region]
      /\ x[1] = e
      /\ alloc'[e] = {x} /\ \A f \in Extent : f # e => alloc'[f] = alloc[f]
      /\ \A d \in Case, a \in Bin, f \in Extent :
            f # e => (f \in bins'[d][a] <=> f \in bins[d][a])
      /\ \A d \in Case, a \in Bin : e \in bins'[d][a] => d = c /\ a = "recover"
      /\ \A f \in Extent : f # e => (f \in Binned' <=> f \in Binned)
      /\ e \in Binned' \/ Regions(e) \subseteq {x}
  <2> DEFINE taken == {}
  <2>1. AllocLarge(x, e, c, "recover", taken) /\ taken \in SUBSET Region
    BY <1>2, Zenon
  <2> HIDE DEF taken
  <2>2. /\ bins' \in [Case -> [Bin -> SUBSET Extent]] /\ alloc' \in [Extent -> SUBSET Region]
        /\ x[1] = e /\ x \notin taken
        /\ alloc'[e] = taken \union {x} /\ \A f \in Extent : f # e => alloc'[f] = alloc[f]
        /\ \A d \in Case, a \in Bin, f \in Extent :
              f # e => (f \in bins'[d][a] <=> f \in bins[d][a])
        /\ \A d \in Case, a \in Bin : e \in bins'[d][a] => d = c /\ a = "recover"
        /\ \A f \in Extent : f # e => (f \in Binned' <=> f \in Binned)
        /\ e \in Binned' \/ Regions(e) \subseteq taken \union {x}
    <3>1. TypeOK
      BY Zenon DEF LInv
    <3>2. \A d \in Case, a \in Bin : e \in bins[d][a] => d = c /\ a = "recover"
      BY <1>7, Zenon
    <3>3. e \in Extent /\ taken \in SUBSET Region
      BY <1>4, <2>1, Zenon
    <3> QED BY <1>3, <2>1, <3>1, <3>2, <3>3, AllocFact
  <2> QED BY <2>2, Zenon DEF taken
<1>9. \A s \in Thread : Releasing'[s] = Releasing[s] /\ Pending'[s] = Pending[s]
  BY <1>1, <1>5, Zenon DEF Releasing, Pending
<1>10. Given' = {} /\ Given = {}
  BY <1>1, <1>5, <1>6, Zenon DEF Given
<1>11. Claimed' = Claimed /\ Out' = Out \union {x}
  BY <1>1, <1>2, <1>9, Zenon DEF Claimed, Out
<1>12. \A d \in Extent : d \in Raw' <=> d \in Raw /\ d # e
  <2>1. th[t].got = e
    BY Zenon DEF e
  <2> QED BY <1>1, <1>4, <1>5, <1>6, <2>1, Zenon DEF Raw
<1>13. TypeOK'
  <2>1. null' \subseteq Region /\ recs' \subseteq Extent
    BY <1>1, <1>2, <1>4, Zenon DEF LInv, TypeOK
  <2> QED BY <1>1, <1>5, <1>8, <2>1, Zenon DEF LInv, TypeOK
<1>14. ModeInv'
  BY <1>1, <1>4, Zenon DEF LInv, ModeInv
<1>15. ThreadInv'
  BY <1>1, <1>5, <1>6, Zenon DEF LInv, ThreadInv
<1>16. ScanInv'
  BY <1>1, <1>5, <1>6, <1>9, Zenon DEF LInv, ScanInv
<1>17. PairInv' /\ HandInv'
  <2>1. PairInv'
    BY <1>5, <1>9, SamePair, Zenon
  <2>2. x \notin known /\ \A s \in Thread : x \notin Releasing[s] /\ x \notin Pending[s]
    BY <1>2, <1>7, <1>8, InHand, Zenon
  <2>3. HandInv'
    BY <1>1, <1>2, <1>9, <2>2 DEF LInv, HandInv
  <2> QED BY <2>1, <2>3, Zenon
<1>18. PlaceInv'
  <2>1. \A y \in Out : y[1] \in Extent /\ (y \in Claimed => y[1] \notin recs')
    BY <1>1, <1>7, <1>11, Zenon DEF LInv, TypeOK, PlaceInv, Out
  <2> QED BY <1>1, <1>4, <1>8, <1>10, <1>11, <1>12, <2>1, ZenonT(30) DEF LInv, PlaceInv, Out
<1>19. BinInv'
  <2> SUFFICES ASSUME NEW d \in Case, NEW a \in Bin, NEW f \in bins'[d][a]
               PROVE  /\ f \in ext' /\ rcase'[f] = d /\ f \notin Raw' /\ f \notin Given'
                      /\ a = "recover" <=> f \in recs'
    BY Zenon DEF BinInv
  <2>1. f \in Extent
    BY <1>8
  <2>2. CASE f = e
    BY <1>1, <1>4, <1>8, <1>10, <1>12, <2>2, Zenon
  <2>3. CASE f # e
    <3>1. f \in bins[d][a]
      BY <1>8, <2>1, <2>3, Zenon
    <3>2. f \in ext /\ rcase[f] = d /\ f \notin Raw /\ (a = "recover" <=> f \in recs)
      BY <3>1, Zenon DEF LInv, BinInv
    <3> QED BY <1>1, <1>10, <1>12, <2>1, <2>3, <3>2, Zenon
  <2> QED BY <2>2, <2>3, Zenon
<1>20. AccountInv'
  <2>1. ASSUME NEW y \in Region, y[1] = e
        PROVE  IF e \in Binned' THEN y \in alloc'[e] <=> y \in Out' ELSE y \in Out'
    BY <1>7, <1>8, <1>11, <2>1, RegionFact, Zenon
  <2>2. ASSUME NEW y \in Region, y[1] # e
        PROVE  /\ y \in Out' <=> y \in Out
               /\ y[1] \in Raw' <=> y[1] \in Raw
               /\ y[1] \in Binned' <=> y[1] \in Binned
               /\ alloc'[y[1]] = alloc[y[1]]
    BY <1>8, <1>11, <1>12, <2>2, RegionFact, Zenon
  <2> QED BY <1>1, <1>10, <2>1, <2>2, Zenon DEF LInv, AccountInv
<1>21. TokInv'
  BY <1>1, <1>4, <1>9, <1>12, RegionFact, Zenon DEF LInv, TypeOK, TokInv
<1> QED BY <1>13, <1>14, <1>15, <1>16, <1>17, <1>18, <1>19, <1>20, <1>21, Zenon DEF LInv
-----------------------------------------------------------------------------
(***************************************************************************)
(* The theorems about LargeBin, for any numbers of threads, run cases,     *)
(* extents and regions: a region is in one hand, busy regions are          *)
(* reachable and recovery rebuilds each once.  First the steps of a close, *)
(* a crash and a restart, which preserve the inductive invariant too.      *)
(***************************************************************************)

(* The destructor, which begins when no call is running, preserves the     *)
(* invariant.                                                              *)
LEMMA CloseBeginStep ==
    ASSUME LInv, CloseBegin
    PROVE  LInv'
<1>0. mode = "open" /\ mode' = "close" /\ half = {} /\ (\A t \in Thread : th[t].pc = "idle")
  BY Zenon DEF LInv, ModeInv, CloseBegin
<1>1. Releasing' = Releasing /\ Given' = Given /\ Binned' = Binned /\ Raw' = Raw
  BY <1>0, Zenon DEF Releasing, Given, Binned, Raw, CloseBegin, pool, rec
<1>2. Pending' = Pending
  BY Zenon DEF Pending, CloseBegin
<1>3. Out' = Out /\ Claimed' = Claimed
  BY <1>1, <1>2, Zenon DEF Out, Claimed, CloseBegin
<1>4. TypeOK' /\ ModeInv' /\ ThreadInv'
  BY <1>0, Zenon DEF LInv, TypeOK, ModeInv, ThreadInv, CloseBegin, pool, rec
<1>5. ScanInv' /\ PairInv' /\ HandInv'
  BY <1>0, <1>1, <1>2, ZenonT(30) DEF LInv, ScanInv, PairInv, HandInv, CloseBegin, pool, rec
<1>6. PlaceInv' /\ BinInv' /\ AccountInv' /\ TokInv'
  BY <1>0, <1>1, <1>2, <1>3 DEF LInv, PlaceInv, BinInv, AccountInv, TokInv, CloseBegin, pool, rec
<1> QED BY <1>4, <1>5, <1>6, Zenon DEF LInv

(* An extent of a bin that the destructor records as half used preserves   *)
(* the invariant: its free regions go from the bin to the record.          *)
LEMMA CloseBinStep ==
    ASSUME LInv, NEW c \in Case, NEW e \in Extent, CloseBin(c, e)
    PROVE  LInv'
<1>1. /\ \A t \in Thread : th[t].pc = "idle" /\ th[t].regs = {} /\ th'[t] = th[t]
      /\ mode = "close" /\ mode' = "close" /\ recs = {} /\ recs' = {} /\ known' = known /\ null' = null
      /\ e \in bins[c]["normal"] /\ e \in ext /\ rcase[e] = c /\ e \notin Raw
  BY Zenon DEF LInv, ModeInv, ThreadInv, BinInv, Bin, CloseBin
<1>2. \A t \in Thread : /\ Releasing[t] = {} /\ Pending[t] = {}
                        /\ Releasing'[t] = {} /\ Pending'[t] = {}
  BY <1>1, Zenon DEF Releasing, Pending
<1>3. /\ Given = {} /\ Given' = {} /\ Out = known \union null /\ Out' = Out /\ Claimed' = Claimed
      /\ Raw = half /\ Raw' = half'
  BY <1>1, <1>2, Zenon DEF Out, Claimed, Given, Raw
<1>4. \A d \in Case, b \in Bin, f \in Extent : f \in bins'[d][b] <=> f \in bins[d][b] /\ f # e
  <2>1. bins \in [Case -> [Bin -> SUBSET Extent]]
    BY Zenon DEF LInv, TypeOK
  <2>2. bins' = [bins EXCEPT ![c]["normal"] = @ \ {e}]
    BY Zenon DEF CloseBin
  <2>3. ASSUME NEW d \in Case, NEW b \in Bin, e \in bins[d][b] PROVE d = c /\ b # "recover"
    <3>1. rcase[e] = d /\ (b = "recover" <=> e \in recs)
      BY <2>3, Zenon DEF LInv, BinInv
    <3>2. rcase[e] = c /\ recs = {}
      BY <1>1, ZenonT(30)
    <3> QED BY <3>1, <3>2, Zenon
  <2> QED BY <2>1, <2>2, <2>3 DEF Bin
<1>5. Binned' = Binned \ {e} /\ e \in Binned
  BY <1>1, <1>4 DEF LInv, TypeOK, Binned, Bin
<1>6. \A x \in Region : x[1] = e => (x \in alloc[e] <=> x \in Out)
  BY <1>1, <1>3, <1>5, Zenon DEF LInv, AccountInv
<1>7. TypeOK'
  <2>1. bins' \in [Case -> [Bin -> SUBSET Extent]]
    BY ZenonT(30) DEF LInv, TypeOK, CloseBin, Bin
  <2> QED BY <2>1, Zenon DEF LInv, TypeOK, CloseBin
<1>8. ModeInv' /\ ThreadInv'
  BY <1>1, <1>3 DEF LInv, ModeInv, ThreadInv, CloseBin
<1>9. ScanInv' /\ PairInv' /\ HandInv'
  BY <1>1, <1>2, ZenonT(30) DEF LInv, ScanInv, PairInv, HandInv
<1>10. alloc[e] = {} => \A x \in Out : x[1] # e
  BY <1>3, <1>6, Zenon DEF LInv, TypeOK
<1>11. PlaceInv'
  BY <1>1, <1>3, <1>10, Zenon DEF LInv, PlaceInv, CloseBin
<1>12. BinInv'
  <2>1. /\ rcase' = rcase /\ \A f \in ext : f # e => f \in ext'
        /\ \A f \in half' : f \in half \/ f = e
    BY Zenon DEF CloseBin
  <2>2. ASSUME NEW d \in Case, NEW b \in Bin, NEW f \in bins'[d][b]
        PROVE  /\ f \in ext' /\ rcase'[f] = d /\ f \notin Raw' /\ f \notin Given'
               /\ b = "recover" <=> f \in recs'
    <3>1. bins' \in [Case -> [Bin -> SUBSET Extent]]
      BY <1>7, Zenon DEF TypeOK
    <3>2. f \in Extent
      BY <2>2, <3>1, Zenon
    <3>3. f \in bins[d][b] /\ f # e
      BY <2>2, <3>2, <1>4, Zenon
    <3>4. /\ f \in ext /\ rcase[f] = d /\ f \notin Raw
          /\ b = "recover" <=> f \in recs
      BY <3>3, Zenon DEF LInv, BinInv
    <3> QED BY <3>3, <3>4, <2>1, <1>1, <1>3, Zenon
  <2> QED BY <2>2, Zenon DEF BinInv
<1>13. AccountInv'
  BY <1>1, <1>3, <1>5, RegionFact, Zenon DEF LInv, AccountInv, CloseBin
<1>14. TokInv'
  BY <1>1, <1>2, <1>3, <1>10, Zenon DEF LInv, TokInv, CloseBin
<1> QED BY <1>7, <1>8, <1>9, <1>11, <1>12, <1>13, <1>14, Zenon DEF LInv

(* The kConsistent of the destructor preserves the invariant: it is set    *)
(* when every extent with a free region is recorded.                       *)
LEMMA CloseDoneStep ==
    ASSUME LInv, CloseDone
    PROVE  LInv'
<1>1. /\ \A t \in Thread : th[t].pc = "idle" /\ th[t].regs = {} /\ th'[t] = th[t]
      /\ mode = "close" /\ mode' = "down" /\ recs = {} /\ scan = 0
  BY Zenon DEF LInv, ModeInv, ThreadInv, CloseDone
<1>2. \A t \in Thread : /\ Releasing[t] = {} /\ Pending[t] = {}
                        /\ Releasing'[t] = {} /\ Pending'[t] = {}
  BY <1>1, Zenon DEF Releasing, Pending
<1>3. Raw = half /\ Raw' = Extent /\ Given = {} /\ Given' = {}
  BY <1>1, Zenon DEF Raw, Given
<1>4. Out = known \union null /\ Out' = null' /\ Claimed' = {}
  BY <1>2, Zenon DEF Out, Claimed, CloseDone
<1>5. \A c \in Case, b \in Bin : bins[c][b] = {}
  BY <1>1, Zenon DEF LInv, BinInv, CloseDone, Bin
<1>6. Binned = {}
  BY <1>5, Zenon DEF Binned
<1>7. TypeOK'
  BY Zenon DEF LInv, TypeOK, CloseDone, pool
<1>8. ModeInv'
  <2>1. \A x \in Region : x[1] \in ext \ half => x \in tok \/ x \in null'
    BY <1>1, <1>3, <1>4, <1>6, Zenon DEF LInv, AccountInv, ModeInv, CloseDone
  <2>2. null' \intersect tok = {}
    BY <1>2, <1>3, Zenon DEF LInv, TokInv, HandInv, CloseDone
  <2> QED BY <1>1, <2>1, <2>2, Zenon DEF LInv, ModeInv, CloseDone, pool
<1>9. ThreadInv'
  BY <1>1, Zenon DEF LInv, ThreadInv, CloseDone
<1>10. ScanInv' /\ PairInv'
  BY <1>1, <1>2, Zenon DEF ScanInv, PairInv
<1>11. HandInv'
  BY <1>2, Zenon DEF HandInv, CloseDone
<1>12. PlaceInv' /\ BinInv'
  BY <1>1, <1>3, <1>4, <1>5, Zenon DEF LInv, PlaceInv, BinInv, CloseDone, pool
<1>13. AccountInv' /\ TokInv'
  BY <1>3, RegionFact, Zenon DEF LInv, TypeOK, AccountInv, TokInv, CloseDone, pool
<1> QED BY <1>7, <1>8, <1>9, <1>10, <1>11, <1>12, <1>13, Zenon DEF LInv

(* A crash preserves the invariant: DRAM is lost, and every extent is raw. *)
LEMMA CrashStep ==
    ASSUME LInv, Crash
    PROVE  LInv'
<1>1. \A t \in Thread : th'[t].pc = "idle" /\ th'[t].regs = {}
  BY Zenon DEF Crash, Idle
<1>2. TypeOK'
  BY IdleTyped, Zenon DEF LInv, TypeOK, Crash, pool
<1>3. \A t \in Thread : Releasing'[t] = {} /\ Pending'[t] = {}
  BY <1>1, Zenon DEF Releasing, Pending
<1>4. Raw' = Extent /\ Given' = {} /\ Claimed' = {} /\ Out' = {}
  BY <1>1, <1>3, Zenon DEF Crash, Raw, Given, Claimed, Out
<1>5. ModeInv' /\ ThreadInv'
  BY <1>1, Zenon DEF LInv, TypeOK, ModeInv, ThreadInv, Crash, pool
<1>6. ScanInv' /\ PairInv' /\ HandInv'
  BY <1>1, <1>3, Zenon DEF Crash, ScanInv, PairInv, HandInv
<1>7. PlaceInv' /\ BinInv'
  BY <1>4, Zenon DEF Crash, PlaceInv, BinInv
<1>8. AccountInv' /\ TokInv'
  BY <1>4, RegionFact, Zenon DEF Crash, AccountInv, TokInv, LInv, TypeOK, pool
<1> QED BY <1>2, <1>5, <1>6, <1>7, <1>8, Zenon DEF LInv

(* open preserves the invariant: it trusts the record of a pool marked     *)
(* kConsistent, and scans any other.                                       *)
LEMMA OpenStep ==
    ASSUME LInv, Open
    PROVE  LInv'
<1>1. /\ \A t \in Thread : th[t].pc = "idle" /\ th[t].regs = {} /\ th'[t] = th[t]
      /\ mode = "down" /\ recs = {} /\ scan = 0 /\ known = {} /\ ~consistent'
  BY Zenon DEF LInv, ModeInv, ThreadInv, Open
<1>2. \A t \in Thread : /\ Releasing[t] = {} /\ Pending[t] = {}
                        /\ Releasing'[t] = {} /\ Pending'[t] = {}
  BY <1>1, Zenon DEF Releasing, Pending
<1>3. Given' = {} /\ Out = null /\ Out' = known' \union null' /\ Claimed' = known' /\ Raw = Extent
  BY <1>1, <1>2, Zenon DEF Out, Claimed, Given, Raw
<1>4. \A c \in Case, b \in Bin : bins'[c][b] = {}
  BY <1>3 DEF LInv, TypeOK, BinInv, Open
<1>5. Binned' = {}
  BY <1>4, Zenon DEF Binned
<1>6. TypeOK'
  BY Zenon DEF LInv, TypeOK, Open, pool
<1>7. ScanInv' /\ PairInv' /\ BinInv'
  BY <1>1, <1>2, <1>4, Zenon DEF ScanInv, PairInv, BinInv
<1>8. CASE mode' = "reboot"
  <2>1. consistent /\ known' = tok /\ Raw' = half /\ null' = null /\ half' = half
    BY <1>8, Zenon DEF Open, Raw
  <2>2. ModeInv' /\ ThreadInv'
    BY <1>1, <1>8, <2>1, Zenon DEF LInv, ModeInv, ThreadInv, Open, pool
  <2>3. HandInv' /\ PlaceInv'
    BY <1>1, <1>2, <1>3, <1>8, <2>1, ZenonT(30) DEF LInv, ModeInv, HandInv, PlaceInv, TokInv, Open, pool
  <2>4. AccountInv' /\ TokInv'
    BY <1>1, <1>3, <1>5, <2>1, RegionFact, ZenonT(30) DEF LInv, ModeInv, AccountInv, TokInv, Open, pool
  <2> QED BY <1>6, <1>7, <2>2, <2>3, <2>4, Zenon DEF LInv
<1>9. CASE mode' = "recover"
  <2>1. call' \in Recoveries /\ null' = {} /\ half' = {} /\ known' = {} /\ Out' = {}
    BY <1>1, <1>3, <1>9, ZenonT(30) DEF Open
  <2>2. Raw' = Extent
    BY <1>1, <1>9, ExtentFact DEF Open, Raw
  <2>3. ModeInv' /\ ThreadInv'
    BY <1>1, <1>9, <2>1, Zenon DEF LInv, ModeInv, ThreadInv, Open, pool
  <2>4. HandInv' /\ PlaceInv'
    BY <1>2, <1>3, <2>1, Zenon DEF HandInv, PlaceInv
  <2>5. AccountInv' /\ TokInv'
    BY <2>2, RegionFact, Zenon DEF LInv, TypeOK, AccountInv, TokInv, Open, pool
  <2> QED BY <1>6, <1>7, <2>3, <2>4, <2>5, Zenon DEF LInv
<1> QED BY <1>8, <1>9, Zenon DEF Open

(* The reload of a recorded extent preserves the invariant: it leaves the  *)
(* record and enters its bin.                                              *)
LEMMA RebootExtentStep ==
    ASSUME LInv, NEW e \in Extent, RebootExtent(e)
    PROVE  LInv'
<1>1. /\ \A t \in Thread : th[t].pc = "idle" /\ th[t].regs = {} /\ th'[t] = th[t]
      /\ mode = "reboot" /\ mode' = "reboot" /\ recs = {} /\ recs' = {} /\ known = tok
      /\ e \in half /\ e \in ext
  BY Zenon DEF LInv, ModeInv, ThreadInv, RebootExtent
<1>2. \A t \in Thread : /\ Releasing[t] = {} /\ Pending[t] = {}
                        /\ Releasing'[t] = {} /\ Pending'[t] = {}
  BY <1>1, Zenon DEF Releasing, Pending
<1>3. /\ Given = {} /\ Given' = {} /\ Out = known \union null /\ Out' = Out
      /\ Raw = half /\ Raw' = half \ {e}
  BY <1>1, <1>2, Zenon DEF Out, Claimed, Given, Raw, RebootExtent
<1>4. \A c \in Case, b \in Bin, d \in Extent :
         d \in bins'[c][b] <=> d \in bins[c][b] \/ (d = e /\ c = rcase[e] /\ b = "normal")
  BY Zenon DEF LInv, TypeOK, RebootExtent, Reload, Bin
<1>5. Binned' = Binned \union {e}
  BY <1>4, Zenon DEF LInv, TypeOK, Binned, Bin
<1>6. TypeOK'
  BY ZenonT(30) DEF LInv, TypeOK, RebootExtent, Reload, pool, Bin
<1>7. ModeInv' /\ ThreadInv'
  BY <1>1, Zenon DEF LInv, ModeInv, ThreadInv, RebootExtent, pool
<1>8. ScanInv' /\ PairInv' /\ HandInv'
  BY <1>1, <1>2, ZenonT(30) DEF LInv, ScanInv, PairInv, HandInv, RebootExtent
<1>9. PlaceInv'
  BY <1>1, <1>3, Zenon DEF LInv, PlaceInv, RebootExtent, pool
<1>10. BinInv'
  <2> SUFFICES ASSUME NEW d \in Case, NEW a \in Bin, NEW f \in bins'[d][a]
               PROVE  /\ f \in ext' /\ rcase'[f] = d /\ f \notin Raw' /\ f \notin Given'
                      /\ a = "recover" <=> f \in recs'
    BY Zenon DEF BinInv
  <2>1. f \in Extent /\ ext' = ext /\ rcase' = rcase
    BY <1>6 DEF TypeOK, RebootExtent, pool
  <2>2. CASE f = e /\ d = rcase[e] /\ a = "normal"
    BY <1>1, <1>3, <2>1, <2>2, Zenon
  <2>3. CASE f \in bins[d][a]
    <3>1. f \in ext /\ rcase[f] = d /\ f \notin half /\ (a = "recover" <=> f \in recs)
      BY <1>3, <2>3, Zenon DEF LInv, BinInv
    <3> QED BY <1>1, <1>3, <2>1, <3>1, Zenon
  <2> QED BY <1>4, <2>1, <2>2, <2>3, Zenon
<1>11. AccountInv'
  <2>1. \A x \in Region : x[1] = e => (x \in alloc'[e] <=> x \in tok)
    BY RegionFact, Zenon DEF LInv, TypeOK, RebootExtent, Reload
  <2>2. \A d \in Extent : d # e => alloc'[d] = alloc[d]
    BY Zenon DEF LInv, TypeOK, RebootExtent, Reload
  <2>3. \A x \in null : x[1] # e
    BY <1>1, Zenon DEF LInv, ModeInv
  <2> QED BY <1>1, <1>3, <1>5, <2>1, <2>2, <2>3, RegionFact, Zenon DEF LInv, AccountInv, RebootExtent, pool
<1>12. TokInv'
  BY <1>1, Zenon DEF LInv, TokInv, RebootExtent, pool
<1> QED BY <1>6, <1>7, <1>8, <1>9, <1>10, <1>11, <1>12, Zenon DEF LInv

(* The end of a reboot preserves the invariant: every recorded extent is   *)
(* in its bin.                                                             *)
LEMMA RebootDoneStep ==
    ASSUME LInv, RebootDone
    PROVE  LInv'
<1>0. mode = "reboot" /\ mode' = "open" /\ half = {}
      /\ (\A t \in Thread : th[t].pc = "idle" /\ th[t].regs = {})
  BY Zenon DEF LInv, ThreadInv, RebootDone
<1>1. Releasing' = Releasing /\ Given' = Given /\ Binned' = Binned /\ Raw' = Raw
  BY <1>0, Zenon DEF Releasing, Given, Binned, Raw, RebootDone, pool, rec
<1>2. Pending' = Pending
  BY Zenon DEF Pending, RebootDone
<1>3. Out' = Out /\ Claimed' = Claimed
  BY <1>1, <1>2, Zenon DEF Out, Claimed, RebootDone
<1>4. TypeOK' /\ ModeInv' /\ ThreadInv'
  BY <1>0, Zenon DEF LInv, TypeOK, ModeInv, ThreadInv, RebootDone, pool, rec
<1>5. ScanInv' /\ PairInv' /\ HandInv'
  BY <1>0, <1>1, <1>2, ZenonT(30) DEF LInv, ScanInv, PairInv, HandInv, RebootDone, pool, rec
<1>6. PlaceInv' /\ TokInv'
  <2>1. PlaceInv'
    BY <1>0, <1>1, <1>3, Zenon DEF LInv, PlaceInv, RebootDone, pool, rec
  <2>2. TokInv'
    BY <1>0, <1>1, <1>2, Zenon DEF LInv, TokInv, RebootDone, pool
  <2> QED BY <2>1, <2>2, Zenon
<1>7. BinInv'
  BY <1>1, Zenon DEF LInv, BinInv, RebootDone, pool, rec
<1>8. AccountInv'
  BY <1>1, <1>3, Zenon DEF LInv, AccountInv, RebootDone, pool
<1> QED BY <1>4, <1>5, <1>6, <1>7, <1>8, Zenon DEF LInv

(* The end of recover preserves the invariant: the workers are done, no    *)
(* extent is raw, and the bins are merged.                                 *)
LEMMA RecoverDoneStep ==
    ASSUME LInv, RecoverDone
    PROVE  LInv'
<1>1. mode = "recover" /\ mode' = "open" /\ call \in Recoveries /\ half = {} /\ half' = {}
      /\ recs' = {} /\ scan' = 0
  BY Zenon DEF LInv, ModeInv, RecoverDone
<1>2. PICK t \in Thread : th[t].pc = "done"
  BY <1>1, LargeAssumption, Zenon DEF RecoverDone
<1>3. \A s \in Thread : th[s].pc \in {"idle", "done"} /\ th[s].regs = {}
                        /\ th'[s].pc = "idle" /\ th'[s].regs = {}
  BY <1>1, Zenon DEF LInv, ThreadInv, RecoverDone, Idle
<1>4. \A s \in Thread : /\ Releasing[s] = {} /\ Pending[s] = {}
                        /\ Releasing'[s] = {} /\ Pending'[s] = {}
  BY <1>3, Zenon DEF Releasing, Pending
<1>5. /\ Given = {} /\ Given' = {} /\ Out = known \union null /\ Out' = Out
      /\ Claimed = known /\ Claimed' = known /\ Raw' = {}
  BY <1>1, <1>3, <1>4, ZenonT(30) DEF Out, Claimed, Given, Raw, RecoverDone
<1>6. \A e \in ext : e \notin Raw
  BY <1>1, <1>2, <1>3, ExtentFact, SMTT(30) DEF LInv, TypeOK, ThreadInv, Raw
<1>7. \A c \in Case, b \in Bin, e \in Extent :
         e \in bins'[c][b] <=> b = "normal" /\ (e \in bins[c]["normal"] \/ e \in bins[c]["recover"])
  BY Zenon DEF LInv, TypeOK, RecoverDone, Bin
<1>8. Binned' = Binned
  BY <1>7, ZenonT(30) DEF Binned, Bin
<1>9. TypeOK'
  <2>1. bins' \in [Case -> [Bin -> SUBSET Extent]]
    BY DEF LInv, TypeOK, RecoverDone, Bin
  <2>2. th' \in [Thread -> Local]
    BY IdleTyped, Zenon DEF RecoverDone
  <2> QED BY <1>1, <2>1, <2>2, SMTT(30) DEF LInv, TypeOK, RecoverDone, pool
<1>10. ModeInv' /\ ThreadInv'
  BY <1>1, <1>3, Zenon DEF LInv, ModeInv, ThreadInv, RecoverDone, pool
<1>11. ScanInv' /\ PairInv'
  BY <1>3, <1>4, Zenon DEF ScanInv, PairInv
<1>12. HandInv'
  BY <1>4, Zenon DEF LInv, HandInv, RecoverDone
<1>13. PlaceInv'
  BY <1>1, <1>5, Zenon DEF LInv, PlaceInv, RecoverDone, pool
<1>14. BinInv'
  BY <1>1, <1>5, <1>7, <1>9, Zenon DEF LInv, TypeOK, BinInv, RecoverDone, pool, Bin
<1>15. AccountInv'
  BY <1>5, <1>6, <1>8, Zenon DEF LInv, AccountInv, RecoverDone, pool
<1>16. TokInv'
  BY <1>4, <1>6, Zenon DEF LInv, TokInv, RecoverDone, pool
<1> QED BY <1>9, <1>10, <1>11, <1>12, <1>13, <1>14, <1>15, <1>16, Zenon DEF LInv

-----------------------------------------------------------------------------
(* A step that changes nothing preserves the invariant. *)
LEMMA StutterStep ==
    ASSUME LInv, UNCHANGED vars
    PROVE  LInv'
<1> USE DEF vars, pool, rec
<1>1. Releasing' = Releasing /\ Given' = Given /\ Binned' = Binned /\ Raw' = Raw /\ Pending' = Pending
  BY Zenon DEF Releasing, Given, Binned, Raw, Pending
<1>2. Out' = Out /\ Claimed' = Claimed
  BY <1>1, Zenon DEF Out, Claimed
<1>3. TypeOK' /\ ModeInv' /\ ThreadInv'
  BY Zenon DEF LInv, TypeOK, ModeInv, ThreadInv
<1>4. ScanInv' /\ PairInv' /\ HandInv'
  BY <1>1, ZenonT(30) DEF LInv, ScanInv, PairInv, HandInv
<1>5. PlaceInv' /\ BinInv' /\ AccountInv' /\ TokInv'
  BY <1>1, <1>2 DEF LInv, PlaceInv, BinInv, AccountInv, TokInv
<1> QED BY <1>3, <1>4, <1>5, Zenon DEF LInv

(* Every step of the allocator preserves the invariant. *)
LEMMA NextStep ==
    ASSUME LInv, AcquireAlone, [Next]_vars
    PROVE  LInv'
<1>1. ASSUME NEW t \in Thread, Step(t) PROVE LInv'
  BY <1>1, AcquireStep, ReleaseStep, ReleaseBitsStep, ReleaseExtentStep, Zenon DEF Step
<1>2. ASSUME NEW t \in Thread, Recover(t) PROVE LInv'
  BY Zenon, <1>2, RecoverNextStep, RecoverReloadStep, RecoverCollectStep, RebuildRegionStep,
     RebuildDoneStep, RecoverAcquireStep, RecoverExtentStep, RecordExtentStep DEF Recover
<1>3. ASSUME NEW x \in Region, Publish(x) PROVE LInv'
  BY <1>3, PublishStep, Zenon
<1>4. ASSUME NEW c \in Case, NEW e \in Extent, CloseBin(c, e) PROVE LInv'
  BY <1>4, CloseBinStep, Zenon
<1>5. ASSUME NEW e \in Extent, RebootExtent(e) PROVE LInv'
  BY <1>5, RebootExtentStep, Zenon
<1>6. ASSUME CloseBegin \/ CloseDone \/ Crash \/ Open \/ RebootDone \/ RecoverDone PROVE LInv'
  BY <1>6, CloseBeginStep, CloseDoneStep, CrashStep, OpenStep, RebootDoneStep, RecoverDoneStep, Zenon
<1>7. CASE UNCHANGED vars
  BY <1>7, StutterStep, Zenon
<1> QED BY <1>1, <1>2, <1>3, <1>4, <1>5, <1>6, <1>7, Zenon DEF Next

(* LInv holds in every state that the calls, closes, crashes and restarts  *)
(* of LargeBin reach.                                                      *)
THEOREM LargeInductive == ASSUME AcquireAlone PROVE Spec => []LInv
<1>1. LInv /\ [Next]_vars => LInv'
  BY NextStep, Zenon
<1> QED BY <1>1, InitInv, PTL DEF Spec

-----------------------------------------------------------------------------
(* LInv gives RegionOnce: a region that acquire handed out is in one hand  *)
(* and marked in its bin, any other is free in one bin.                    *)
LEMMA InvRegionOnce == LInv => RegionOnce
<1> SUFFICES ASSUME LInv, mode = "open", NEW x \in Region, x[1] \in ext
             PROVE  IF \E t \in Thread : th[t].pc = "give" /\ th[t].got = x[1]
                    THEN Hands(x) = {}
                    ELSE \E h \in Hands(x) : Hands(x) = {h}
  BY Zenon DEF RegionOnce
<1>1. x[1] \in Extent /\ Raw = {} /\ recs = {}
  BY RegionFact, Zenon DEF LInv, ModeInv, Raw
<1>2. \A t \in Thread : Pending[t] = {}
  BY Zenon DEF LInv, ThreadInv, Pending
<1>3. x[1] \in Given <=> \E t \in Thread : th[t].pc = "give" /\ th[t].got = x[1]
  BY <1>1, Zenon DEF Given
<1>4. \A t \in Thread : x \in Releasing[t] <=> th[t].pc = "bits" /\ th[t].reg = x
  BY Zenon DEF Releasing
<1>5. \A h : h \in Hands(x) <=>
         \/ x \in known /\ h = <<"known", x>>
         \/ x \in null /\ h = <<"null", x>>
         \/ \E t \in Thread : x \in Releasing[t] /\ h = <<"release", t>>
         \/ \E p \in Case \X Bin : x[1] \in bins[p[1]][p[2]] /\ x \notin alloc[x[1]] /\ h = <<"bin", p>>
  BY <1>4, ZenonT(30) DEF Hands
<1>6. CASE x[1] \in Given
  <2>1. x \notin Out /\ \A c \in Case, b \in Bin : x[1] \notin bins[c][b]
    BY <1>6, Zenon DEF LInv, PlaceInv, BinInv
  <2> QED BY <1>3, <1>5, <1>6, <2>1, InHand
<1>7. CASE x[1] \notin Given /\ x \in Out
  <2>1. \A c \in Case, b \in Bin : x[1] \in bins[c][b] => x \in alloc[x[1]]
    BY <1>1, <1>7, Zenon DEF LInv, AccountInv, Binned
  <2>2. CASE x \in known
    <3>1. \A h : h \in Hands(x) <=> h \in {<<"known", x>>}
      BY <1>5, <2>1, <2>2, Zenon DEF LInv, HandInv
    <3>2. Hands(x) = {<<"known", x>>}
      BY <3>1, Zenon
    <3> QED BY <1>3, <1>7, <3>2, Zenon
  <2>3. CASE x \in null
    <3>1. \A h : h \in Hands(x) <=> h \in {<<"null", x>>}
      BY <1>5, <2>1, <2>3, Zenon DEF LInv, HandInv
    <3>2. Hands(x) = {<<"null", x>>}
      BY <3>1, Zenon
    <3> QED BY <1>3, <1>7, <3>2, Zenon
  <2>4. ASSUME NEW t \in Thread, x \in Releasing[t]
        PROVE  \E h \in Hands(x) : Hands(x) = {h}
    <3>1. \A h : h \in Hands(x) <=> h \in {<<"release", t>>}
      BY <1>5, <2>1, <2>4, ZenonT(30) DEF LInv, HandInv, PairInv
    <3>2. Hands(x) = {<<"release", t>>}
      BY <3>1, Zenon
    <3> QED BY <3>2, Zenon
  <2> QED BY <1>2, <1>3, <1>7, <2>2, <2>3, <2>4, InHand, Zenon
<1>8. CASE x[1] \notin Given /\ x \notin Out
  <2>1. x[1] \in Binned /\ x \notin alloc[x[1]]
    BY <1>1, <1>8, Zenon DEF LInv, AccountInv
  <2>2. PICK c \in Case, b \in Bin : x[1] \in bins[c][b]
    BY <2>1, Zenon DEF Binned
  <2>3. \A d \in Case, a \in Bin : x[1] \in bins[d][a] => d = c /\ a = b
    BY <1>1, <2>2 DEF LInv, BinInv, Bin
  <2>4. \A p \in Case \X Bin : x[1] \in bins[p[1]][p[2]] <=> p = <<c, b>>
    BY <2>2, <2>3
  <2>5. \A h : h \in Hands(x) <=> h \in {<<"bin", <<c, b>> >>}
    BY <1>5, <1>8, <2>1, <2>4, InHand, Zenon
  <2>6. Hands(x) = {<<"bin", <<c, b>> >>}
    BY <2>5, ZenonT(30)
  <2> QED BY <1>3, <1>8, <2>6, Zenon
<1> QED BY <1>6, <1>7, <1>8, Zenon

(* In the open allocator a region of an extent in use is in exactly one    *)
(* hand, whatever the interleaving of acquires and releases and across     *)
(* closes, crashes, reboots and recoveries.                                *)
THEOREM RegionSafety == ASSUME AcquireAlone PROVE Spec => []RegionOnce
BY LargeInductive, InvRegionOnce, PTL

(* At every instant a busy region lies in an extent in use, so that a      *)
(* recovery finds it.                                                      *)
THEOREM BusySafety == ASSUME AcquireAlone PROVE Spec => []BusyReachable
<1>1. LInv => BusyReachable
  BY ZenonT(30) DEF LInv, TokInv, BusyReachable
<1> QED BY <1>1, LargeInductive, PTL

(* LInv gives RebuildOnce: the regions that the workers of recover have    *)
(* yet to rebuild are busy, disjoint and not yet rebuilt.                  *)
LEMMA InvRebuildOnce == LInv => RebuildOnce
<1> SUFFICES ASSUME LInv PROVE RebuildOnce
  BY Zenon
<1>1. \A t \in Thread : th[t].regs \subseteq Pending[t]
  BY Zenon DEF Pending, LInv, ThreadInv
<1>2. mode = "open" => Raw = {} /\ \A t \in Thread : Pending[t] = {}
  BY Zenon DEF LInv, ModeInv, ThreadInv, Raw, Pending
<1> QED BY <1>1, <1>2, ZenonT(30) DEF LInv, ScanInv, PairInv, HandInv, TokInv, RebuildOnce

(* Recovery hands each busy region to rebuild exactly once, with any       *)
(* number of workers that only release, or one that also acquires.         *)
THEOREM RebuildSafety == ASSUME AcquireAlone PROVE Spec => []RebuildOnce
BY LargeInductive, InvRebuildOnce, PTL
=============================================================================
