----------------------------- MODULE SlabProofs -----------------------------
(***************************************************************************)
(* SlabIInv is an invariant of Slab when the rebuild callback acquires no  *)
(* region (AcquireFree), and the safety properties follow from it.         *)
(***************************************************************************)
EXTENDS SlabSteps

-----------------------------------------------------------------------------
(* Reloading runs and extents after a close or a crash. *)

(* RunBits::reload of the runs R, some of the runs N that become live: the *)
(* tokens say which of their regions are out.                              *)
LEMMA ReloadBins ==
    ASSUME SlInv, NEW N, NEW R, R \subseteq N, N \subseteq bits, N \intersect Live = {}, Reload(R),
           Live' = Live \union N, arena' = arena, bits' = bits,
           \A s \in R : ~ Regions(s) \subseteq tok, \A s \in N \ R : Regions(s) \subseteq tok,
           \A x \in Region : IF RunOf(x) \in N THEN x \in Out' <=> x \in tok
                             ELSE x \in Out' <=> x \in Out
    PROVE  /\ abin' \in [Arena -> [Bin -> SUBSET Run]] /\ \A c \in Arena : abin'[c]["recover"] = {}
           /\ alloc' \in [Run -> SUBSET Region] /\ BinInv' /\ AccountInv'
<1>1. /\ abin' = [c \in Arena |-> [abin[c] EXCEPT !["normal"] = @ \union {s \in R : arena[s] = c}]]
      /\ alloc' = [s \in Run |-> IF s \in R THEN Regions(s) \intersect tok ELSE alloc[s]]
  BY Zenon DEF Reload
<1>2. /\ abin \in [Arena -> [Bin -> SUBSET Run]] /\ bits \subseteq Run
      /\ alloc \in [Run -> SUBSET Region] /\ \A c \in Arena : abin[c]["recover"] = {}
  BY Zenon DEF SlInv, TypeOK
<1>3. ASSUME NEW c \in Arena
      PROVE  /\ abin'[c] \in [Bin -> SUBSET Run] /\ abin'[c]["recover"] = {}
             /\ \A s : s \in abin'[c]["normal"] <=> s \in abin[c]["normal"] \/ (s \in R /\ arena[s] = c)
  <2> DEFINE S == abin[c]["normal"] \union {s \in R : arena[s] = c}
  <2>1. abin[c] \in [Bin -> SUBSET Run] /\ "normal" \in Bin
    BY <1>2, Zenon DEF Bin
  <2>2. S \in SUBSET Run
    BY <2>1, <1>2, Zenon
  <2>3. abin'[c] = [abin[c] EXCEPT !["normal"] = S]
    BY <1>1, Zenon
  <2>4. \A s : s \in S <=> s \in abin[c]["normal"] \/ (s \in R /\ arena[s] = c)
    BY Zenon
  <2> HIDE DEF S
  <2>5. abin'[c] \in [Bin -> SUBSET Run] /\ abin'[c]["normal"] = S /\ abin'[c]["recover"] = abin[c]["recover"]
    BY <2>1, <2>2, <2>3, Zenon DEF Bin
  <2> QED BY <2>4, <2>5, <1>2, Zenon
<1>4. abin' \in [Arena -> [Bin -> SUBSET Run]]
  BY <1>1, <1>3, Zenon
<1>5. /\ alloc' \in [Run -> SUBSET Region]
      /\ \A s \in Run : alloc'[s] = IF s \in R THEN Regions(s) \intersect tok ELSE alloc[s]
  <2>1. \A s \in Run : Regions(s) \subseteq Region
    BY RegionFact, Zenon
  <2> QED BY <2>1, <1>1, <1>2
<1>6. BinInv'
  <2>1. ASSUME NEW c \in Arena, NEW s \in abin'[c]["normal"]
        PROVE  s \in Live' /\ arena'[s] = c /\ alloc'[s] \subseteq Regions(s) /\ alloc'[s] # Regions(s)
    <3>1. CASE s \in R
      <4>1. s \in Run /\ s \in Live' /\ ~ Regions(s) \subseteq tok
        BY <3>1, <1>2, Zenon
      <4>2. alloc'[s] = Regions(s) \intersect tok
        BY <4>1, <3>1, <1>5, ZenonT(30)
      <4>3. arena[s] = c
        <5>1. s \notin abin[c]["normal"]
          BY <3>1, ZenonT(30) DEF SlInv, BinInv
        <5> QED BY <5>1, <2>1, <1>3, Zenon
      <4> QED BY <4>1, <4>2, <4>3, Zenon
    <3>2. CASE s \notin R
      <4>1. s \in abin[c]["normal"]
        BY <3>2, <2>1, <1>3, Zenon
      <4>2. s \in Live /\ arena[s] = c /\ alloc[s] \subseteq Regions(s) /\ alloc[s] # Regions(s)
        BY <4>1, Zenon DEF SlInv, BinInv
      <4>3. s \in Run
        BY <4>2, <1>2, Zenon DEF Live
      <4> QED BY <4>2, <4>3, <3>2, <1>5, Zenon
    <3> QED BY <3>1, <3>2, Zenon
  <2> QED BY <2>1, Zenon DEF BinInv
<1>7. AccountInv'
  <2>1. ASSUME NEW s \in Live', NEW x \in Regions(s)
        PROVE  x \in Out' <=> (s \in abin'[arena'[s]]["normal"] => x \in alloc'[s])
    <3>1. s \in bits /\ s \in Run /\ arena[s] \in Arena /\ x \in Region /\ RunOf(x) = s
      <4>1. s \in bits
        BY Zenon DEF Live
      <4> QED BY <4>1, <1>2, RegionFact, Zenon DEF SlInv, BitsInv
    <3>2. CASE s \in N
      <4>1. x \in Out' <=> x \in tok
        BY <3>1, <3>2, Zenon
      <4>2. s \notin abin[arena[s]]["normal"]
        BY <3>1, <3>2, Zenon DEF SlInv, BinInv
      <4>3. CASE s \in R
        <5>1. s \in abin'[arena'[s]]["normal"] /\ alloc'[s] = Regions(s) \intersect tok
          BY <4>3, <3>1, <1>3, <1>5, Zenon
        <5> QED BY <5>1, <4>1, Zenon
      <4>4. CASE s \notin R
        <5>1. s \notin abin'[arena'[s]]["normal"] /\ x \in tok
          BY <4>2, <4>4, <3>1, <3>2, <1>3, Zenon
        <5> QED BY <5>1, <4>1, Zenon
      <4> QED BY <4>3, <4>4, Zenon
    <3>3. CASE s \notin N
      <4>1. (x \in Out' <=> x \in Out) /\ s \in Live /\ s \notin R
        BY <3>1, <3>3, Zenon
      <4>2. x \in Out <=> (s \in abin[arena[s]]["normal"] => x \in alloc[s])
        BY <4>1, Zenon DEF SlInv, AccountInv
      <4>3. alloc'[s] = alloc[s] /\ (s \in abin'[arena'[s]]["normal"] <=> s \in abin[arena[s]]["normal"])
        BY <4>1, <3>1, <1>3, <1>5, Zenon
      <4> QED BY <4>1, <4>2, <4>3, Zenon
    <3> QED BY <3>2, <3>3, Zenon
  <2> QED BY <2>1, Zenon DEF AccountInv
<1> QED BY <1>3, <1>4, <1>5, <1>6, <1>7, ZenonT(30)

(* small_reload puts an extent with free runs in the run bin. *)
LEMMA ExtentReloadFact ==
    ASSUME SlInv, NEW e \in Extent, ExtentReload(e)
    PROVE  /\ rbin' \in [Bin -> SUBSET Extent] /\ rbin'["recover"] = {}
           /\ \A f : f \in rbin'["normal"] <=>
                        f \in rbin["normal"] \/ (f = e /\ ~ Runs(e) \subseteq bits)
<1> DEFINE S == IF Runs(e) \subseteq bits THEN rbin["normal"] ELSE rbin["normal"] \union {e}
<1>1. rbin \in [Bin -> SUBSET Extent] /\ rbin["recover"] = {} /\ "normal" \in Bin
  BY SlType DEF TypeOK, Bin
<1>2. S \in SUBSET Extent /\ rbin' = [rbin EXCEPT !["normal"] = S]
  BY <1>1, Zenon DEF ExtentReload
<1>3. \A f : f \in S <=> f \in rbin["normal"] \/ (f = e /\ ~ Runs(e) \subseteq bits)
  <2>1. CASE Runs(e) \subseteq bits
    BY <2>1, Zenon
  <2>2. CASE ~ Runs(e) \subseteq bits
    BY <2>2, SMTT(30)
  <2> QED BY <2>1, <2>2, ZenonT(30)
<1> HIDE DEF S
<1>4. rbin' \in [Bin -> SUBSET Extent] /\ rbin'["normal"] = S /\ rbin'["recover"] = rbin["recover"]
  BY <1>1, <1>2, RunBinSet, Zenon
<1> QED BY <1>1, <1>3, <1>4, Zenon

(* small_reboot of a half-used extent. *)
LEMMA RebootExtentStep ==
    ASSUME SlInv, NEW e \in Extent, RebootExtent(e)
    PROVE  SlInv'
<1> DEFINE N == Runs(e) \intersect bits \intersect cond
<1>1. /\ mode = "reboot" /\ e \in half /\ ExtentReload(e) /\ Reload(N)
      /\ cond' = cond \ N /\ half' = half \ {e}
      /\ ext' = ext /\ used' = used /\ bits' = bits /\ arena' = arena /\ tok' = tok
      /\ cache' = cache /\ known' = known /\ th' = th /\ mode' = mode
      /\ consistent' = consistent /\ recs' = recs /\ scan' = scan
  BY Zenon DEF RebootExtent, Cleaned, pool
<1>2. /\ rbin' \in [Bin -> SUBSET Extent] /\ rbin'["recover"] = {}
      /\ \A f : f \in rbin'["normal"] <=> f \in rbin["normal"] \/ (f = e /\ ~ Runs(e) \subseteq bits)
  BY <1>1, ExtentReloadFact, Zenon
<1>3. \A s : s \in N <=> s \in bits /\ s \in cond /\ ExtOf(s) = e
  <2>1. bits \subseteq Run
    BY Zenon DEF SlInv, TypeOK
  <2> QED BY <2>1, RunFact, Zenon
<1> HIDE DEF N
<1>4. known = tok /\ Pending = {} /\ Cached = {} /\ scan = 0 /\ ~ consistent
  <2>1. known = tok /\ scan = 0 /\ ~ consistent /\ \A t \in Thread : cache[t] = <<>>
    BY <1>1, SlMode, Zenon DEF ModeInv
  <2>2. Pending = {}
    BY <1>1, NoPending
  <2>3. Cached = {}
    BY <2>1, CacheEmpty, ZenonT(30) DEF SlInv, TypeOK
  <2> QED BY <2>1, <2>2, <2>3, ZenonT(30)
<1>5. ThreadInv' /\ Pending' = {} /\ PendOnce'
  <2>1. \A t \in Thread : th'[t] = Idle
    BY <1>1, SlThread DEF ThreadInv, ThreadOK
  <2> QED BY <2>1, AllIdle, ZenonT(30)
<1>6. CacheOnce' /\ Cached' = {}
  BY <1>1, <1>4, CacheKept, Zenon
<1>7. Out = tok /\ Out' = tok
  BY <1>1, <1>4, <1>5, <1>6, Zenon DEF Out
<1>8. Live' = Live \union N /\ N \intersect Live = {} /\ N \subseteq bits
  <2>1. mode' # "recover" /\ mode # "recover" /\ mode # "down" /\ mode' # "down"
    BY <1>1
  <2>2. ASSUME NEW s PROVE s \in Live' <=> s \in Live \/ s \in N
    BY <2>1, <1>1, <1>3, Zenon DEF Live
  <2>3. N \intersect Live = {}
    BY <2>1, <1>3, ZenonT(30) DEF Live
  <2> QED BY <2>2, <2>3, <1>3, Zenon
<1>9. \A r \in bits \intersect cond : ExtOf(r) \in half /\ ~ Regions(r) \subseteq tok
  BY <1>1, SlCond DEF CondInv
<1>10. /\ abin' \in [Arena -> [Bin -> SUBSET Run]] /\ \A c \in Arena : abin'[c]["recover"] = {}
       /\ alloc' \in [Run -> SUBSET Region] /\ BinInv' /\ AccountInv'
  <2>1. \A s \in N : ~ Regions(s) \subseteq tok
    BY <1>3, <1>9, Zenon
  <2>2. \A s \in N \ N : Regions(s) \subseteq tok
    BY Zenon
  <2>3. \A x \in Region : IF RunOf(x) \in N THEN x \in Out' <=> x \in tok ELSE x \in Out' <=> x \in Out
    BY <1>7, Zenon
  <2> QED BY <2>1, <2>2, <2>3, <1>1, <1>8, ReloadBins, ZenonT(30)
<1>11. TypeOK'
  BY <1>1, <1>2, <1>10, ZenonT(30) DEF SlInv, TypeOK
<1>12. ModeInv'
  <2>1. \A t \in Thread : cache'[t] = <<>>
    BY <1>1, SlMode DEF ModeInv
  <2>2. mode' = "reboot" /\ known' = tok' /\ scan' = 0 /\ ~ consistent'
    BY <1>1, <1>4, Zenon
  <2> QED BY <2>1, <2>2, Zenon DEF ModeInv
<1>13. BitsInv'
  BY <1>1, Zenon DEF SlInv, BitsInv
<1>14. HandInv'
  BY <1>5, <1>6, ZenonT(30) DEF HandInv
<1>15. PlaceInv'
  <2>1. mode' # "recover"
    BY <1>1, Zenon
  <2> QED BY <2>1, <1>1, <1>4, <1>7, ZenonT(30) DEF SlInv, PlaceInv
<1>16. ExtInv'
  <2>1. \A f \in rbin'["normal"] : ~ Runs(f) \subseteq bits
    BY <1>1, <1>2, ZenonT(30) DEF SlInv, ExtInv
  <2>2. ASSUME NEW f \in ext PROVE Runs(f) \subseteq bits \/ f \in rbin'["normal"] \/ f \in half'
    <3>1. Runs(f) \subseteq bits \/ f \in rbin["normal"] \/ f \in half
      BY <1>1, Zenon DEF SlInv, ExtInv
    <3> QED BY <3>1, <1>1, <1>2, Zenon
  <2>3. mode' = "reboot" /\ bits' = bits /\ ext' = ext
    BY <1>1, Zenon
  <2> QED BY <2>1, <2>2, <2>3, Zenon DEF ExtInv
<1>17. CondInv'
  <2>1. ASSUME NEW s \in bits' \intersect cond' PROVE ExtOf(s) \in half' /\ ~ Regions(s) \subseteq tok'
    <3>1. s \in bits /\ s \in cond /\ s \notin N
      BY <1>1, Zenon
    <3> QED BY <3>1, <1>1, <1>3, <1>9, Zenon
  <2>2. mode' = "reboot" /\ ~ consistent'
    BY <1>1, <1>4, ZenonT(30)
  <2> QED BY <2>1, <2>2 DEF CondInv
<1>18. ScanInv'
  BY <1>1 DEF ScanInv
<1> QED BY <1>5, <1>10, <1>11, <1>12, <1>13, <1>14, <1>15, <1>16, <1>17, <1>18, ZenonT(30) DEF SlInv

(* The first step of small_recover. *)
LEMMA RecoverExtentReloadStep ==
    ASSUME SlInv, NEW t \in Thread, RecoverExtentReload(t)
    PROVE  SlInv'
<1>1. /\ th[t].pc = "reload" /\ ExtentReload(th[t].ext) /\ th' = [th EXCEPT ![t].pc = "runs"]
      /\ ext' = ext /\ used' = used /\ bits' = bits /\ arena' = arena /\ tok' = tok
      /\ abin' = abin /\ alloc' = alloc
      /\ cond' = cond /\ cache' = cache /\ known' = known /\ mode' = mode /\ half' = half
      /\ consistent' = consistent /\ recs' = recs /\ scan' = scan
  BY ZenonT(30) DEF RecoverExtentReload, pool, cnd, rec
<1>2. /\ th' \in [Thread -> Local] /\ \A u \in Thread \ {t} : th'[u] = th[u]
      /\ th'[t].pc = "runs" /\ th'[t].ret = th[t].ret /\ th'[t].ext = th[t].ext
      /\ th'[t].rid = th[t].rid /\ th'[t].regs = th[t].regs
  <2>1. th \in [Thread -> Local] /\ th[t] \in Local
    BY Zenon DEF SlInv, TypeOK
  <2>2. th'[t] = [th[t] EXCEPT !.pc = "runs"] /\ \A u \in Thread \ {t} : th'[u] = th[u]
    BY <1>1, <2>1, Zenon
  <2>3. /\ th'[t] \in Local /\ th'[t].pc = "runs" /\ th'[t].ret = th[t].ret /\ th'[t].ext = th[t].ext
        /\ th'[t].rid = th[t].rid /\ th'[t].regs = th[t].regs
    BY <2>1, <2>2 DEF Local
  <2>4. th' \in [Thread -> Local]
    BY <1>1, <2>1, <2>2, <2>3, Zenon
  <2> QED BY <2>2, <2>3, <2>4, Zenon
<1>3. PICK e \in Extent : e = th[t].ext
  <2>1. th[t] \in Local
    BY Zenon DEF SlInv, TypeOK
  <2> QED BY <2>1 DEF Local
<1>4. /\ rbin' \in [Bin -> SUBSET Extent] /\ rbin'["recover"] = {}
      /\ \A f : f \in rbin'["normal"] <=> f \in rbin["normal"] \/ (f = e /\ ~ Runs(e) \subseteq bits)
  BY <1>1, <1>3, ExtentReloadFact, Zenon
<1>5. ThreadOK(t) /\ mode = "recover"
  <2>1. ThreadOK(t)
    BY Zenon DEF SlInv, ThreadInv
  <2> QED BY <2>1, <1>1 DEF ThreadOK, Idle
<1>6. Working(t)' <=> Working(t)
  BY <1>1, <1>2 DEF Working
<1>7. Live' = Live /\ ScanInv'
  BY <1>1, <1>2, <1>6, PlaceKept
<1>8. Pending' = Pending /\ PendOnce'
  BY <1>2, PendKept, Zenon
<1>9. ThreadInv'
  <2>1. ThreadOK(t)'
    BY <1>1, <1>2, <1>5 DEF ThreadOK
  <2> QED BY <2>1, <1>1, <1>2, ThreadOne, Zenon
<1>10. CacheOnce' /\ Cached' = Cached
  BY <1>1, CacheKept, Zenon
<1>11. Out' = Out
  BY <1>1, <1>8, <1>10, Zenon DEF Out
<1>12. TypeOK'
  BY <1>1, <1>2, <1>4, ZenonT(30) DEF SlInv, TypeOK
<1>13. BitsInv' /\ BinInv' /\ AccountInv'
  BY <1>1, <1>7, <1>11, ZenonT(30) DEF SlInv, BitsInv, BinInv, AccountInv
<1>14. half = {} /\ ~ consistent
  BY <1>5, SlMode, Zenon DEF ModeInv
<1>15. ModeInv' /\ CondInv'
  <2>1. Live \intersect cond = {}
    BY <1>5, Zenon DEF SlInv, CondInv
  <2>2. mode' = "recover" /\ half' = {} /\ ~ consistent' /\ Live' = Live /\ cond' = cond
    BY <1>1, <1>5, <1>7, <1>14, Zenon
  <2> QED BY <2>1, <2>2 DEF ModeInv, CondInv
<1>16. HandInv'
  BY <1>1, <1>8, <1>10, ZenonT(30) DEF SlInv, HandInv
<1>17. PlaceInv'
  BY <1>1, <1>7, <1>8, <1>11, ZenonT(30) DEF SlInv, PlaceInv
<1>18. ExtInv'
  <2>1. \A f \in rbin'["normal"] : ~ Runs(f) \subseteq bits
    BY <1>4, <1>5, Zenon DEF SlInv, ExtInv
  <2>2. ASSUME NEW f \in ext
        PROVE  \/ Runs(f) \subseteq bits \/ f \in rbin'["normal"] \/ scan <= f
               \/ \E u \in Thread : th'[u].pc = "reload" /\ th'[u].ext = f
    <3>1. \/ Runs(f) \subseteq bits \/ f \in rbin["normal"] \/ scan <= f
          \/ \E u \in Thread : th[u].pc = "reload" /\ th[u].ext = f
      BY <1>5, Zenon DEF SlInv, ExtInv
    <3>2. ASSUME NEW u \in Thread, th[u].pc = "reload", th[u].ext = f
          PROVE  \/ Runs(f) \subseteq bits \/ f \in rbin'["normal"]
                 \/ th'[u].pc = "reload" /\ th'[u].ext = f
      BY <3>2, <1>2, <1>3, <1>4, Zenon
    <3> QED BY <3>1, <3>2, <1>4, Zenon
  <2>3. mode' = "recover" /\ ~ consistent' /\ ext' = ext /\ bits' = bits /\ scan' = scan
    BY <1>1, <1>5, <1>14, Zenon
  <2> QED BY <2>1, <2>2, <2>3, Zenon DEF ExtInv
<1> QED BY <1>7, <1>9, <1>12, <1>13, <1>15, <1>16, <1>17, <1>18, ZenonT(30) DEF SlInv

(* small_recover visits the next run of its extent: a used run becomes live, *)
(* its busy regions go to the callback and its free ones to the arena.       *)
LEMMA RecoverRunStep ==
    ASSUME SlInv, NEW t \in Thread, RecoverRun(t)
    PROVE  SlInv'
<1> DEFINE e == th[t].ext
           i == th[t].rid
           r == e * NRun + i
           R == IF Regions(r) \subseteq tok THEN {} ELSE {r}
<1>1. /\ th[t].pc = "runs" /\ i < NRun
      /\ \/ /\ r \in bits /\ Reload(R) /\ cond' = cond \ {r}
            /\ th' = [th EXCEPT ![t].rid = i + 1, ![t].regs = Busy(r),
                                ![t].pc = IF Busy(r) = {} THEN "runs" ELSE "rebuild"]
         \/ /\ r \notin bits /\ th' = [th EXCEPT ![t].rid = i + 1]
            /\ abin' = abin /\ alloc' = alloc /\ cond' = cond
      /\ ext' = ext /\ used' = used /\ bits' = bits /\ arena' = arena /\ tok' = tok /\ rbin' = rbin
      /\ cache' = cache /\ known' = known /\ mode' = mode /\ half' = half
      /\ consistent' = consistent /\ recs' = recs /\ scan' = scan
  BY Zenon DEF RecoverRun, Cleaned, NextRid, pool, rec
<1>2. th \in [Thread -> Local] /\ th[t] \in Local /\ e \in Extent /\ i \in 0 .. NRun
  <2>1. th \in [Thread -> Local] /\ th[t] \in Local
    BY Zenon DEF SlInv, TypeOK
  <2> QED BY <2>1, Zenon DEF Local
<1>3. ThreadOK(t) /\ mode = "recover" /\ Working(t) /\ th[t].regs = {}
  <2>1. ThreadOK(t)
    BY Zenon DEF SlInv, ThreadInv
  <2>2. th[t].pc = "runs" /\ mode \in {"open", "close", "fault", "down", "reboot", "recover"}
    BY <1>1, Zenon DEF SlInv, TypeOK
  <2>3. mode = "recover"
    BY <2>1, <2>2, IdleFields, Zenon DEF ThreadOK
  <2> QED BY <2>1, <2>2, <2>3, Zenon DEF ThreadOK, Working
<1>4. /\ r \in Run /\ ExtOf(r) = e /\ i \in Nat /\ i + 1 \in 0 .. NRun /\ e * NRun \in Nat /\ r \in Nat
      /\ e * NRun + (i + 1) = r + 1
  <2>1. i \in 0 .. NRun - 1 /\ i \in Nat /\ i + 1 \in 0 .. NRun /\ e \in Nat /\ NRun \in Nat
    BY <1>1, <1>2, SlabAssumption DEF Extent
  <2>2. r \in Run /\ ExtOf(r) = e
    BY <2>1, <1>2, RunAt, Zenon
  <2>3. e * NRun \in Nat
    BY <2>1
  <2> QED BY <2>1, <2>2, <2>3, SMTT(30)
<1>5. /\ half = {} /\ ~ consistent /\ Live \intersect cond = {} /\ e < scan
      /\ \A u \in Thread : u # t /\ Working(u) => th[u].ext # e
  <2>1. half = {} /\ ~ consistent
    BY <1>3, SlMode DEF ModeInv
  <2>2. e < scan /\ \A u \in Thread : u # t /\ Working(u) => th[u].ext # e
    BY <1>3, Zenon DEF SlInv, ScanInv
  <2>3. Live \intersect cond = {}
    BY <1>3, Zenon DEF SlInv, CondInv
  <2> QED BY <2>1, <2>2, <2>3, ZenonT(30)
<1>6. /\ th' \in [Thread -> Local] /\ \A u \in Thread \ {t} : th'[u] = th[u]
      /\ th'[t].ext = e /\ th'[t].ret = th[t].ret /\ th'[t].rid = i + 1
      /\ r \in bits => /\ th'[t].regs = Busy(r)
                       /\ th'[t].pc = IF Busy(r) = {} THEN "runs" ELSE "rebuild"
      /\ r \notin bits => th'[t].regs = {} /\ th'[t].pc = "runs"
  <2>1. PICK j \in 0 .. NRun : j = i + 1
    BY <1>4
  <2>2. CASE r \notin bits
    <3>1. th' = [th EXCEPT ![t].rid = j]
      BY <2>1, <2>2, <1>1, Zenon
    <3>2. th'[t] = [th[t] EXCEPT !.rid = j] /\ \A u \in Thread \ {t} : th'[u] = th[u]
      BY <3>1, <1>2, Zenon
    <3>3. /\ th'[t] \in Local /\ th'[t].rid = j /\ th'[t].pc = th[t].pc /\ th'[t].ret = th[t].ret
          /\ th'[t].ext = th[t].ext /\ th'[t].regs = th[t].regs
      BY <3>2, <1>2 DEF Local
    <3>4. th' \in [Thread -> Local]
      BY <3>1, <3>3, <1>2
    <3> QED BY <3>2, <3>3, <3>4, <2>1, <2>2, <1>1, <1>3, Zenon
  <2>3. CASE r \in bits
    <3>1. PICK B \in SUBSET Region : B = Busy(r)
      <4>1. Busy(r) \in SUBSET Region
        BY RegionFact, Zenon DEF Busy
      <4> QED BY <4>1, Zenon
    <3>2. PICK p \in {"runs", "rebuild"} : p = IF Busy(r) = {} THEN "runs" ELSE "rebuild"
      BY Zenon
    <3> HIDE DEF r
    <3>3. th' = [th EXCEPT ![t].rid = j, ![t].regs = B, ![t].pc = p]
      BY <3>1, <3>2, <2>1, <2>3, <1>1, Zenon
    <3>4. /\ th'[t] = [th[t] EXCEPT !.rid = j, !.regs = B, !.pc = p]
          /\ \A u \in Thread \ {t} : th'[u] = th[u]
      BY <3>3, <1>2, Zenon
    <3> DEFINE w == [th[t] EXCEPT !.rid = j]
               v == [w EXCEPT !.regs = B]
    <3>5. th'[t] = [v EXCEPT !.pc = p]
      BY <3>4
    <3>6. /\ w \in Local /\ w.rid = j /\ w.ret = th[t].ret /\ w.ext = th[t].ext
      BY <1>2 DEF Local
    <3> HIDE DEF w
    <3>7. /\ v \in Local /\ v.rid = w.rid /\ v.ret = w.ret /\ v.ext = w.ext /\ v.regs = B
      BY <3>6 DEF Local
    <3> HIDE DEF v
    <3>8. /\ th'[t] \in Local /\ th'[t].rid = v.rid /\ th'[t].ret = v.ret /\ th'[t].ext = v.ext
          /\ th'[t].regs = v.regs /\ th'[t].pc = p
      BY <3>5, <3>7 DEF Local
    <3>9. th' \in [Thread -> Local]
      BY <3>3, <3>4, <3>8, <1>2
    <3>10. th'[t].rid = i + 1 /\ th'[t].ret = th[t].ret /\ th'[t].ext = e /\ th'[t].regs = Busy(r)
      BY <3>1, <3>6, <3>7, <3>8, <2>1, Zenon
    <3> QED BY <3>2, <3>4, <3>8, <3>9, <3>10, <2>3, Zenon
  <2> QED BY <2>2, <2>3, ZenonT(30)
<1>7. /\ ext' = ext /\ used' = used /\ bits' = bits /\ arena' = arena /\ tok' = tok /\ rbin' = rbin
      /\ cache' = cache /\ known' = known /\ mode' = mode /\ half' = half
      /\ consistent' = consistent /\ recs' = recs /\ scan' = scan /\ th[t].pc = "runs"
  BY <1>1, Zenon
<1>8. r \in bits => Reload(R) /\ cond' = cond \ {r}
  BY <1>1, Zenon
<1>9. r \notin bits => abin' = abin /\ alloc' = alloc /\ cond' = cond
  BY <1>1, Zenon
<1>10. Working(t)' /\ \A u \in Thread : Working(u)' <=> Working(u)
  <2>1. Working(t)'
    BY <1>6 DEF Working
  <2> QED BY <2>1, <1>3, <1>6, ZenonT(30) DEF Working
<1>11. ASSUME NEW u \in Thread, NEW s \in bits
       PROVE  Ahead(u, s)' <=> Ahead(u, s) /\ s # r
  <2>1. s \in Run
    BY Zenon DEF SlInv, TypeOK
  <2>2. CASE u # t
    <3>1. th'[u] = th[u] /\ (Working(u)' <=> Working(u))
      BY <2>2, <1>6, <1>10, Zenon
    <3>2. Ahead(u, s)' <=> Ahead(u, s)
      BY <3>1, Zenon DEF Ahead
    <3>3. Ahead(u, s) => s # r
      BY <2>2, <1>4, <1>5, Zenon DEF Ahead
    <3> QED BY <3>2, <3>3, Zenon
  <2>3. CASE u = t
    <3>1. s \in Nat
      <4>1. NExtent * NRun \in Nat
        BY SlabAssumption
      <4> QED BY <4>1, <2>1, SMTT(30) DEF Run
    <3>2. Ahead(t, s) <=> e = ExtOf(s) /\ r <= s
      BY <1>3, Zenon DEF Ahead
    <3>3. Ahead(t, s)' <=> e = ExtOf(s) /\ r + 1 <= s
      BY <1>4, <1>6, <1>10, ZenonT(30) DEF Ahead
    <3> HIDE DEF r
    <3>4. r + 1 <= s <=> r <= s /\ s # r
      BY <3>1, <1>4
    <3> QED BY <3>2, <3>3, <3>4, <2>3, Zenon
  <2> QED BY <2>2, <2>3, Zenon
<1>12. r \in bits => Ahead(t, r)
  <2>1. r <= r
    BY <1>4
  <2> QED BY <2>1, <1>3, <1>4, ZenonT(30) DEF Ahead
<1> DEFINE N == bits \intersect {r}
<1> HIDE DEF r, R, e, i
<1>13. Live' = Live \union N /\ N \intersect Live = {}
  <2>1. ASSUME NEW s \in bits
        PROVE  /\ s \in Live <=> ExtOf(s) < scan /\ \A u \in Thread : ~ Ahead(u, s)
               /\ s \in Live' <=> ExtOf(s) < scan /\ \A u \in Thread : ~ Ahead(u, s)'
    BY <1>3, <1>7 DEF Live
  <2>2. \A s : (s \in Live => s \in bits) /\ (s \in Live' => s \in bits)
    BY <1>7, Zenon DEF Live
  <2>3. r \in bits => r \notin Live /\ r \in Live'
    <3>1. ASSUME r \in bits PROVE r \notin Live /\ r \in Live'
      <4>0. PICK s \in bits : s = r
        BY <3>1, Zenon
      <4>1. \A u \in Thread : ~ Ahead(u, s)'
        BY <4>0, <1>11, Zenon
      <4>2. ExtOf(s) < scan /\ Ahead(t, s)
        BY <4>0, <1>4, <1>5, <1>12, Zenon
      <4>3. s \notin Live /\ s \in Live'
        BY <4>1, <4>2, <2>1, Zenon
      <4> QED BY <4>0, <4>3, Zenon
    <3> QED BY <3>1, Zenon
  <2>4. ASSUME NEW s \in bits, s # r PROVE s \in Live' <=> s \in Live
    BY <2>1, <2>4, <1>11, Zenon
  <2>5. ASSUME NEW s PROVE s \in Live' <=> s \in Live \union N
    BY <2>2, <2>3, <2>4, Zenon
  <2>6. N \intersect Live = {}
    BY <2>3, Zenon
  <2> QED BY <2>5, <2>6, Zenon
<1>14. th'[t].regs = IF r \in bits THEN Busy(r) ELSE {}
  BY <1>6, Zenon
<1>15. \A x : x \in Busy(r) <=> x \in tok /\ x \in Region /\ RunOf(x) = r
  BY RegionFact, Zenon DEF Busy
<1>16. \A x : x \in Pending' <=> x \in Pending \/ (r \in bits /\ x \in Busy(r))
  <2>1. ASSUME NEW x PROVE x \in Pending' <=> x \in Pending \/ (r \in bits /\ x \in Busy(r))
    <3>1. x \in Pending <=> \E u \in Thread \ {t} : x \in th[u].regs
      BY <1>3, PendFact, Zenon
    <3>2. x \in Pending' <=> x \in th'[t].regs \/ \E u \in Thread \ {t} : x \in th[u].regs
      BY <1>6, PendFact, Zenon
    <3>3. x \in th'[t].regs <=> r \in bits /\ x \in Busy(r)
      BY <1>14, Zenon
    <3> QED BY <3>1, <3>2, <3>3, Zenon
  <2> QED BY <2>1, Zenon
<1>17. \A x \in Out : RunOf(x) \in bits /\ RunOf(x) \in Live
  BY <1>3, Zenon DEF SlInv, PlaceInv
<1>18. r \in bits => r \notin Live
  BY <1>13, Zenon
<1>19. PendOnce'
  <2>1. ASSUME NEW u \in Thread \ {t}, NEW x, x \in th'[u].regs, x \in th'[t].regs PROVE FALSE
    <3>1. x \in th[u].regs /\ r \in bits /\ RunOf(x) = r
      BY <2>1, <1>6, <1>14, <1>15, Zenon
    <3>2. x \in Out
      BY <3>1, PendFact, Zenon DEF Out
    <3> QED BY <3>1, <3>2, <1>17, <1>18, Zenon
  <2>2. \A u \in Thread \ {t} : th'[u].regs \intersect th'[t].regs = {}
    BY <2>1, Zenon
  <2>3. \A s, u \in Thread \ {t} : s # u => th'[s].regs \intersect th'[u].regs = {}
    BY <1>6, Zenon DEF SlInv, HandInv, PendOnce
  <2> QED BY <2>2, <2>3, Zenon DEF PendOnce
<1>20. CacheOnce' /\ Cached' = Cached
  BY <1>7, CacheKept, Zenon
<1>21. \A x : x \in Out' <=> x \in Out \/ (r \in bits /\ x \in Busy(r))
  BY <1>7, <1>16, <1>20, Zenon DEF Out
<1>22. /\ abin' \in [Arena -> [Bin -> SUBSET Run]] /\ \A c \in Arena : abin'[c]["recover"] = {}
       /\ alloc' \in [Run -> SUBSET Region] /\ BinInv' /\ AccountInv'
  <2>1. CASE r \in bits
    <3>1. R \subseteq N /\ (\A s \in R : ~ Regions(s) \subseteq tok) /\ \A s \in N \ R : Regions(s) \subseteq tok
      BY <2>1, Zenon DEF R
    <3>2. ASSUME NEW x \in Region
          PROVE  IF RunOf(x) \in N THEN x \in Out' <=> x \in tok ELSE x \in Out' <=> x \in Out
      <4>1. CASE RunOf(x) \in N
        <5>1. RunOf(x) = r /\ x \notin Out
          BY <4>1, <2>1, <1>17, <1>18, Zenon
        <5>2. x \in Out' <=> x \in tok
          BY <5>1, <2>1, <1>15, <1>21, Zenon
        <5> QED BY <5>2, <4>1, Zenon
      <4>2. CASE RunOf(x) \notin N
        <5>1. RunOf(x) # r
          BY <4>2, <2>1, Zenon
        <5>2. x \in Out' <=> x \in Out
          BY <5>1, <1>15, <1>21, Zenon
        <5> QED BY <5>2, <4>2, Zenon
      <4> QED BY <4>1, <4>2, Zenon
    <3>3. N \subseteq bits /\ Reload(R) /\ arena' = arena /\ bits' = bits
      BY <2>1, <1>7, <1>8, Zenon
    <3> HIDE DEF N
    <3> QED BY <3>1, <3>2, <3>3, <1>13, ReloadBins, Zenon
  <2>2. CASE r \notin bits
    <3>1. Live' = Live
      BY <2>2, <1>13, Zenon
    <3>2. Out' = Out
      BY <2>2, <1>21, Zenon
    <3>3. BinInv' /\ AccountInv'
      BY <3>1, <3>2, <2>2, <1>7, <1>9, ZenonT(30) DEF SlInv, BinInv, AccountInv
    <3> QED BY <3>3, <2>2, <1>9, ZenonT(30) DEF SlInv, TypeOK
  <2> QED BY <2>1, <2>2, Zenon
<1>23. cond' \subseteq cond /\ (r \in bits => r \notin cond')
  <2>1. CASE r \in bits
    BY <2>1, <1>8, Zenon
  <2>2. CASE r \notin bits
    BY <2>2, <1>9, ZenonT(30)
  <2> QED BY <2>1, <2>2, Zenon
<1>24. TypeOK'
  BY <1>6, <1>7, <1>22, <1>23, ZenonT(30) DEF SlInv, TypeOK
<1>25. ThreadInv'
  <2>1. ThreadOK(t)'
    <3>1. th'[t].pc \in {"runs", "rebuild"} /\ (th'[t].pc = "runs" => th'[t].regs = {}) /\ mode' = "recover"
      BY <1>3, <1>6, <1>7, Zenon
    <3> QED BY <3>1, Zenon DEF ThreadOK
  <2> QED BY <2>1, <1>6, <1>7, ThreadOne, ZenonT(30)
<1>26. ModeInv' /\ BitsInv'
  <2>1. ModeInv'
    BY <1>3, <1>5, <1>7, SMTT(30) DEF ModeInv
  <2> QED BY <2>1, <1>7, ZenonT(30) DEF SlInv, BitsInv
<1>27. HandInv'
  <2>1. ASSUME NEW x \in Pending' PROVE x \in tok' \ known'
    <3>1. CASE x \in Pending
      BY <3>1, <1>7, ZenonT(30) DEF SlInv, HandInv
    <3>2. CASE x \notin Pending
      <4>1. r \in bits /\ x \in tok /\ RunOf(x) = r
        BY <3>2, <1>15, <1>16, Zenon
      <4>2. x \notin known
        BY <4>1, <1>17, <1>18, Zenon DEF Out
      <4> QED BY <4>1, <4>2, <1>7, Zenon
    <3> QED BY <3>1, <3>2, Zenon
  <2> QED BY <2>1, <1>7, <1>19, <1>20, ZenonT(30) DEF SlInv, HandInv
<1>28. PlaceInv'
  <2>1. ASSUME NEW x \in Out' PROVE RunOf(x) \in bits /\ RunOf(x) \in Live'
    <3>1. CASE x \in Out
      BY <3>1, <1>13, <1>17, Zenon
    <3>2. CASE x \notin Out
      <4>1. r \in bits /\ RunOf(x) = r
        BY <3>2, <1>15, <1>21, Zenon
      <4> QED BY <4>1, <1>13, Zenon
    <3> QED BY <3>1, <3>2, Zenon
  <2>2. ASSUME NEW x \in tok PROVE RunOf(x) \in bits /\ (RunOf(x) \in Live' => x \in known \union Pending')
    <3>1. RunOf(x) \in bits /\ (RunOf(x) \in Live => x \in known \union Pending) /\ x \in Region
      BY Zenon DEF SlInv, PlaceInv, TypeOK
    <3>2. CASE RunOf(x) \in Live
      BY <3>1, <3>2, <1>16, Zenon
    <3>3. CASE RunOf(x) \notin Live
      <4>1. RunOf(x) \in Live' => r \in bits /\ x \in Busy(r)
        BY <3>1, <3>3, <1>13, <1>15, Zenon
      <4> QED BY <4>1, <3>1, <1>16, Zenon
    <3> QED BY <3>2, <3>3, Zenon
  <2> QED BY <2>1, <2>2, <1>7, Zenon DEF PlaceInv
<1>29. ExtInv'
  <2>1. ASSUME NEW u \in Thread, th[u].pc = "reload" PROVE th'[u].pc = "reload" /\ th'[u].ext = th[u].ext
    <3>1. u # t
      BY <2>1, <1>7, Zenon
    <3> QED BY <3>1, <2>1, <1>6, Zenon
  <2> QED BY <2>1, <1>7, ExtKept, Zenon
<1>30. CondInv'
  <2>1. Live' \intersect cond' = {}
    BY <1>5, <1>13, <1>23, Zenon
  <2>2. mode' = "recover" /\ ~ consistent'
    BY <1>3, <1>5, <1>7, Zenon
  <2> QED BY <2>1, <2>2 DEF CondInv
<1>31. ScanInv'
  <2>1. ASSUME NEW u \in Thread
        PROVE  /\ Working(u)' => Working(u) /\ th'[u].ext = th[u].ext
               /\ th'[u].pc = "done" => th[u].pc = "done"
    <3>1. CASE u = t
      <4>1. th'[t].pc # "done"
        BY <1>6
      <4> QED BY <4>1, <3>1, <1>3, <1>6, ZenonT(30) DEF e
    <3>2. CASE u # t
      BY <3>2, <1>6, <1>10, ZenonT(30)
    <3> QED BY <3>1, <3>2, Zenon
  <2> QED BY <2>1, <1>7, ScanSame, ZenonT(30)
<1> QED BY <1>22, <1>24, <1>25, <1>26, <1>27, <1>28, <1>29, <1>30, <1>31, ZenonT(30) DEF SlInv

(* Without callbacks that acquire, recovery creates no extents. *)
LEMMA NoAcquire ==
    ASSUME SlInv, "acquire" \notin Rebuild, NEW t \in Thread
    PROVE  /\ ~ RecoverAcquire(t) /\ ~ RecoverExtent(t) /\ ~ RecordExtent(t)
           /\ \A x \in Region : ~ RecoverRelease(t, x)
<1>1. ~ RecoverAcquire(t) /\ ~ RecoverExtent(t)
  BY Zenon DEF RecoverAcquire, RecoverExtent, InCallback
<1>2. ~ RecordExtent(t)
  <2>1. ThreadOK(t) /\ mode \in {"open", "close", "fault", "down", "reboot", "recover"}
    BY ZenonT(30) DEF SlInv, ThreadInv, TypeOK
  <2>2. th[t].pc # "recs"
    BY <2>1, IdleFields, Zenon DEF ThreadOK
  <2> QED BY <2>2, Zenon DEF RecordExtent
<1>3. ASSUME NEW x \in Region PROVE ~ RecoverRelease(t, x)
  <2>1. recs = {}
    BY Zenon DEF SlInv, TypeOK
  <2> QED BY <2>1, Zenon DEF RecoverRelease
<1> QED BY <1>1, <1>2, <1>3, Zenon

-----------------------------------------------------------------------------
(* A thread that spills has something to spill. *)

(* A step of one thread that, if it spills, has something to spill. *)
LEMMA SpillOne ==
    ASSUME SpillInv, NEW t \in Thread,
           \A u \in Thread \ {t} : th'[u] = th[u] /\ cache'[u] = cache[u],
           th'[t].pc = "spill" => cache'[t] # <<>>
    PROVE  SpillInv'
<1>1. ASSUME NEW u \in Thread, th'[u].pc = "spill" PROVE cache'[u] # <<>>
  <2>1. CASE u = t
    BY <2>1, <1>1, Zenon
  <2>2. CASE u # t
    <3>1. th'[u] = th[u] /\ cache'[u] = cache[u]
      BY <2>2, ZenonT(30)
    <3> QED BY <3>1, <1>1, Zenon DEF SpillInv
  <2> QED BY <2>1, <2>2, Zenon
<1> QED BY <1>1, Zenon DEF SpillInv

(* Idle threads do not spill. *)
LEMMA SpillNone ==
    ASSUME \A t \in Thread : th'[t] = Idle
    PROVE  SpillInv'
  BY IdleFields, Zenon DEF SpillInv

(* Steps that touch one thread and its cache bin. *)
LEMMA SpillStepOne ==
    ASSUME SlInv, SpillInv, NEW t \in Thread, Step(t)
    PROVE  SpillInv'
<1>1. th \in [Thread -> Local] /\ th[t] \in Local /\ cache \in [Thread -> Seq(Region)]
  BY Zenon DEF SlInv, TypeOK
<1>2. CASE AcquireCached(t)
  <2>1. th' = th /\ th[t].pc = "idle" /\ cache' = [cache EXCEPT ![t] = Tail(@)]
    BY <1>2, Zenon DEF AcquireCached
  <2>2. \A u \in Thread \ {t} : th'[u] = th[u] /\ cache'[u] = cache[u]
    BY <2>1, <1>1, ZenonT(30)
  <2>3. th'[t].pc # "spill"
    BY <2>1, Zenon
  <2> QED BY <2>2, <2>3, SpillOne, Zenon
<1>3. CASE AcquireFill(t)
  <2>1. th' = [th EXCEPT ![t].pc = "fill"] /\ cache' = cache
    BY <1>3, Zenon DEF AcquireFill
  <2>2. \A u \in Thread \ {t} : th'[u] = th[u] /\ cache'[u] = cache[u]
    BY <2>1, <1>1, Zenon
  <2>3. th'[t].pc # "spill"
    BY <2>1, <1>1, SMTT(30) DEF Local
  <2> QED BY <2>2, <2>3, SpillOne, Zenon
<1>4. CASE FillCacheBin(t)
  <2>1. th' = th /\ th[t].pc = "fill" /\ \E q : cache' = [cache EXCEPT ![t] = @ \o q]
    BY <1>4, Zenon DEF FillCacheBin, Filling
  <2>2. \A u \in Thread \ {t} : th'[u] = th[u] /\ cache'[u] = cache[u]
    BY <2>1, <1>1, Zenon
  <2>3. th'[t].pc # "spill"
    BY <2>1
  <2> QED BY <2>2, <2>3, SpillOne, Zenon
<1>5. CASE SelectRun(t)
  <2>1. th' = th /\ cache' = cache
    BY <1>5, Zenon DEF SelectRun
  <2> QED BY <2>1, Zenon DEF SpillInv
<1>6. CASE FillDone(t)
  <2>1. /\ th' = [th EXCEPT ![t].pc = "idle"]
        /\ cache' = [cache EXCEPT ![t] = IF @ = <<>> THEN @ ELSE Tail(@)]
    BY <1>6, Zenon DEF FillDone
  <2>2. \A u \in Thread \ {t} : th'[u] = th[u] /\ cache'[u] = cache[u]
    BY <2>1, <1>1, Zenon
  <2>3. th'[t].pc # "spill"
    BY <2>1, <1>1 DEF Local
  <2> QED BY <2>2, <2>3, SpillOne, Zenon
<1>7. CASE NullMeta(t)
  <2>1. \A u \in Thread : th'[u] = Idle
    BY <1>7, Zenon DEF NullMeta
  <2> QED BY <2>1, SpillNone, Zenon
<1>8. CASE Spill(t)
  <2>1. /\ cache' = [cache EXCEPT ![t] = Tail(@)]
        /\ \/ Len(cache'[t]) >= Stock /\ th' = th
           \/ th' = [th EXCEPT ![t].pc = th[t].ret, ![t].ret = "idle"]
    BY <1>8, Zenon DEF Spill
  <2>2. \A u \in Thread \ {t} : th'[u] = th[u] /\ cache'[u] = cache[u]
    BY <2>1, <1>1, Zenon
  <2>3. CASE Len(cache'[t]) >= Stock /\ th' = th
    <3>1. Len(cache'[t]) # 0
      <4>1. Stock \in Nat /\ Stock >= 1
        BY SlabAssumption
      <4> QED BY <4>1, <2>3, SMTT(30)
    <3>2. cache'[t] # <<>>
      BY <3>1
    <3> QED BY <3>2, <2>2, SpillOne, Zenon
  <2>4. CASE th' = [th EXCEPT ![t].pc = th[t].ret, ![t].ret = "idle"]
    <3>1. th'[t].pc = th[t].ret
      BY <2>4, <1>1 DEF Local
    <3>2. th[t].ret # "spill"
      BY <1>1 DEF Local
    <3>3. th'[t].pc # "spill"
      BY <3>1, <3>2, Zenon
    <3> QED BY <3>3, <2>2, SpillOne, Zenon
  <2> QED BY <2>1, <2>3, <2>4, Zenon
<1>9. ASSUME NEW x \in Region, Release(t, x) PROVE SpillInv'
  <2>1. /\ cache' = [cache EXCEPT ![t] = Append(@, x)]
        /\ th' = th \/ th' = [th EXCEPT ![t].pc = "spill", ![t].ret = th[t].pc]
    BY <1>9, Zenon DEF Release
  <2>2. \A u \in Thread \ {t} : th'[u] = th[u] /\ cache'[u] = cache[u]
    BY <2>1, <1>1, Zenon
  <2>3. cache'[t] # <<>>
    <3>1. cache[t] \in Seq(Region)
      BY <1>1, Zenon
    <3>2. cache'[t] = Append(cache[t], x)
      BY <2>1, <1>1, Zenon
    <3>3. Len(Append(cache[t], x)) = Len(cache[t]) + 1 /\ Len(cache[t]) \in Nat
      BY <3>1
    <3>4. Len(cache'[t]) # 0
      BY <3>2, <3>3
    <3> QED BY <3>4
  <2> QED BY <2>2, <2>3, SpillOne, Zenon
<1> QED BY <1>2, <1>3, <1>4, <1>5, <1>6, <1>7, <1>8, <1>9, ZenonT(30) DEF Step

(* Steps of a recovery. *)
LEMMA SpillRecoverOne ==
    ASSUME SlInv, SpillInv, NEW t \in Thread, Recover(t), "acquire" \notin Rebuild
    PROVE  SpillInv'
<1>1. th \in [Thread -> Local] /\ th[t] \in Local
  BY Zenon DEF SlInv, TypeOK
<1>2. CASE RecoverNext(t)
  <2>1. /\ cache' = cache
        /\ \/ th' = [th EXCEPT ![t].pc = "done"]
           \/ \E e : th' = [th EXCEPT ![t].pc = "reload", ![t].ext = e]
    BY <1>2, Zenon DEF RecoverNext
  <2>2. \A u \in Thread \ {t} : th'[u] = th[u] /\ cache'[u] = cache[u]
    BY <2>1, <1>1, Zenon
  <2>3. th'[t].pc # "spill"
    <3>1. CASE th' = [th EXCEPT ![t].pc = "done"]
      BY <3>1, <1>1 DEF Local
    <3>2. ASSUME NEW e, th' = [th EXCEPT ![t].pc = "reload", ![t].ext = e] PROVE th'[t].pc # "spill"
      BY <3>2, <1>1, Zenon DEF Local
    <3> QED BY <3>1, <3>2, <2>1, Zenon
  <2> QED BY <2>2, <2>3, SpillOne, Zenon
<1>3. CASE RecoverExtentReload(t)
  <2>1. cache' = cache /\ th' = [th EXCEPT ![t].pc = "runs"]
    BY <1>3, Zenon DEF RecoverExtentReload
  <2>2. \A u \in Thread \ {t} : th'[u] = th[u] /\ cache'[u] = cache[u]
    BY <2>1, <1>1, Zenon
  <2>3. th'[t].pc # "spill"
    BY <2>1, <1>1, Zenon DEF Local
  <2> QED BY <2>2, <2>3, SpillOne, Zenon
<1>4. CASE RecoverRun(t)
  <2> DEFINE r == th[t].ext * NRun + th[t].rid
             p == IF Busy(r) = {} THEN "runs" ELSE "rebuild"
  <2>1. /\ cache' = cache /\ th[t].pc = "runs"
        /\ \/ th' = [th EXCEPT ![t].rid = NextRid(@), ![t].regs = Busy(r), ![t].pc = p]
           \/ th' = [th EXCEPT ![t].rid = NextRid(@)]
    BY <1>4, Zenon DEF RecoverRun
  <2>2. p # "spill"
    OBVIOUS
  <2> HIDE DEF p, r
  <2>3. \A u \in Thread \ {t} : th'[u] = th[u] /\ cache'[u] = cache[u]
    BY <2>1, <1>1, Zenon
  <2>4. th'[t].pc # "spill"
    <3>1. CASE th' = [th EXCEPT ![t].rid = NextRid(@), ![t].regs = Busy(r), ![t].pc = p]
      <4>1. th'[t].pc = p
        BY <3>1, <1>1 DEF Local
      <4> QED BY <4>1, <2>2, Zenon
    <3>2. CASE th' = [th EXCEPT ![t].rid = NextRid(@)]
      <4>1. th'[t].pc = th[t].pc
        BY <3>2, <1>1, Zenon DEF Local
      <4> QED BY <4>1, <2>1
    <3> QED BY <3>1, <3>2, <2>1, Zenon
  <2> QED BY <2>3, <2>4, SpillOne, Zenon
<1>5. CASE RecoverExtentDone(t)
  <2>1. cache' = cache /\ th' = [th EXCEPT ![t] = Idle]
    BY <1>5, Zenon DEF RecoverExtentDone
  <2>2. \A u \in Thread \ {t} : th'[u] = th[u] /\ cache'[u] = cache[u]
    BY <2>1, <1>1, ZenonT(30)
  <2>3. th'[t].pc # "spill"
    BY <2>1, <1>1, Zenon DEF Idle
  <2> QED BY <2>2, <2>3, SpillOne, Zenon
<1>6. CASE RebuildRegion(t)
  <2>1. cache' = cache /\ th[t].pc = "rebuild" /\ \E B : th' = [th EXCEPT ![t].regs = B]
    BY <1>6, Zenon DEF RebuildRegion
  <2>2. \A u \in Thread \ {t} : th'[u] = th[u] /\ cache'[u] = cache[u]
    BY <2>1, <1>1, Zenon
  <2>3. th'[t].pc # "spill"
    BY <2>1, <1>1, Zenon DEF Local
  <2> QED BY <2>2, <2>3, SpillOne, Zenon
<1>7. CASE RebuildDone(t)
  <2>1. cache' = cache /\ th' = [th EXCEPT ![t].pc = "runs"]
    BY <1>7, Zenon DEF RebuildDone
  <2>2. \A u \in Thread \ {t} : th'[u] = th[u] /\ cache'[u] = cache[u]
    BY <2>1, <1>1, Zenon
  <2>3. th'[t].pc # "spill"
    BY <2>1, <1>1 DEF Local
  <2> QED BY <2>2, <2>3, SpillOne, Zenon
<1>8. CASE RecoverAcquire(t) \/ RecoverExtent(t) \/ RecordExtent(t) \/ \E x \in Region : RecoverRelease(t, x)
  BY <1>8, NoAcquire, Zenon
<1> QED BY <1>2, <1>3, <1>4, <1>5, <1>6, <1>7, <1>8, ZenonT(30) DEF Recover

-----------------------------------------------------------------------------
(* Everything together. *)

(* A new allocator satisfies the invariant. *)
LEMMA SlabInit == Init => SlabIInv
<1> SUFFICES ASSUME Init PROVE SlabIInv
  OBVIOUS
<1>1. /\ ext = {} /\ used = 0 /\ bits = {} /\ tok = {} /\ cond = {}
      /\ arena = [r \in Run |-> None] /\ rbin = [b \in Bin |-> {}]
      /\ abin = [a \in Arena |-> [b \in Bin |-> {}]] /\ alloc = [r \in Run |-> {}]
      /\ cache = [t \in Thread |-> <<>>] /\ known = {} /\ th = [t \in Thread |-> Idle]
      /\ mode = "open" /\ half = {} /\ consistent = FALSE /\ recs = {} /\ scan = 0
  BY Zenon DEF Init
<1>2. /\ \A t \in Thread : cache[t] = <<>> /\ th[t] = Idle
      /\ rbin["normal"] = {} /\ rbin["recover"] = {}
      /\ \A a \in Arena : abin[a]["normal"] = {} /\ abin[a]["recover"] = {}
  BY <1>1 DEF Bin
<1>3. /\ ext = {} /\ used = 0 /\ bits = {} /\ tok = {} /\ cond = {} /\ known = {}
      /\ mode = "open" /\ half = {} /\ ~ consistent /\ recs = {} /\ scan = 0
  BY <1>1, Zenon
<1>4. TypeOK
  <2>1. /\ rbin \in [Bin -> SUBSET Extent] /\ abin \in [Arena -> [Bin -> SUBSET Run]]
        /\ alloc \in [Run -> SUBSET Region] /\ cache \in [Thread -> Seq(Region)]
        /\ arena \in [Run -> Arena \union {None}]
    BY <1>1
  <2>2. th \in [Thread -> Local]
    BY <1>1, IdleLocal, Zenon
  <2>3. used \in 0 .. NExtent /\ scan \in 0 .. NExtent
    BY <1>3, SlabAssumption
  <2>4. mode \in {"open", "close", "fault", "down", "reboot", "recover"}
    BY <1>3
  <2>5. ext \subseteq Extent /\ bits \subseteq Run /\ tok \subseteq Region /\ cond \subseteq Run
        /\ known \subseteq Region /\ half \subseteq Extent /\ recs = {}
    BY <1>3, ZenonT(30)
  <2> QED BY <2>1, <2>2, <2>3, <2>4, <2>5, <1>2, ZenonT(30) DEF TypeOK
<1>5. \A t \in Thread : th[t].pc = "idle" /\ th[t].ret = "idle" /\ th[t].rid = 0 /\ th[t].regs = {}
  BY <1>2, IdleFields, Zenon
<1>6. ThreadInv /\ SpillInv
  BY <1>3, <1>5, Zenon DEF ThreadInv, ThreadOK, SpillInv
<1>7. Cached = {} /\ CacheOnce
  <2>1. DOMAIN <<>> = {}
    OBVIOUS
  <2>2. Cached = {}
    BY <1>2, <1>4, CacheEmpty, Zenon DEF TypeOK
  <2> QED BY <2>1, <2>2, <1>2, Zenon DEF CacheOnce
<1>8. Pending = {} /\ PendOnce
  BY <1>5, PendFact, Zenon DEF PendOnce
<1>9. Out = {} /\ \A r : r \notin Live
  BY <1>3, <1>7, <1>8, ZenonT(30) DEF Out, Live
<1>10. ModeInv
  BY <1>2, <1>3, Zenon DEF ModeInv
<1>11. BitsInv /\ BinInv /\ AccountInv
  BY <1>2, <1>3, <1>9, Zenon DEF BitsInv, BinInv, AccountInv
<1>12. HandInv /\ PlaceInv
  BY <1>3, <1>7, <1>8, <1>9, ZenonT(30) DEF HandInv, PlaceInv
<1>13. ExtInv /\ CondInv /\ ScanInv
  BY <1>2, <1>3 DEF ExtInv, CondInv, ScanInv
<1> QED BY <1>4, <1>6, <1>10, <1>11, <1>12, <1>13, ZenonT(30) DEF SlInv, SlabIInv

\* The rebuild callback only looks at regions and releases them, as the callback
\* of the store does (HashStore::open): it does not acquire.
AcquireFree == "acquire" \notin Rebuild

-----------------------------------------------------------------------------
(* Steps that take the least element of a set. *)

WF == INSTANCE WellFoundedInduction

(* Least picks the least element. *)
LEMMA LeastIn ==
    ASSUME NEW S, S \subseteq Nat, S # {}
    PROVE  Least(S) \in S /\ \A y \in S : Least(S) <= y
<1>1. \E x \in S : \A y \in S : ~ (<<y, x>> \in WF!OpToRel(<, Nat))
  BY WF!NatLessThanWellFounded, WF!WFMin, Zenon
<1>2. \E x \in S : \A y \in S : x <= y
  <2>1. PICK x \in S : \A y \in S : ~ (<<y, x>> \in WF!OpToRel(<, Nat))
    BY <1>1, Zenon
  <2>2. ASSUME NEW y \in S PROVE x <= y
    <3>1. x \in Nat /\ y \in Nat
      BY Zenon
    <3>2. ~ (<<y, x>> \in WF!OpToRel(<, Nat))
      BY <2>1, Zenon
    <3>3. ~ (y < x)
      BY <3>1, <3>2, Zenon DEF WF!OpToRel
    <3> QED BY <3>1, <3>3
  <2> QED BY <2>2, Zenon
<1> QED BY <1>2, Zenon DEF Least

(* rebuild(reg): a pending region becomes known. *)
LEMMA RebuildRegionStep ==
    ASSUME SlInv, NEW t \in Thread, RebuildRegion(t)
    PROVE  SlInv'
<1> DEFINE x == Least(th[t].regs)
<1>1. /\ th[t].pc = "rebuild" /\ th[t].regs # {} /\ known' = known \union {x}
      /\ th' = [th EXCEPT ![t].regs = @ \ {x}] /\ cache' = cache
      /\ ext' = ext /\ used' = used /\ bits' = bits /\ arena' = arena /\ tok' = tok
      /\ cond' = cond /\ rbin' = rbin /\ abin' = abin /\ alloc' = alloc
      /\ mode' = mode /\ half' = half /\ consistent' = consistent /\ recs' = recs /\ scan' = scan
  BY Zenon DEF RebuildRegion, pool, cnd, bins, rec
<1>0. x \in th[t].regs
  <2>1. th[t].regs \subseteq Nat
    <3>1. th[t] \in Local
      BY Zenon DEF SlInv, TypeOK
    <3>2. th[t].regs \subseteq Region
      BY <3>1, Zenon DEF Local
    <3>3. Region \subseteq Nat
      BY SlabAssumption DEF Region
    <3> QED BY <3>2, <3>3, Zenon
  <2> QED BY <2>1, <1>1, LeastIn, Zenon
<1> HIDE DEF x
<1>2. /\ th' \in [Thread -> Local] /\ \A u \in Thread \ {t} : th'[u] = th[u]
      /\ th'[t].pc = th[t].pc /\ th'[t].ret = th[t].ret /\ th'[t].ext = th[t].ext
      /\ th'[t].rid = th[t].rid /\ th'[t].regs = th[t].regs \ {x}
  <2>1. th \in [Thread -> Local] /\ th[t] \in Local
    BY Zenon DEF SlInv, TypeOK
  <2>2. th'[t] = [th[t] EXCEPT !.regs = th[t].regs \ {x}] /\ \A u \in Thread \ {t} : th'[u] = th[u]
    BY <1>1, <2>1, Zenon
  <2>3. /\ th'[t] \in Local /\ th'[t].pc = th[t].pc /\ th'[t].ret = th[t].ret /\ th'[t].ext = th[t].ext
        /\ th'[t].rid = th[t].rid /\ th'[t].regs = th[t].regs \ {x}
    BY <2>1, <2>2 DEF Local
  <2>4. th' \in [Thread -> Local]
    BY <1>1, <2>1, <2>2, <2>3, Zenon
  <2> QED BY <2>2, <2>3, <2>4, Zenon
<1>3. mode = "recover" /\ (Working(t)' <=> Working(t))
  BY <1>1, <1>2, InRecovery, Zenon DEF Working
<1>4. Live' = Live /\ ScanInv'
  BY <1>1, <1>2, <1>3, PlaceKept, Zenon
<1>5. Pending' = Pending \ {x} /\ x \in Pending /\ PendOnce'
  <2>1. PendOnce
    BY Zenon DEF SlInv, HandInv
  <2>2. \A u \in Thread \ {t} : x \notin th[u].regs
    BY <2>1, <1>0, Zenon DEF PendOnce
  <2>3. ASSUME NEW y PROVE y \in Pending' <=> y \in Pending \ {x}
    BY <2>2, <1>2, PendFact, ZenonT(30)
  <2>4. PendOnce'
    <3>1. \A u \in Thread : th'[u].regs \subseteq th[u].regs
      BY <1>2, Zenon
    <3> QED BY <3>1, <2>1, Zenon DEF PendOnce
  <2>5. x \in Pending
    BY <1>0, PendFact, Zenon
  <2> QED BY <2>3, <2>4, <2>5, Zenon
<1>6. ThreadInv'
  <2>1. ThreadOK(t)'
    BY <1>1, <1>2, <1>3, SlThread, Zenon DEF ThreadInv, ThreadOK
  <2> QED BY <2>1, <1>1, <1>2, ThreadOne, Zenon
<1>7. CacheOnce' /\ Cached' = Cached
  BY <1>1, CacheKept, Zenon
<1>8. Out' = Out
  BY <1>1, <1>5, <1>7, Zenon DEF Out
<1>9. TypeOK'
  <2>1. x \in Region
    <3>1. x \in tok /\ tok \subseteq Region
      BY <1>5, Zenon DEF SlInv, HandInv, TypeOK
    <3> QED BY <3>1, Zenon
  <2> QED BY <2>1, <1>1, <1>2, ZenonT(30) DEF SlInv, TypeOK
<1>10. HandInv'
  <2>1. Pending' \subseteq tok' \ known'
    BY <1>1, <1>5, Zenon DEF SlInv, HandInv
  <2>2. Cached' \intersect (known' \union tok') = {}
    BY <1>1, <1>5, <1>7, Zenon DEF SlInv, HandInv
  <2> QED BY <2>1, <2>2, <1>5, <1>7, Zenon DEF HandInv
<1>11. \A u \in Thread : th[u].pc = "reload" => th'[u].pc = "reload" /\ th'[u].ext = th[u].ext
  BY <1>1, <1>2
<1>12. tok' \subseteq tok \union known' /\ mode \in {"open", "recover"}
  BY <1>1, <1>3, Zenon
<1> QED BY <1>1, <1>4, <1>6, <1>8, <1>9, <1>10, <1>11, <1>12, Moved, Zenon

(* RecoverContainer::next hands out the next extent, or the end of the scan. *)
LEMMA RecoverNextStep ==
    ASSUME SlInv, NEW t \in Thread, RecoverNext(t)
    PROVE  SlInv'
<1> DEFINE left == {e \in ext : scan <= e}
           m    == Least(left)
<1>1. /\ mode = "recover" /\ th[t].pc = "idle"
      /\ \/ left = {} /\ scan' = used /\ th' = [th EXCEPT ![t].pc = "done"]
         \/ left # {} /\ scan' = m + 1 /\ th' = [th EXCEPT ![t].pc = "reload", ![t].ext = m]
      /\ ext' = ext /\ used' = used /\ bits' = bits /\ arena' = arena /\ tok' = tok
      /\ cond' = cond /\ rbin' = rbin /\ abin' = abin /\ alloc' = alloc /\ cache' = cache
      /\ known' = known /\ mode' = mode /\ half' = half /\ consistent' = consistent /\ recs' = recs
  <2>1. {e \in ext \ recs : scan <= e /\ e < used} = left
    <3>1. recs = {} /\ \A e \in ext : e < used
      BY Zenon DEF SlInv, TypeOK, BitsInv
    <3> QED BY <3>1, Zenon
  <2> HIDE DEF left
  <2> QED BY <2>1, Zenon DEF RecoverNext, After, pool, cnd, bins
<1>2. /\ scan \in Nat /\ used \in Nat /\ scan <= used /\ used <= NExtent /\ NExtent \in Nat
      /\ \A e \in ext : e \in Nat /\ e < used /\ e \in Extent
      /\ \A r \in bits : r \in Run /\ ExtOf(r) \in ext
      /\ th[t].rid = 0 /\ th[t].regs = {} /\ ~ Working(t)
  <2>1. scan \in 0 .. NExtent /\ used \in 0 .. NExtent /\ ext \subseteq Extent /\ bits \subseteq Run
    BY Zenon DEF SlInv, TypeOK
  <2>2. (\A e \in ext : e < used) /\ \A r \in bits : ExtOf(r) \in ext
    BY Zenon DEF SlInv, BitsInv
  <2>3. scan <= used
    BY <1>1, Zenon DEF SlInv, ScanInv
  <2>4. ThreadOK(t)
    BY Zenon DEF SlInv, ThreadInv
  <2>5. th[t].rid = 0 /\ th[t].regs = {} /\ ~ Working(t)
    BY <2>4, <1>1 DEF ThreadOK, Working
  <2>6. NExtent \in Nat
    BY SlabAssumption, Zenon
  <2>7. /\ scan \in Nat /\ used \in Nat /\ used <= NExtent
        /\ \A e \in Extent : e \in Nat
    BY <2>1, <2>6 DEF Extent
  <2> QED BY <2>1, <2>2, <2>3, <2>5, <2>6, <2>7, ZenonT(30)
<1>3. left # {} => m \in ext /\ scan <= m /\ \A e \in ext : scan <= e => m <= e
  <2>1. left \subseteq Nat
    BY <1>2, Zenon
  <2>2. left # {} => m \in left /\ \A e \in left : m <= e
    BY <2>1, LeastIn, Zenon
  <2> QED BY <2>2, Zenon
<1>4. left = {} => \A e \in ext : ~ (scan <= e)
  BY Zenon
<1>0. scan \in Nat /\ used \in Nat /\ scan <= used /\ used <= NExtent /\ NExtent \in Nat
  BY <1>2, Zenon
<1> HIDE DEF left, m
<1>5. /\ th' \in [Thread -> Local] /\ \A u \in Thread \ {t} : th'[u] = th[u]
      /\ th'[t].ret = th[t].ret /\ th'[t].rid = 0 /\ th'[t].regs = {}
      /\ \/ left = {} /\ th'[t].pc = "done"
         \/ left # {} /\ th'[t].pc = "reload" /\ th'[t].ext = m
  <2>1. CASE left = {}
    <3>1. th' = [th EXCEPT ![t].pc = "done"]
      BY <2>1, <1>1, Zenon
    <3>2. th \in [Thread -> Local] /\ th[t] \in Local
      BY Zenon DEF SlInv, TypeOK
    <3>3. th'[t] = [th[t] EXCEPT !.pc = "done"] /\ \A u \in Thread \ {t} : th'[u] = th[u]
      BY <3>1, <3>2, Zenon
    <3>4. /\ th'[t] \in Local /\ th'[t].pc = "done" /\ th'[t].ret = th[t].ret
          /\ th'[t].rid = th[t].rid /\ th'[t].regs = th[t].regs
      BY <3>2, <3>3 DEF Local
    <3>5. th' \in [Thread -> Local]
      BY <3>1, <3>2, <3>3, <3>4, Zenon
    <3> QED BY <3>3, <3>4, <3>5, <2>1, <1>2, Zenon
  <2>2. CASE left # {}
    <3>1. th' = [th EXCEPT ![t].pc = "reload", ![t].ext = m]
      BY <2>2, <1>1, Zenon
    <3>2. th \in [Thread -> Local] /\ th[t] \in Local /\ m \in Extent
      BY <2>2, <1>2, <1>3, Zenon DEF SlInv, TypeOK
    <3>3. /\ th'[t] = [th[t] EXCEPT !.pc = "reload", !.ext = m]
          /\ \A u \in Thread \ {t} : th'[u] = th[u]
      BY <3>1, <3>2, Zenon
    <3> DEFINE w == [th[t] EXCEPT !.pc = "reload"]
    <3>4. /\ w \in Local /\ w.pc = "reload" /\ w.ret = th[t].ret
          /\ w.rid = th[t].rid /\ w.regs = th[t].regs
      BY <3>2 DEF Local
    <3>5. th'[t] = [w EXCEPT !.ext = m]
      BY <3>3
    <3> HIDE DEF w
    <3>6. /\ th'[t] \in Local /\ th'[t].pc = w.pc /\ th'[t].ret = w.ret /\ th'[t].ext = m
          /\ th'[t].rid = w.rid /\ th'[t].regs = w.regs
      BY <3>2, <3>4, <3>5, Zenon DEF Local
    <3>7. th' \in [Thread -> Local]
      BY <3>1, <3>2, <3>3, <3>6, Zenon
    <3> QED BY <3>3, <3>4, <3>6, <3>7, <2>2, <1>2, Zenon
  <2> QED BY <2>1, <2>2, Zenon
<1>6. \A u \in Thread \ {t} : (Working(u)' <=> Working(u)) /\ \A r \in bits : Ahead(u, r)' <=> Ahead(u, r)
  BY <1>5, Zenon DEF Working, Ahead
<1>7. /\ left = {} => ~ Working(t)' /\ \A r \in bits : ~ Ahead(t, r)'
      /\ left # {} => Working(t)' /\ \A r \in bits : Ahead(t, r)' <=> ExtOf(r) = m
  <2>1. CASE left = {}
    BY <2>1, <1>5 DEF Working, Ahead
  <2>2. CASE left # {}
    <3>1. Working(t)' /\ th'[t].ext = m /\ th'[t].rid = 0
      BY <2>2, <1>5, Zenon DEF Working
    <3>2. ASSUME NEW r \in bits PROVE Ahead(t, r)' <=> ExtOf(r) = m
      <4>1. ExtOf(r) * NRun <= r /\ ExtOf(r) \in Nat /\ NRun \in Nat
        BY <1>2, RunSpan, SlabAssumption, Zenon
      <4>2. ExtOf(r) * NRun + 0 = ExtOf(r) * NRun
        BY <4>1
      <4>3. CASE ExtOf(r) = m
        BY <4>1, <4>2, <4>3, <3>1, Zenon DEF Ahead
      <4>4. CASE ExtOf(r) # m
        BY <4>4, <3>1, Zenon DEF Ahead
      <4> QED BY <4>3, <4>4, Zenon
    <3> QED BY <3>1, <3>2, <2>2, Zenon
  <2> QED BY <2>1, <2>2, Zenon
<1>8. Live' = Live
  <2>1. ASSUME NEW r \in bits PROVE r \in Live' <=> r \in Live
    <3>1. /\ r \in Live <=> ExtOf(r) < scan /\ \A u \in Thread : ~ Ahead(u, r)
          /\ r \in Live' <=> ExtOf(r) < scan' /\ \A u \in Thread : ~ Ahead(u, r)'
      BY <1>1 DEF Live
    <3>2. ~ Ahead(t, r)
      BY <1>2, Zenon DEF Ahead
    <3>3. (\A u \in Thread : ~ Ahead(u, r)) <=> \A u \in Thread \ {t} : ~ Ahead(u, r)'
      BY <3>2, <1>6, Zenon
    <3>4. ExtOf(r) \in ext /\ ExtOf(r) \in Nat /\ ExtOf(r) < used
      BY <1>2, Zenon
    <3>5. CASE left = {}
      <4>1. ~ (scan <= ExtOf(r)) /\ scan' = used /\ ~ Ahead(t, r)'
        BY <3>4, <3>5, <1>1, <1>4, <1>7, Zenon
      <4>2. ExtOf(r) < scan /\ ExtOf(r) < scan'
        BY <4>1, <3>4, <1>0
      <4> QED BY <4>1, <4>2, <3>1, <3>3, Zenon
    <3>6. CASE left # {}
      <4>1. scan' = m + 1 /\ (Ahead(t, r)' <=> ExtOf(r) = m) /\ m \in ext /\ scan <= m
            /\ (scan <= ExtOf(r) => m <= ExtOf(r))
        BY <3>4, <3>6, <1>1, <1>3, <1>7, Zenon
      <4>2. m \in Nat
        BY <4>1, <1>2, Zenon
      <4>3. ExtOf(r) < scan <=> ExtOf(r) < scan' /\ ExtOf(r) # m
        BY <4>1, <4>2, <3>4, <1>0, SMTT(30)
      <4> QED BY <4>1, <4>3, <3>1, <3>3, Zenon
    <3> QED BY <3>5, <3>6, Zenon
  <2>2. ASSUME NEW r PROVE (r \in Live' => r \in bits) /\ (r \in Live => r \in bits)
    BY <1>1, Zenon DEF Live
  <2>3. ASSUME NEW r PROVE r \in Live' <=> r \in Live
    BY <2>1, <2>2, Zenon
  <2> QED BY <2>3, Zenon
<1>9. Pending' = Pending /\ PendOnce'
  BY <1>2, <1>5, PendKept, Zenon
<1>10. CacheOnce' /\ Cached' = Cached
  BY <1>1, CacheKept, Zenon
<1>11. Out' = Out
  BY <1>1, <1>9, <1>10, Zenon DEF Out
<1>12. BitsInv' /\ BinInv' /\ AccountInv' /\ CondInv'
  BY <1>1, <1>8, <1>11, QuietBins, Zenon
<1>13. PlaceInv'
  BY <1>1, <1>8, <1>9, <1>11, ZenonT(30) DEF SlInv, PlaceInv
<1>14. HandInv'
  BY <1>1, <1>9, <1>10, Zenon DEF SlInv, HandInv
<1>15. ModeInv'
  BY <1>1, SlMode DEF ModeInv
<1>16. ThreadInv'
  <2>1. ThreadOK(t)'
    BY <1>1, <1>5, Zenon DEF ThreadOK
  <2> QED BY <2>1, <1>1, <1>5, ThreadOne, Zenon
<1>17. TypeOK'
  <2>1. scan' \in 0 .. NExtent
    <3>1. CASE left = {}
      <4>1. scan' = used /\ used' = used
        BY <3>1, <1>1, Zenon
      <4> QED BY <4>1, <1>0
    <3>2. CASE left # {}
      <4>1. scan' = m + 1 /\ m \in Nat /\ m < used
        BY <3>2, <1>1, <1>2, <1>3, Zenon
      <4> QED BY <4>1, <1>0
    <3> QED BY <3>1, <3>2, Zenon
  <2> QED BY <2>1, <1>1, <1>5, ZenonT(30) DEF SlInv, TypeOK
<1>18. ExtInv'
  <2>1. ASSUME NEW e \in ext
        PROVE  \/ Runs(e) \subseteq bits \/ e \in rbin["normal"] \/ scan' <= e
               \/ \E u \in Thread : th'[u].pc = "reload" /\ th'[u].ext = e
    <3>1. \/ Runs(e) \subseteq bits \/ e \in rbin["normal"] \/ scan <= e
          \/ \E u \in Thread : th[u].pc = "reload" /\ th[u].ext = e
      BY <1>1, Zenon DEF SlInv, ExtInv
    <3>2. ASSUME NEW u \in Thread, th[u].pc = "reload" /\ th[u].ext = e
          PROVE  th'[u].pc = "reload" /\ th'[u].ext = e
      BY <3>2, <1>1, <1>5, Zenon
    <3>3. ASSUME scan <= e PROVE scan' <= e \/ (th'[t].pc = "reload" /\ th'[t].ext = e)
      <4>1. left # {}
        BY <3>3, <1>4, Zenon
      <4>2. m <= e /\ m \in Nat /\ e \in Nat /\ scan' = m + 1 /\ th'[t].pc = "reload" /\ th'[t].ext = m
        BY <4>1, <3>3, <1>1, <1>2, <1>3, <1>5, ZenonT(30)
      <4> QED BY <4>2
    <3> QED BY <3>1, <3>2, <3>3, Zenon
  <2>2. \A e \in rbin["normal"] : ~ Runs(e) \subseteq bits
    BY <1>1, Zenon DEF SlInv, ExtInv
  <2>3. mode' = "recover" /\ ~ consistent'
    BY <1>1, SlMode DEF ModeInv
  <2> QED BY <2>1, <2>2, <2>3, <1>1, Zenon DEF ExtInv
<1>19. ScanInv'
  <2>1. scan' <= used' /\ scan <= scan'
    <3>1. CASE left = {}
      <4>1. scan' = used /\ used' = used
        BY <3>1, <1>1, Zenon
      <4> QED BY <4>1, <1>0, SMTT(30)
    <3>2. CASE left # {}
      <4>1. scan' = m + 1 /\ m \in Nat /\ m < used /\ scan <= m /\ used' = used
        BY <3>2, <1>1, <1>2, <1>3, Zenon
      <4> QED BY <4>1, <1>0
    <3> QED BY <3>1, <3>2, Zenon
  <2>2. /\ \A u \in Thread : /\ Working(u) => th[u].ext < scan
                             /\ th[u].pc = "done" => scan = used
        /\ \A s, u \in Thread : s # u /\ Working(s) /\ Working(u) => th[s].ext # th[u].ext
    BY <1>1, Zenon DEF SlInv, ScanInv
  <2>3. \A u \in Thread : th[u].ext \in Nat
    <3>1. ASSUME NEW u \in Thread PROVE th[u].ext \in Nat
      <4>1. th[u] \in Local
        BY Zenon DEF SlInv, TypeOK
      <4>2. th[u].ext \in Extent
        BY <4>1 DEF Local
      <4> QED BY <4>2, SlabAssumption, SMTT(30) DEF Extent
    <3> QED BY <3>1, Zenon
  <2>4. ASSUME left = {} PROVE ScanInv'
    <3>1. scan' = used /\ used' = used
      BY <2>4, <1>1, Zenon
    <3>2. \A u \in Thread : Working(u)' => Working(u) /\ th'[u].ext = th[u].ext
      BY <2>4, <1>5, <1>6, <1>7, Zenon
    <3>3. ASSUME NEW u \in Thread, Working(u)' PROVE th'[u].ext < scan'
      <4>1. th'[u].ext = th[u].ext /\ th[u].ext < scan /\ th[u].ext \in Nat
        BY <3>2, <3>3, <2>2, <2>3, Zenon
      <4> QED BY <4>1, <3>1, <1>0
    <3>4. \A s, u \in Thread : s # u /\ Working(s)' /\ Working(u)' => th'[s].ext # th'[u].ext
      BY <3>2, <2>2, Zenon
    <3> QED BY <3>1, <3>3, <3>4, <2>1, ZenonT(30) DEF ScanInv
  <2>5. ASSUME left # {} PROVE ScanInv'
    <3>1. /\ scan' = m + 1 /\ m \in Nat /\ m < used /\ scan <= m /\ used' = used
          /\ th'[t].pc = "reload" /\ th'[t].ext = m
      BY <2>5, <1>1, <1>2, <1>3, <1>5, ZenonT(30)
    <3>2. ASSUME NEW u \in Thread, Working(u)'
          PROVE  th'[u].ext < scan' /\ (u # t => Working(u) /\ th'[u].ext = th[u].ext /\ th[u].ext < m)
      <4>0. scan' = m + 1 /\ m \in Nat /\ scan <= m /\ th[u].ext \in Nat
        BY <3>1, <2>3, Zenon
      <4>1. CASE u = t
        <5>1. th'[u].ext = m
          BY <4>1, <3>1, Zenon
        <5> QED BY <5>1, <4>0, <4>1
      <4>2. CASE u # t
        <5>1. Working(u) /\ th'[u].ext = th[u].ext /\ th[u].ext < scan
          BY <4>2, <3>2, <2>2, <1>5, <1>6, ZenonT(30)
        <5>2. th[u].ext < m /\ th[u].ext < scan'
          BY <5>1, <4>0, <1>0, SMTT(30)
        <5> QED BY <5>1, <5>2, Zenon
      <4> QED BY <4>1, <4>2, Zenon
    <3>3. ASSUME NEW u \in Thread PROVE th'[u].pc # "done"
      <4>1. CASE u = t
        BY <4>1, <3>1, Zenon
      <4>2. CASE u # t
        <5>1. scan # used
          BY <3>1, <1>0
        <5> QED BY <5>1, <4>2, <2>2, <1>5, ZenonT(30)
      <4> QED BY <4>1, <4>2, Zenon
    <3>4. \A s, u \in Thread : s # u /\ Working(s)' /\ Working(u)' => th'[s].ext # th'[u].ext
      <4>1. ASSUME NEW s \in Thread, NEW u \in Thread, s # u, Working(s)', Working(u)'
            PROVE  th'[s].ext # th'[u].ext
        <5>1. CASE s # t /\ u # t
          BY <5>1, <4>1, <3>2, <2>2, ZenonT(30)
        <5>2. CASE s = t
          <6>1. th'[s].ext = m /\ th'[u].ext < m /\ th'[u].ext \in Nat /\ m \in Nat
            BY <5>2, <4>1, <3>1, <3>2, <2>3, ZenonT(30)
          <6> QED BY <6>1
        <5>3. CASE u = t
          <6>1. th'[u].ext = m /\ th'[s].ext < m /\ th'[s].ext \in Nat /\ m \in Nat
            BY <5>3, <4>1, <3>1, <3>2, <2>3, ZenonT(30)
          <6> QED BY <6>1
        <5> QED BY <5>1, <5>2, <5>3, Zenon
      <4> QED BY <4>1, Zenon
    <3> QED BY <3>1, <3>2, <3>3, <3>4, <2>1, ZenonT(30) DEF ScanInv
  <2> QED BY <2>4, <2>5, Zenon
<1> QED BY <1>12, <1>13, <1>14, <1>15, <1>16, <1>17, <1>18, <1>19, ZenonT(30) DEF SlInv

(* select_run: the least free run of an extent, which the run bin holds or *)
(* which nobody uses, becomes live with all its regions free.              *)
LEMMA SelectRunStep ==
    ASSUME SlInv, NEW t \in Thread, SelectRun(t)
    PROVE  SlInv'
<1>1. PICK e \in Source("normal"), r \in Run :
          /\ RunAcquire(e, r, "normal", ArenaOf[t])
          /\ abin' = [abin EXCEPT ![ArenaOf[t]]["normal"] = {r}]
          /\ alloc' = [alloc EXCEPT ![r] = {}]
  BY Zenon DEF SelectRun
<1>2. /\ th[t].pc = "fill" /\ abin[ArenaOf[t]]["normal"] = {}
      /\ cache' = cache /\ known' = known /\ th' = th /\ mode' = mode /\ half' = half
      /\ consistent' = consistent /\ recs' = recs /\ scan' = scan
  BY ZenonT(30) DEF SelectRun, Filling, rec
<1>3. mode = "open"
  <2>1. ThreadOK(t) /\ mode \in {"open", "close", "fault", "down", "reboot", "recover"}
    BY Zenon DEF SlInv, ThreadInv, TypeOK
  <2>2. mode \in {"open", "recover"}
    BY <2>1, <1>2, IdleFields, Zenon DEF ThreadOK
  <2> QED BY <2>1, <2>2, <1>2, ZenonT(30) DEF ThreadOK
<1>4. /\ half = {} /\ ~ consistent /\ scan = 0 /\ bits \intersect cond = {}
      /\ \A f \in rbin["normal"] : ~ Runs(f) \subseteq bits
      /\ \A f \in ext : Runs(f) \subseteq bits \/ f \in rbin["normal"]
  <2>1. half = {} /\ ~ consistent /\ scan = 0
    BY <1>3, SlMode, ZenonT(30) DEF ModeInv
  <2>2. bits \intersect cond = {}
    BY <1>3, ZenonT(30) DEF SlInv, CondInv
  <2>3. /\ \A f \in rbin["normal"] : ~ Runs(f) \subseteq bits
        /\ \A f \in ext : Runs(f) \subseteq bits \/ f \in rbin["normal"] \/ f \in half
    BY <1>3, SlExt, Zenon DEF ExtInv
  <2> QED BY <2>1, <2>2, <2>3, ZenonT(30)
<1>5. /\ ext \subseteq Extent /\ used \in Nat /\ used <= NExtent /\ bits \subseteq Run
      /\ \A s \in bits : ExtOf(s) \in ext /\ arena[s] \in Arena
      /\ \A f \in ext : f < used
      /\ rbin \in [Bin -> SUBSET Extent] /\ rbin["recover"] = {}
      /\ \A f \in Extent : f \in Nat /\ f + 1 <= NExtent
  <2>1. /\ ext \subseteq Extent /\ used \in 0 .. NExtent /\ bits \subseteq Run
        /\ rbin \in [Bin -> SUBSET Extent] /\ rbin["recover"] = {}
    BY ZenonT(30) DEF SlInv, TypeOK
  <2>2. (\A s \in bits : ExtOf(s) \in ext /\ arena[s] \in Arena) /\ \A f \in ext : f < used
    BY Zenon DEF SlInv, BitsInv
  <2>3. used \in Nat /\ used <= NExtent /\ \A f \in Extent : f \in Nat /\ f + 1 <= NExtent
    BY <2>1, SlabAssumption DEF Extent
  <2> QED BY <2>1, <2>2, <2>3, ZenonT(30)
<1>6. e \in Extent /\ (e \in rbin["normal"] \/ e \notin ext)
  <2>1. rbin["normal"] \subseteq Extent
    BY <1>5 DEF Bin
  <2>2. CASE rbin["normal"] # {}
    BY <2>1, <2>2, <1>1, Zenon DEF Source
  <2>3. CASE rbin["normal"] = {}
    <3>1. e \in Free
      BY <2>3, <1>1, ZenonT(30) DEF Source
    <3>2. e \in Extent /\ (e \notin ext \/ e = used)
      BY <3>1, Zenon DEF Free
    <3>3. used \notin ext
      BY <1>5
    <3> QED BY <3>2, <3>3, Zenon
  <2> QED BY <2>2, <2>3, Zenon
<1>7. Marked(e) = bits /\ ~ Runs(e) \subseteq bits
  <2>1. ASSUME e \notin ext PROVE bits \intersect Runs(e) = {}
    BY <2>1, <1>5, RunFact, ZenonT(30)
  <2>2. CASE e \in ext
    BY <2>2, <1>4, <1>6, Zenon DEF Marked
  <2>3. CASE e \notin ext
    <3>1. Runs(e) # {}
      BY <1>6, NotEmpty, Zenon
    <3>2. bits \ Runs(e) = bits
      BY <2>1, <2>3, Zenon
    <3>3. Marked(e) = bits
      BY <3>2, <2>3, Zenon DEF Marked
    <3> QED BY <3>1, <3>3, <2>1, <2>3, Zenon
  <2> QED BY <2>2, <2>3, Zenon
<1> DEFINE a == ArenaOf[t]
           S == IF Runs(e) \subseteq bits' THEN rbin["normal"] \ {e} ELSE rbin["normal"] \union {e}
<1>8. /\ r = Least(Runs(e) \ bits) /\ ext' = ext \union {e}
      /\ used' = IF e < used THEN used ELSE e + 1
      /\ bits' = bits \union {r} /\ tok' = tok \ Regions(r) /\ cond' = cond \ {r}
      /\ arena' = [arena EXCEPT ![r] = a] /\ rbin' = [rbin EXCEPT !["normal"] = S]
      /\ abin' = [abin EXCEPT ![a]["normal"] = {r}] /\ alloc' = [alloc EXCEPT ![r] = {}]
  <2>1. RunAcquire(e, r, "normal", ArenaOf[t])
    BY <1>1, Zenon
  <2>2. /\ r = Least(Runs(e) \ Marked(e)) /\ ext' = ext \union {e}
        /\ used' = IF e < used THEN used ELSE e + 1
        /\ bits' = Marked(e) \union {r} /\ tok' = tok \ Regions(r) /\ cond' = cond \ {r}
        /\ arena' = [arena EXCEPT ![r] = a] /\ rbin' = [rbin EXCEPT !["normal"] = S]
    BY <2>1, Zenon DEF RunAcquire
  <2> HIDE DEF a, S
  <2> QED BY <2>2, <1>1, <1>7, Zenon DEF a
<1>9. r \in Run /\ ExtOf(r) = e /\ r \notin bits
  <2>1. Runs(e) \ bits \subseteq Nat /\ Runs(e) \ bits # {}
    <3>1. NExtent * NRun \in Nat
      BY SlabAssumption
    <3>2. Run \subseteq Nat
      BY <3>1 DEF Run
    <3> QED BY <3>2, <1>7, RunFact, Zenon
  <2>2. r \in Runs(e) \ bits
    BY <2>1, <1>8, LeastIn, Zenon
  <2> QED BY <2>2, RunFact, Zenon
<1>10. a \in Arena
  BY SlabAssumption
<1>11. rbin' \in [Bin -> SUBSET Extent] /\ rbin'["normal"] = S /\ rbin'["recover"] = {}
  <2>1. rbin["normal"] \subseteq Extent
    BY <1>5 DEF Bin
  <2>2. S \in SUBSET Extent
    BY <2>1, <1>6, Zenon
  <2> HIDE DEF S
  <2> QED BY <2>2, <1>5, <1>8, RunBinSet, ZenonT(30)
<1>12. /\ \A f : f # e => (f \in rbin'["normal"] <=> f \in rbin["normal"])
       /\ e \in rbin'["normal"] <=> ~ Runs(e) \subseteq bits'
  <2>1. CASE Runs(e) \subseteq bits'
    <3>1. S = rbin["normal"] \ {e}
      BY <2>1, Zenon
    <3> HIDE DEF S
    <3> QED BY <3>1, <2>1, <1>11, Zenon
  <2>2. CASE ~ Runs(e) \subseteq bits'
    <3>1. S = rbin["normal"] \union {e}
      BY <2>2, Zenon
    <3> HIDE DEF S
    <3> QED BY <3>1, <2>2, <1>11, Zenon
  <2> QED BY <2>1, <2>2, Zenon
<1> HIDE DEF S, a
<1>13. /\ abin' \in [Arena -> [Bin -> SUBSET Run]] /\ abin'[a]["normal"] = {r}
       /\ \A c \in Arena : /\ abin'[c]["recover"] = abin[c]["recover"]
                           /\ c # a => abin'[c]["normal"] = abin[c]["normal"]
  <2>1. abin \in [Arena -> [Bin -> SUBSET Run]] /\ {r} \in SUBSET Run
    BY <1>9, Zenon DEF SlInv, TypeOK
  <2> QED BY <2>1, <1>8, <1>10, ArenaBinSet, ZenonT(30)
<1>14. /\ alloc' \in [Run -> SUBSET Region] /\ alloc'[r] = {}
       /\ \A s \in Run : s # r => alloc'[s] = alloc[s]
  <2>1. alloc \in [Run -> SUBSET Region] /\ {} \in SUBSET Region
    BY ZenonT(30) DEF SlInv, TypeOK
  <2> QED BY <2>1, <1>8, <1>9, AllocSet, ZenonT(30)
<1>15. /\ arena' \in [Run -> Arena \union {None}] /\ arena'[r] = a
       /\ \A s \in Run : s # r => arena'[s] = arena[s]
  <2>1. arena \in [Run -> Arena \union {None}]
    BY Zenon DEF SlInv, TypeOK
  <2> QED BY <2>1, <1>8, <1>9, <1>10, ZenonT(30)
<1>16. used' \in 0 .. NExtent /\ \A f \in ext' : f < used'
  <2>0. used \in Nat /\ used <= NExtent /\ used' = IF e < used THEN used ELSE e + 1
    BY <1>5, <1>8, Zenon
  <2>1. e \in Nat /\ e + 1 <= NExtent /\ ext \subseteq Nat
    BY <1>5, <1>6, ZenonT(30)
  <2>2. ASSUME NEW f \in ext' PROVE f < used'
    <3>1. f = e \/ (f \in ext /\ f < used /\ f \in Nat)
      BY <2>1, <1>5, <1>8, ZenonT(30)
    <3>2. used' \in {used, e + 1} /\ used' >= used /\ used' >= e + 1 /\ used \in Nat
      BY <2>0, <2>1
    <3> QED BY <3>1, <3>2, <2>1, SMTT(30)
  <2>3. used' \in 0 .. NExtent
    BY <2>0, <2>1, SlabAssumption, SMTT(30)
  <2> QED BY <2>2, <2>3, Zenon
<1>17. abin[a]["normal"] = {} /\ \A x \in Out : RunOf(x) \in bits
  BY <1>2, Zenon DEF a, SlInv, PlaceInv
<1>18. /\ ext' = ext \union {e} /\ bits' = bits \union {r} /\ tok' \subseteq tok /\ cond' = cond \ {r}
  BY <1>8, Zenon
<1>19. \A s : s \in Live' <=> s \in Live \/ s = r
  <2>1. mode' = "open"
    BY <1>2, <1>3, ZenonT(30)
  <2>2. ASSUME NEW s PROVE (s \in Live <=> s \in bits) /\ (s \in Live' <=> s \in bits \/ s = r)
    BY <2>1, <1>3, <1>4, <1>18, ZenonT(30) DEF Live
  <2> QED BY <2>2, Zenon
<1>20. Pending' = {} /\ Pending = {} /\ PendOnce' /\ ThreadInv'
  <2>1. Pending = {}
    BY <1>3, NoPending, Zenon
  <2>2. Pending' = Pending /\ PendOnce'
    BY <1>2, Zenon DEF Pending, SlInv, HandInv, PendOnce
  <2>3. ThreadInv'
    BY <1>2, Zenon DEF SlInv, ThreadInv, ThreadOK
  <2> QED BY <2>1, <2>2, <2>3, ZenonT(30)
<1>21. CacheOnce' /\ Cached' = Cached
  BY <1>2, CacheKept, Zenon
<1>22. Out' = Out
  BY <1>2, <1>20, <1>21, ZenonT(30) DEF Out
<1>23. TypeOK'
  <2>1. ext' \subseteq Extent /\ bits' \subseteq Run /\ tok' \subseteq Region /\ cond' \subseteq Run
    BY <1>5, <1>6, <1>9, <1>18, ZenonT(30) DEF SlInv, TypeOK
  <2> QED BY <2>1, <1>2, <1>11, <1>13, <1>14, <1>15, <1>16, ZenonT(30) DEF SlInv, TypeOK
<1>24. ModeInv'
  BY <1>2, <1>3, <1>4, Zenon DEF ModeInv
<1>25. BitsInv'
  <2>1. ASSUME NEW s \in bits' PROVE ExtOf(s) \in ext' /\ arena'[s] \in Arena
    <3>1. CASE s = r
      BY <3>1, <1>9, <1>10, <1>15, <1>18, ZenonT(30)
    <3>2. CASE s # r
      BY <3>2, <1>5, <1>15, <1>18, Zenon
    <3> QED BY <3>1, <3>2, Zenon
  <2> QED BY <2>1, <1>16, Zenon DEF BitsInv
<1>26. BinInv'
  <2>1. ASSUME NEW c \in Arena, NEW s \in abin'[c]["normal"]
        PROVE  s \in Live' /\ arena'[s] = c /\ alloc'[s] \subseteq Regions(s) /\ alloc'[s] # Regions(s)
    <3>1. CASE c = a
      <4>1. s = r
        BY <3>1, <2>1, <1>13, Zenon
      <4>2. Regions(r) # {}
        BY <1>9, NotEmpty, Zenon
      <4> QED BY <4>1, <4>2, <3>1, <1>14, <1>15, <1>19, ZenonT(30)
    <3>2. CASE c # a
      <4>1. s \in abin[c]["normal"]
        BY <3>2, <2>1, <1>13, ZenonT(30)
      <4>2. s \in Live /\ arena[s] = c /\ alloc[s] \subseteq Regions(s) /\ alloc[s] # Regions(s)
        BY <4>1, Zenon DEF SlInv, BinInv
      <4>3. s \in bits /\ s \in Run /\ s # r
        BY <4>2, <1>5, <1>9, Zenon DEF Live
      <4> QED BY <4>2, <4>3, <1>14, <1>15, <1>19, ZenonT(30)
    <3> QED BY <3>1, <3>2, Zenon
  <2> QED BY <2>1, Zenon DEF BinInv
<1>27. AccountInv'
  <2>1. ASSUME NEW s \in Live', NEW x \in Regions(s)
        PROVE  x \in Out' <=> (s \in abin'[arena'[s]]["normal"] => x \in alloc'[s])
    <3>0. RunOf(x) = s
      BY RegionFact, Zenon
    <3>1. CASE s = r
      <4>1. x \notin Out'
        BY <3>0, <3>1, <1>9, <1>17, <1>22, Zenon
      <4>2. s \in abin'[arena'[s]]["normal"] /\ x \notin alloc'[s]
        BY <3>1, <1>13, <1>14, <1>15, Zenon
      <4> QED BY <4>1, <4>2, Zenon
    <3>2. CASE s # r
      <4>1. s \in Live /\ s \in bits /\ s \in Run /\ arena[s] \in Arena
        BY <3>2, <1>5, <1>19, ZenonT(30) DEF Live
      <4>2. x \in Out <=> (s \in abin[arena[s]]["normal"] => x \in alloc[s])
        BY <4>1, Zenon DEF SlInv, AccountInv
      <4>3. s \in abin'[arena'[s]]["normal"] <=> s \in abin[arena[s]]["normal"]
        <5>1. CASE arena[s] = a
          BY <5>1, <4>1, <3>2, <1>13, <1>15, <1>17, ZenonT(30)
        <5>2. CASE arena[s] # a
          BY <5>2, <4>1, <3>2, <1>13, <1>15, ZenonT(30)
        <5> QED BY <5>1, <5>2, Zenon
      <4> QED BY <4>1, <4>2, <4>3, <3>2, <1>14, <1>22, ZenonT(30)
    <3> QED BY <3>1, <3>2, Zenon
  <2> QED BY <2>1, Zenon DEF AccountInv
<1>28. HandInv'
  BY <1>2, <1>18, <1>20, <1>21, ZenonT(30) DEF SlInv, HandInv
<1>29. PlaceInv'
  <2>1. mode' # "recover"
    BY <1>2, <1>3, Zenon
  <2>2. \A x \in Out' : RunOf(x) \in bits'
    BY <1>17, <1>18, <1>22, Zenon
  <2>3. ASSUME NEW x \in tok' PROVE RunOf(x) \in bits' /\ (RunOf(x) \in Live' => x \in known' \union Pending')
    <3>1. x \in tok /\ RunOf(x) \in bits
      BY <1>18, Zenon DEF SlInv, PlaceInv
    <3>2. RunOf(x) \in Live' => RunOf(x) \in Live
      BY <3>1, <1>9, <1>19, ZenonT(30)
    <3> QED BY <3>1, <3>2, <1>2, <1>18, <1>20, ZenonT(30) DEF SlInv, PlaceInv
  <2> QED BY <2>1, <2>2, <2>3, ZenonT(30) DEF PlaceInv
<1>30. ExtInv'
  <2>1. ASSUME NEW f \in rbin'["normal"] PROVE ~ Runs(f) \subseteq bits'
    <3>1. CASE f = e
      BY <3>1, <2>1, <1>12, Zenon
    <3>2. CASE f # e
      <4>1. ~ Runs(f) \subseteq bits /\ r \notin Runs(f)
        BY <3>2, <2>1, <1>4, <1>9, <1>12, RunFact, ZenonT(30)
      <4> QED BY <4>1, <1>18, Zenon
    <3> QED BY <3>1, <3>2, Zenon
  <2>2. ASSUME NEW f \in ext' PROVE Runs(f) \subseteq bits' \/ f \in rbin'["normal"]
    <3>1. CASE f = e
      BY <3>1, <1>12, Zenon
    <3>2. CASE f # e
      BY <3>2, <1>4, <1>12, <1>18, Zenon
    <3> QED BY <3>1, <3>2, Zenon
  <2>3. mode' = "open" /\ ~ consistent'
    BY <1>2, <1>3, <1>4, ZenonT(30)
  <2> QED BY <2>1, <2>2, <2>3, Zenon DEF ExtInv
<1>31. CondInv'
  <2>1. bits' \intersect cond' = {}
    BY <1>4, <1>18, ZenonT(30)
  <2>2. mode' = "open" /\ ~ consistent'
    BY <1>2, <1>3, <1>4, Zenon
  <2> QED BY <2>1, <2>2 DEF CondInv
<1>32. ScanInv'
  BY <1>2, <1>3 DEF ScanInv
<1> QED BY <1>20, <1>23, <1>24, <1>25, <1>26, <1>27, <1>28, <1>29, <1>30, <1>31, <1>32, ZenonT(30) DEF SlInv

(* A step of one thread, in normal operation or in recovery. *)
LEMMA ThreadStep ==
    ASSUME SlabIInv, AcquireFree, NEW t \in Thread, Step(t) \/ Recover(t) \/ CloseCache(t)
    PROVE  SlabIInv'
<1>1. SlInv /\ SpillInv /\ "acquire" \notin Rebuild
  BY Zenon DEF SlabIInv, AcquireFree
<1>2. CASE Step(t)
  <2>1. SpillInv'
    BY <1>1, <1>2, SpillStepOne, Zenon
  <2>2. CASE AcquireCached(t) \/ AcquireFill(t) \/ FillCacheBin(t) \/ SelectRun(t)
    BY <1>1, <2>1, <2>2, AcquireCachedStep, AcquireFillStep, FillCacheBinStep, SelectRunStep, ZenonT(30)
       DEF SlabIInv
  <2>3. CASE FillDone(t) \/ NullMeta(t) \/ Spill(t) \/ \E x \in Region : Release(t, x)
    BY <1>1, <2>1, <2>3, FillDoneStep, NullMetaStep, SpillStep, ReleaseStep, ZenonT(30) DEF SlabIInv
  <2> QED BY <1>2, <2>2, <2>3, Zenon DEF Step
<1>3. CASE Recover(t)
  <2>1. SpillInv'
    BY <1>1, <1>3, SpillRecoverOne, Zenon
  <2>2. CASE RecoverNext(t) \/ RecoverExtentReload(t) \/ RecoverRun(t)
    BY <1>1, <2>1, <2>2, RecoverNextStep, RecoverExtentReloadStep, RecoverRunStep, Zenon DEF SlabIInv
  <2>3. CASE RecoverExtentDone(t) \/ RebuildRegion(t) \/ RebuildDone(t)
    BY <1>1, <2>1, <2>3, RecoverExtentDoneStep, RebuildRegionStep, RebuildDoneStep, Zenon DEF SlabIInv
  <2>4. CASE RecoverAcquire(t) \/ RecoverExtent(t) \/ RecordExtent(t)
             \/ \E x \in Region : RecoverRelease(t, x)
    BY <1>1, <2>4, NoAcquire, Zenon
  <2> QED BY <1>3, <2>2, <2>3, <2>4, Zenon DEF Recover
<1>4. CASE CloseCache(t)
  <2>1. SlInv'
    BY <1>1, <1>4, CloseCacheStep, Zenon
  <2>2. /\ mode = "close" /\ th' = th /\ cache' = [cache EXCEPT ![t] = Tail(@)]
    BY <1>4, ZenonT(30) DEF CloseCache
  <2>3. ASSUME NEW u \in Thread PROVE th'[u].pc # "spill"
    <3>1. ThreadOK(u)
      BY <1>1, Zenon DEF SlInv, ThreadInv
    <3> QED BY <3>1, <2>2, IdleFields, Zenon DEF ThreadOK
  <2>4. SpillInv'
    BY <2>3, Zenon DEF SpillInv
  <2> QED BY <2>1, <2>4, Zenon DEF SlabIInv
<1> QED BY <1>2, <1>3, <1>4, Zenon

(* Every step keeps the invariant. *)
LEMMA SlabNext ==
    ASSUME SlabIInv, AcquireFree, [Next]_vars
    PROVE  SlabIInv'
<1>1. SlInv /\ SpillInv
  BY Zenon DEF SlabIInv
<1>2. ASSUME SlInv', th' = th, cache' = cache PROVE SlabIInv'
  BY <1>1, <1>2, Zenon DEF SlabIInv, SpillInv
<1>3. ASSUME SlInv', \A t \in Thread : th'[t] = Idle PROVE SlabIInv'
  BY <1>3, SpillNone, Zenon DEF SlabIInv
<1>4. ASSUME NEW t \in Thread, Step(t) \/ Recover(t) \/ CloseCache(t) PROVE SlabIInv'
  BY <1>4, ThreadStep, Zenon
<1>5. ASSUME NEW x \in Region, Publish(x) PROVE SlabIInv'
  <2>1. SlInv'
    BY <1>1, <1>5, PublishStep, Zenon
  <2>2. th' = th /\ cache' = cache
    BY <1>5, Zenon DEF Publish
  <2> QED BY <2>1, <2>2, <1>2, Zenon
<1>6. ASSUME NEW a \in Arena, NEW r \in Run, CloseArena(a, r) PROVE SlabIInv'
  <2>1. SlInv'
    BY <1>1, <1>6, CloseArenaStep, Zenon
  <2>2. th' = th /\ cache' = cache
    BY <1>6, Zenon DEF CloseArena
  <2> QED BY <2>1, <2>2, <1>2, Zenon
<1>7. ASSUME NEW e \in Extent, CloseRun(e) \/ RebootExtent(e) PROVE SlabIInv'
  <2>1. SlInv'
    BY <1>1, <1>7, CloseRunStep, RebootExtentStep, Zenon
  <2>2. th' = th /\ cache' = cache
    BY <1>7, Zenon DEF CloseRun, RebootExtent
  <2> QED BY <2>1, <2>2, <1>2, Zenon
<1>8. CASE CloseBegin \/ CloseDone \/ Open \/ RebootDone
  <2>1. SlInv'
    BY <1>1, <1>8, CloseBeginStep, CloseDoneStep, OpenStep, RebootDoneStep, ZenonT(30)
  <2>2. CASE CloseBegin \/ Open \/ RebootDone
    <3>1. th' = th /\ cache' = cache
      BY <2>2, Zenon DEF CloseBegin, Open, RebootDone
    <3> QED BY <3>1, <2>1, <1>2, Zenon
  <2>3. CASE CloseDone
    <3>1. mode = "close" /\ th' = th
      BY <2>3, ZenonT(30) DEF CloseDone
    <3>2. ASSUME NEW u \in Thread PROVE th'[u].pc # "spill"
      <4>1. ThreadOK(u)
        BY <1>1, Zenon DEF SlInv, ThreadInv
      <4> QED BY <4>1, <3>1, IdleFields, Zenon DEF ThreadOK
    <3> QED BY <3>2, <2>1, Zenon DEF SlabIInv, SpillInv
  <2> QED BY <1>8, <2>2, <2>3, Zenon
<1>9. CASE Crash \/ RecoverDone
  <2>1. SlInv'
    BY <1>1, <1>9, CrashStep, RecoverDoneStep, Zenon
  <2>2. \A t \in Thread : th'[t] = Idle
    BY <1>9, Zenon DEF Crash, RecoverDone
  <2> QED BY <2>1, <2>2, <1>3, Zenon
<1>10. CASE UNCHANGED vars
  <2>1. /\ ext' = ext /\ used' = used /\ bits' = bits /\ tok' = tok /\ cond' = cond
        /\ arena' = arena /\ rbin' = rbin /\ abin' = abin /\ alloc' = alloc /\ cache' = cache
        /\ known' = known /\ th' = th /\ mode' = mode /\ half' = half
        /\ consistent' = consistent /\ recs' = recs /\ scan' = scan
    BY <1>10, Zenon DEF vars, pool, cnd, bins, rec
  <2>2. Cached' = Cached
    BY <2>1, CachedFact, ZenonT(30)
  <2>3. Pending' = Pending
    BY <2>1, PendFact, Zenon
  <2>4. Out' = Out /\ Live' = Live
    BY <2>1, <2>2, <2>3, ZenonT(30) DEF Out, Live, Ahead, Working
  <2>5. TypeOK' /\ ThreadInv' /\ ModeInv' /\ BitsInv' /\ BinInv' /\ AccountInv'
    BY <1>1, <2>1, <2>2, <2>3, <2>4, ZenonT(30)
       DEF SlInv, TypeOK, ThreadInv, ThreadOK, ModeInv, BitsInv, BinInv, AccountInv
  <2>6. HandInv'
    <3>1. CacheOnce /\ PendOnce /\ Pending \subseteq tok \ known /\ Cached \intersect (known \union tok) = {}
      BY <1>1, ZenonT(30) DEF SlInv, HandInv
    <3>2. CacheOnce'
      BY <1>1, <2>1, CacheKept, ZenonT(30)
    <3>3. PendOnce'
      BY <3>1, <2>1, ZenonT(30) DEF PendOnce
    <3> QED BY <3>1, <3>2, <3>3, <2>1, <2>2, <2>3, ZenonT(30) DEF HandInv
  <2>7. PlaceInv'
    BY <1>1, <2>1, <2>3, <2>4, ZenonT(30) DEF SlInv, PlaceInv
  <2>8. ExtInv'
    BY <1>1, <2>1, ZenonT(30) DEF SlInv, ExtInv
  <2>9. CondInv'
    BY <1>1, <2>1, <2>2, <2>4, ZenonT(30) DEF SlInv, CondInv
  <2>10. ScanInv'
    BY <1>1, <2>1, ZenonT(30) DEF SlInv, ScanInv, Working
  <2>11. SlInv'
    BY <2>5, <2>6, <2>7, <2>8, <2>9, <2>10, ZenonT(30) DEF SlInv
  <2> QED BY <2>1, <2>11, <1>2, ZenonT(30)
<1> QED BY <1>4, <1>5, <1>6, <1>7, <1>8, <1>9, <1>10, ZenonT(30) DEF Next

\* SlabIInv is an invariant of the allocator of a size class, over threads,
\* crashes, closes, reboots and recoveries (Slab, Arena, ThreadCache, ExtentCase,
\* RunBits), when the callback of recover does not acquire.
THEOREM SlabInductive ==
    ASSUME AcquireFree
    PROVE  Spec => []SlabIInv
<1>1. SlabIInv /\ [Next]_vars => SlabIInv'
  BY SlabNext, Zenon
<1> QED BY SlabInit, <1>1, PTL DEF Spec

(* NoDoubleAllocation follows from the invariant. *)
LEMMA OnceFact == SlInv => NoDoubleAllocation
<1> SUFFICES ASSUME SlInv PROVE NoDoubleAllocation
  OBVIOUS
<1>1. CacheOnce /\ Cached \intersect (known \union tok) = {}
  BY Zenon DEF SlInv, HandInv
<1>2. \A t \in Thread : IsInjective(cache[t])
  BY <1>1, Zenon DEF CacheOnce, IsInjective
<1>3. \A s, t \in Thread : s # t => Range(cache[s]) \intersect Range(cache[t]) = {}
  <2>1. ASSUME NEW s \in Thread, NEW t \in Thread, s # t, NEW x,
               x \in Range(cache[s]), x \in Range(cache[t])
        PROVE  FALSE
    BY <2>1, <1>1, Zenon DEF CacheOnce, Range
  <2> QED BY <2>1, Zenon
<1>4. ASSUME NEW a \in Arena, NEW b \in Bin, NEW r \in abin[a][b]
      PROVE  /\ r \in bits /\ Owned \intersect Regions(r) \subseteq alloc[r]
             /\ \A c \in Arena, d \in Bin : r \in abin[c][d] => c = a /\ d = b
  <2>1. \A c \in Arena, d \in Bin : d # "normal" => abin[c][d] = {}
    BY Zenon DEF SlInv, TypeOK, Bin
  <2>2. b = "normal" /\ r \in abin[a]["normal"]
    BY <2>1, <1>4, Zenon
  <2>3. /\ r \in Live /\ arena[r] = a /\ r \in bits
        /\ \A c \in Arena : r \in abin[c]["normal"] => arena[r] = c
    BY <2>2, Zenon DEF SlInv, BinInv, Live
  <2>4. \A c \in Arena, d \in Bin : r \in abin[c][d] => c = a /\ d = b
    BY <2>1, <2>2, <2>3, Zenon
  <2>5. ASSUME NEW x \in Regions(r), x \in Owned PROVE x \in alloc[r]
    <3>1. RunOf(x) = r
      BY <2>5, RegionFact, Zenon
    <3>2. x \in Out
      <4>1. x \in tok => x \in known \union Pending
        BY <3>1, <2>3, ZenonT(30) DEF SlInv, PlaceInv
      <4> QED BY <4>1, <2>5, Zenon DEF Owned, Out
    <3> QED BY <3>2, <2>2, <2>3, <2>5, ZenonT(30) DEF SlInv, AccountInv
  <2> QED BY <2>3, <2>4, <2>5, ZenonT(30)
<1> QED BY <1>1, <1>2, <1>3, <1>4, Zenon DEF NoDoubleAllocation

(* Of an open allocator nothing is pending and every marked run is live. *)
LEMMA OpenFact ==
    ASSUME SlInv, mode = "open"
    PROVE  Pending = {} /\ \A r \in bits : r \in Live
<1>1. mode # "recover" /\ mode # "down"
  OBVIOUS
<1>2. Pending = {}
  BY <1>1, NoPending, Zenon
<1>3. bits \intersect cond = {}
  BY Zenon DEF SlInv, CondInv
<1> QED BY <1>1, <1>2, <1>3, Zenon DEF Live

(* NoLostRegion follows from the invariant. *)
LEMMA LostFact == SlInv => NoLostRegion
<1> SUFFICES ASSUME SlInv, mode = "open", NEW e \in ext
             PROVE  /\ Runs(e) \subseteq bits \/ e \in rbin["normal"]
                    /\ \A r \in Runs(e) \intersect bits : \A x \in Regions(r) :
                          \/ x \in known \union Cached
                          \/ r \in abin[arena[r]]["normal"] /\ x \notin alloc[r]
  BY ZenonT(30) DEF NoLostRegion
<1>1. half = {} /\ mode \in {"open", "close", "reboot"}
  BY SlMode, Zenon DEF ModeInv
<1>2. Runs(e) \subseteq bits \/ e \in rbin["normal"]
  BY <1>1, Zenon DEF SlInv, ExtInv
<1>3. ASSUME NEW r \in Runs(e) \intersect bits, NEW x \in Regions(r)
      PROVE  \/ x \in known \union Cached
             \/ r \in abin[arena[r]]["normal"] /\ x \notin alloc[r]
  <2>1. r \in Live /\ Pending = {}
    BY OpenFact, Zenon
  <2>2. x \in Out <=> (r \in abin[arena[r]]["normal"] => x \in alloc[r])
    BY <2>1, Zenon DEF SlInv, AccountInv
  <2> QED BY <2>1, <2>2, Zenon DEF Out
<1> QED BY <1>2, <1>3, Zenon

\* No region is in two hands.  Thread caches, arenas, the application and the tokens
\* in PMem never disagree about a region, whatever the threads, fills, spills and
\* crashes (ThreadCache, Arena::acquire and release, RunBits::reload).
THEOREM OneHand ==
    ASSUME AcquireFree
    PROVE  Spec => []NoDoubleAllocation
<1>1. SlabIInv => NoDoubleAllocation
  BY OnceFact, Zenon DEF SlabIInv
<1> QED BY SlabInductive, <1>1, PTL

\* In normal operation every region of every extent in use is owned or can be
\* allocated: bins, caches, close, reboot and recovery lose none (Arena::release,
\* close, small_reboot, small_recover).
THEOREM NoneLost ==
    ASSUME AcquireFree
    PROVE  Spec => []NoLostRegion
<1>1. SlabIInv => NoLostRegion
  BY LostFact, Zenon DEF SlabIInv
<1> QED BY SlabInductive, <1>1, PTL

\* At every instant, hence at every crash, a busy region lies in a marked run of an
\* extent in use, so that recovery finds it (palloc_srun, pdealloc_srun).
THEOREM BusyFound ==
    ASSUME AcquireFree
    PROVE  Spec => []BusyReachable
<1>1. SlabIInv => BusyReachable
  BY Zenon DEF SlabIInv, SlInv, PlaceInv, BitsInv, BusyReachable
<1> QED BY SlabInductive, <1>1, PTL

\* Recovery hands the callback exactly the busy regions, each once, although the
\* callback releases regions meanwhile (small_recover).
THEOREM RebuildOnce ==
    ASSUME AcquireFree
    PROVE  Spec => []RebuildExact
<1>1. SlabIInv => RebuildExact
  <2> SUFFICES ASSUME SlInv PROVE RebuildExact
    BY Zenon DEF SlabIInv
  <2>1. PendOnce /\ Pending \subseteq tok \ known
    BY Zenon DEF SlInv, HandInv
  <2>2. \A t \in Thread : th[t].regs \subseteq tok \ known
    BY <2>1, PendFact, Zenon
  <2>3. ASSUME mode = "open" PROVE tok \subseteq known
    <3>1. Pending = {} /\ \A r \in bits : r \in Live
      BY <2>3, OpenFact, ZenonT(30)
    <3> QED BY <3>1, Zenon DEF SlInv, PlaceInv
  <2> QED BY <2>1, <2>2, <2>3, Zenon DEF RebuildExact, PendOnce
<1> QED BY SlabInductive, <1>1, PTL

\* A run that close marked kPolluted is half used when small_reboot reloads it, as
\* the assertion alloc_ < count_ of RunBits::reload requires.
THEOREM PollutedHalfUsed ==
    ASSUME AcquireFree
    PROVE  Spec => []PollutedIsHalfUsed
<1>1. SlabIInv => PollutedIsHalfUsed
  <2>1. mode = "reboot" => mode \in {"close", "reboot"}
    OBVIOUS
  <2> QED BY <2>1, ZenonT(30) DEF SlabIInv, SlInv, CondInv, PollutedIsHalfUsed
<1> QED BY SlabInductive, <1>1, PTL
=============================================================================
