----------------------------- MODULE SlabSteps ------------------------------
(***************************************************************************)
(* What the operators of Slab and SlabInv compute, and the steps of the    *)
(* open allocator (but select_run), of its close, of a crash and of an     *)
(* open keep SlInv.  SlabProofs has the steps that reload runs or take     *)
(* free ones, and the theorems.                                            *)
(***************************************************************************)
EXTENDS SlabInv, TLAPS

(* The fields of a thread that does nothing. *)
LEMMA IdleFields == Idle.pc = "idle" /\ Idle.ret = "idle" /\ Idle.rid = 0 /\ Idle.regs = {}
  BY DEF Idle

(* TypeOK is a part of the invariant. *)
LEMMA SlType == SlInv => TypeOK
  BY Zenon DEF SlInv

(* ModeInv is a part of the invariant. *)
LEMMA SlMode == SlInv => ModeInv
  BY Zenon DEF SlInv

(* ThreadInv is a part of the invariant. *)
LEMMA SlThread == SlInv => ThreadInv
  BY Zenon DEF SlInv

(* ExtInv is a part of the invariant. *)
LEMMA SlExt == SlInv => ExtInv
  BY Zenon DEF SlInv

(* CondInv is a part of the invariant. *)
LEMMA SlCond == SlInv => CondInv
  BY Zenon DEF SlInv

(* A run lies in an extent and a region in a run, and neither is empty.    *)
LEMMA Places ==
    /\ \A x \in Region : RunOf(x) \in Run
    /\ \A r \in Run : ExtOf(r) \in Extent
<1>1. ASSUME NEW n \in Nat \ {0}, NEW k \in Nat, NEW x \in 0 .. k * n - 1
      PROVE  x \div n \in 0 .. k - 1
  <2>1. k * n \in Nat /\ x \in Nat /\ x < k * n
    BY <1>1
  <2>2. /\ x \div n \in Int /\ n * (x \div n) <= x /\ x < n * (x \div n) + n
    BY <2>1
  <2>3. ASSUME x \div n >= k PROVE FALSE
    <3>1. n * (x \div n) >= n * k
      BY <2>2, <2>3
    <3> QED BY <3>1, <2>1, <2>2
  <2>4. ASSUME x \div n < 0 PROVE FALSE
    <3>1. n * (x \div n) <= n * (0 - 1)
      BY <2>2, <2>4
    <3> QED BY <3>1, <2>1, <2>2
  <2> QED BY <2>2, <2>3, <2>4
<1>2. NExtent * NRun \in Nat
  BY SlabAssumption
<1>3. ASSUME NEW x \in Region PROVE RunOf(x) \in Run
  BY <1>1, <1>2, SlabAssumption, Zenon DEF Region, Run, RunOf
<1>4. ASSUME NEW r \in Run PROVE ExtOf(r) \in Extent
  <2>1. NRun \in Nat \ {0} /\ NExtent \in Nat /\ r \in 0 .. NExtent * NRun - 1
    BY SlabAssumption DEF Run
  <2>2. r \div NRun \in 0 .. NExtent - 1
    BY <2>1, <1>1, Zenon
  <2> QED BY <2>2, Zenon DEF Extent, ExtOf
<1> QED BY <1>3, <1>4, Zenon

(* The runs of extent e are NRun numbers from e * NRun on. *)
LEMMA RunAt ==
    ASSUME NEW e \in Extent, NEW i \in 0 .. NRun - 1
    PROVE  e * NRun + i \in Run /\ ExtOf(e * NRun + i) = e
<1>1. NRun \in Nat \ {0} /\ NExtent \in Nat /\ e \in Nat /\ e <= NExtent - 1 /\ i \in Nat /\ i < NRun
  BY SlabAssumption DEF Extent
<1>2. e * NRun \in Nat /\ (e + 1) * NRun = e * NRun + NRun
  BY <1>1
<1>3. (e + 1) * NRun <= NExtent * NRun
  BY <1>1
<1>4. e * NRun + i \in Run
  BY <1>1, <1>2, <1>3 DEF Run
<1>5. (e * NRun + i) \div NRun = e
  BY <1>1, <1>2
<1> QED BY <1>4, <1>5 DEF ExtOf

(* The runs of an extent are NRun numbers in a row. *)
LEMMA RunSpan ==
    ASSUME NEW r \in Run
    PROVE  ExtOf(r) * NRun <= r /\ r < ExtOf(r) * NRun + NRun
<1>1. NRun \in Nat \ {0} /\ r \in Nat
  <2>1. NExtent * NRun \in Nat
    BY SlabAssumption
  <2> QED BY <2>1, SlabAssumption DEF Run
<1>2. r \div NRun \in Int /\ NRun * (r \div NRun) <= r /\ r < NRun * (r \div NRun) + NRun
  BY <1>1
<1>3. NRun * (r \div NRun) = (r \div NRun) * NRun
  BY <1>1, <1>2
<1> QED BY <1>1, <1>2, <1>3 DEF ExtOf

(* An extent has a run and a run has a region. *)
LEMMA NotEmpty ==
    /\ \A e \in Extent : Runs(e) # {}
    /\ \A r \in Run : Regions(r) # {}
<1>1. ASSUME NEW e \in Extent PROVE Runs(e) # {}
  <2>1. 0 \in 0 .. NRun - 1
    BY SlabAssumption
  <2> QED BY <2>1, RunAt DEF Runs
<1>2. ASSUME NEW r \in Run PROVE Regions(r) # {}
  <2>1. /\ NRegion \in Nat \ {0} /\ r \in Nat /\ NExtent * NRun \in Nat /\ r <= NExtent * NRun - 1
    <3>1. NExtent * NRun \in Nat
      BY SlabAssumption
    <3> QED BY <3>1, SlabAssumption DEF Run
  <2> DEFINE m == NExtent * NRun
  <2>2. m \in Nat /\ r <= m - 1
    BY <2>1
  <2> HIDE DEF m
  <2>3. r * NRegion \in Nat /\ (r + 1) * NRegion = r * NRegion + NRegion
    BY <2>1
  <2>4. (r + 1) * NRegion <= m * NRegion
    BY <2>1, <2>2
  <2>5. r * NRegion \in 0 .. m * NRegion - 1
    BY <2>1, <2>2, <2>3, <2>4
  <2>6. (r * NRegion) \div NRegion = r
    BY <2>1, <2>3
  <2>7. r * NRegion \in Region
    BY <2>5 DEF m, Region
  <2> QED BY <2>6, <2>7 DEF Regions, RunOf
<1> QED BY <1>1, <1>2, Zenon

-----------------------------------------------------------------------------
(* Cache bins. *)

(* What it means to be in a cache bin. *)
LEMMA CachedFact ==
    /\ \A x : x \in Cached <=> \E t \in Thread : \E i \in DOMAIN cache[t] : cache[t][i] = x
    /\ \A x : x \in Cached' <=> \E t \in Thread : \E i \in DOMAIN cache'[t] : cache'[t][i] = x
  BY DEF Cached, Range

(* Taking the first region of a cache bin. *)
LEMMA CachePop ==
    ASSUME cache \in [Thread -> Seq(Region)], CacheOnce, NEW t \in Thread, cache[t] # <<>>,
           cache' = [cache EXCEPT ![t] = Tail(@)]
    PROVE  /\ cache' \in [Thread -> Seq(Region)] /\ CacheOnce'
           /\ Head(cache[t]) \in Cached /\ Head(cache[t]) \in Region
           /\ Cached' = Cached \ {Head(cache[t])}
<1>1. /\ cache[t] \in Seq(Region) /\ Len(cache[t]) \in Nat \ {0}
      /\ Head(cache[t]) = cache[t][1] /\ 1 \in DOMAIN cache[t]
      /\ DOMAIN cache[t] = 1 .. Len(cache[t])
  OBVIOUS
<1>2. /\ Tail(cache[t]) \in Seq(Region) /\ DOMAIN Tail(cache[t]) = 1 .. (Len(cache[t]) - 1)
      /\ \A i \in DOMAIN Tail(cache[t]) : Tail(cache[t])[i] = cache[t][i + 1]
  BY <1>1
<1>3. cache' \in [Thread -> Seq(Region)] /\ cache'[t] = Tail(cache[t])
      /\ \A u \in Thread \ {t} : cache'[u] = cache[u]
  BY <1>2, Zenon
<1>4. ASSUME NEW u \in Thread, NEW i \in DOMAIN cache'[u]
      PROVE  \E j \in DOMAIN cache[u] : /\ cache'[u][i] = cache[u][j]
                                        /\ j = IF u = t THEN i + 1 ELSE i
  <2>1. CASE u # t
    BY <2>1, <1>3, <1>4, Zenon
  <2>2. CASE u = t
    <3>1. i \in 1 .. (Len(cache[t]) - 1) /\ i + 1 \in DOMAIN cache[t]
      BY <2>2, <1>1, <1>2, <1>3, <1>4
    <3> QED BY <3>1, <2>2, <1>2, <1>3, Zenon
  <2> QED BY <2>1, <2>2, Zenon
<1>5. CacheOnce'
  <2>1. ASSUME NEW u \in Thread, NEW v \in Thread, NEW i \in DOMAIN cache'[u],
               NEW j \in DOMAIN cache'[v], cache'[u][i] = cache'[v][j]
        PROVE  u = v /\ i = j
    <3>1. PICK a \in DOMAIN cache[u] : cache'[u][i] = cache[u][a] /\ a = IF u = t THEN i + 1 ELSE i
      BY <1>4, Zenon
    <3>2. PICK b \in DOMAIN cache[v] : cache'[v][j] = cache[v][b] /\ b = IF v = t THEN j + 1 ELSE j
      BY <1>4, Zenon
    <3>3. u = v /\ a = b
      BY <3>1, <3>2, <2>1 DEF CacheOnce
    <3>4. u = t => i \in Nat /\ j \in Nat
      BY <3>3, <1>2, <1>3, <1>1, <2>1
    <3> QED BY <3>1, <3>2, <3>3, <3>4
  <2> QED BY <2>1, Zenon DEF CacheOnce
<1>6. ASSUME NEW r PROVE r \in Cached' <=> r \in Cached \ {Head(cache[t])}
  <2>1. ASSUME r \in Cached' PROVE r \in Cached \ {Head(cache[t])}
    <3>0. PICK u \in Thread : \E i \in DOMAIN cache'[u] : cache'[u][i] = r
      BY <2>1, CachedFact, Zenon
    <3>1. PICK i \in DOMAIN cache'[u] : cache'[u][i] = r
      BY <3>0, Zenon
    <3>2. PICK a \in DOMAIN cache[u] : r = cache[u][a] /\ a = IF u = t THEN i + 1 ELSE i
      BY <3>1, <1>4
    <3>3. r \in Cached
      BY <3>2, CachedFact, Zenon
    <3>4. ASSUME r = Head(cache[t]) PROVE FALSE
      <4>1. u = t /\ a = 1
        BY <3>2, <3>4, <1>1 DEF CacheOnce
      <4>2. i \in 1 .. (Len(cache[t]) - 1)
        BY <4>1, <1>2, <1>3, Zenon
      <4> QED BY <4>1, <4>2, <3>2, <1>1
    <3> QED BY <3>3, <3>4, Zenon
  <2>2. ASSUME r \in Cached, r # Head(cache[t]) PROVE r \in Cached'
    <3>0. PICK u \in Thread : \E i \in DOMAIN cache[u] : cache[u][i] = r
      BY <2>2, CachedFact, Zenon
    <3>1. PICK i \in DOMAIN cache[u] : cache[u][i] = r
      BY <3>0, Zenon
    <3>2. CASE u # t
      BY <3>1, <3>2, <1>3, CachedFact
    <3>3. CASE u = t
      <4>1. i - 1 \in DOMAIN Tail(cache[t]) /\ Tail(cache[t])[i - 1] = r
        BY <3>1, <3>3, <2>2, <1>1, <1>2
      <4> QED BY <4>1, <1>3, CachedFact
    <3> QED BY <3>2, <3>3, Zenon
  <2> QED BY <2>1, <2>2, Zenon
<1>7. Cached' = Cached \ {Head(cache[t])}
  BY <1>6, Zenon
<1>8. Head(cache[t]) \in Cached /\ Head(cache[t]) \in Region
  BY <1>1, CachedFact
<1> QED BY <1>3, <1>5, <1>7, <1>8, Zenon

(* Appending a region to a cache bin. *)
LEMMA CachePush ==
    ASSUME cache \in [Thread -> Seq(Region)], CacheOnce, NEW t \in Thread,
           NEW r \in Region, r \notin Cached, cache' = [cache EXCEPT ![t] = Append(@, r)]
    PROVE  /\ cache' \in [Thread -> Seq(Region)] /\ CacheOnce'
           /\ Cached' = Cached \union {r}
<1> DEFINE n == Len(cache[t]) + 1
<1>1. /\ cache[t] \in Seq(Region) /\ Len(cache[t]) \in Nat
      /\ DOMAIN cache[t] = 1 .. Len(cache[t])
  OBVIOUS
<1>2. /\ cache' \in [Thread -> Seq(Region)] /\ DOMAIN cache'[t] = 1 .. n
      /\ \A i \in DOMAIN cache[t] : i \in DOMAIN cache'[t] /\ cache'[t][i] = cache[t][i]
      /\ cache'[t][n] = r /\ n \in DOMAIN cache'[t]
      /\ \A u \in Thread \ {t} : cache'[u] = cache[u]
  BY <1>1
<1>3. ASSUME NEW u \in Thread, NEW i \in DOMAIN cache'[u]
      PROVE  \/ i \in DOMAIN cache[u] /\ cache'[u][i] = cache[u][i] /\ cache[u][i] # r
             \/ u = t /\ i = n /\ cache'[u][i] = r
  <2>1. i \in DOMAIN cache[u] \/ (u = t /\ i = n)
    BY <1>1, <1>2, <1>3
  <2>2. i \in DOMAIN cache[u] => cache'[u][i] = cache[u][i] /\ cache[u][i] # r
    BY <1>2, CachedFact
  <2> QED BY <2>1, <2>2, <1>2, Zenon
<1> HIDE DEF n
<1>4. CacheOnce'
  <2>1. ASSUME NEW u \in Thread, NEW v \in Thread, NEW i \in DOMAIN cache'[u],
               NEW j \in DOMAIN cache'[v], cache'[u][i] = cache'[v][j]
        PROVE  u = v /\ i = j
    BY <1>3, <2>1 DEF CacheOnce
  <2> QED BY <2>1, Zenon DEF CacheOnce
<1>5. ASSUME NEW s PROVE s \in Cached' <=> s \in Cached \union {r}
  <2>1. ASSUME s \in Cached' PROVE s \in Cached \union {r}
    <3>1. PICK u \in Thread : \E i \in DOMAIN cache'[u] : cache'[u][i] = s
      BY <2>1, CachedFact, Zenon
    <3>2. PICK i \in DOMAIN cache'[u] : cache'[u][i] = s
      BY <3>1, Zenon
    <3>3. (i \in DOMAIN cache[u] /\ cache[u][i] = s) \/ s = r
      BY <3>2, <1>3, Zenon
    <3>4. ASSUME s # r PROVE s \in Cached
      <4>1. i \in DOMAIN cache[u] /\ cache[u][i] = s
        BY <3>3, <3>4, Zenon
      <4> QED BY <4>1, CachedFact, Zenon
    <3> QED BY <3>4, Zenon
  <2>2. s \in Cached => s \in Cached'
    BY <1>2, CachedFact
  <2>3. r \in Cached'
    BY <1>2, CachedFact
  <2> QED BY <2>1, <2>2, <2>3, Zenon
<1>6. Cached' = Cached \union {r}
  BY <1>5, Zenon
<1> QED BY <1>2, <1>4, <1>6, Zenon

(* The length of a concatenation. *)
LEMMA CatLen ==
    ASSUME NEW S, NEW p \in Seq(S), NEW q \in Seq(S)
    PROVE  Len(p \o q) = Len(p) + Len(q)
  OBVIOUS

(* Appending the regions of q, which are new and come once. *)
LEMMA CacheFill ==
    ASSUME cache \in [Thread -> Seq(Region)], CacheOnce, NEW t \in Thread,
           NEW S \in SUBSET Region, NEW q \in Ascending(S), S \intersect Cached = {},
           cache' = [cache EXCEPT ![t] = @ \o q]
    PROVE  /\ cache' \in [Thread -> Seq(Region)] /\ CacheOnce'
           /\ Cached' = Cached \union S
<1>1. /\ cache[t] \in Seq(Region) /\ Len(cache[t]) \in Nat
      /\ DOMAIN cache[t] = 1 .. Len(cache[t])
  OBVIOUS
<1>2. PICK n \in Nat : q \in [1 .. n -> S]
  BY SlabAssumption DEF Ascending
<1>3. q \in Seq(Region) /\ Len(q) = n /\ DOMAIN q = 1 .. n
  BY <1>2
<1>4. /\ \A x \in S : \E i \in 1 .. n : q[i] = x
      /\ \A i, j \in 1 .. n : q[i] = q[j] => i = j
  <2>1. Range(q) = S /\ \A i, j \in 1 .. n : i < j => q[i] < q[j]
    BY <1>3, Zenon DEF Ascending
  <2>2. ASSUME NEW x \in Region PROVE ~ (x < x)
    BY SlabAssumption DEF Region
  <2>3. ASSUME NEW i \in 1 .. n, NEW j \in 1 .. n, q[i] = q[j] PROVE i = j
    <3>1. q[i] \in Region
      BY <1>2, Zenon
    <3>2. ~ (i < j) /\ ~ (j < i)
      BY <2>1, <2>2, <2>3, <3>1, Zenon
    <3> QED BY <3>2
  <2> QED BY <2>1, <2>3, <1>3, Zenon DEF Range
<1> DEFINE l == Len(cache[t])
<1>5. /\ cache' \in [Thread -> Seq(Region)] /\ DOMAIN cache'[t] = 1 .. (l + n)
      /\ \A i \in DOMAIN cache[t] : i \in DOMAIN cache'[t] /\ cache'[t][i] = cache[t][i]
      /\ \A i \in 1 .. n : l + i \in DOMAIN cache'[t] /\ cache'[t][l + i] = q[i]
      /\ \A u \in Thread \ {t} : cache'[u] = cache[u]
  <2>0. /\ cache'[t] = cache[t] \o q /\ \A u \in Thread \ {t} : cache'[u] = cache[u]
        /\ cache' \in [Thread -> Seq(Region)]
    <3>1. cache[t] \o q \in Seq(Region)
      BY <1>1, <1>3
    <3> QED BY <3>1, Zenon
  <2>1. cache'[t] \in Seq(Region) /\ Len(cache'[t]) = l + n
    <3>1. Len(cache[t] \o q) = Len(cache[t]) + Len(q)
      BY <1>1, <1>3, CatLen, Zenon
    <3> QED BY <3>1, <2>0, <1>3, Zenon
  <2>2. /\ \A i \in 1 .. l : cache'[t][i] = cache[t][i]
        /\ \A i \in 1 .. n : cache'[t][l + i] = q[i]
    BY <2>0, <1>1, <1>3
  <2>3. DOMAIN cache'[t] = 1 .. (l + n)
    BY <2>1
  <2> QED BY <2>0, <2>2, <2>3, <1>1, <1>2
<1>51. l \in Nat /\ DOMAIN cache[t] = 1 .. l
  BY <1>1
<1> HIDE DEF l
<1>6. ASSUME NEW u \in Thread, NEW i \in DOMAIN cache'[u]
      PROVE  /\ cache'[u][i] \notin S => i \in DOMAIN cache[u] /\ cache'[u][i] = cache[u][i]
             /\ cache'[u][i] \in S => u = t /\ \E k \in 1 .. n : i = l + k /\ cache'[u][i] = q[k]
  <2>1. i \in DOMAIN cache[u] \/ (u = t /\ \E k \in 1 .. n : i = l + k)
    <3>1. CASE u # t
      BY <3>1, <1>5, <1>6, Zenon
    <3>2. CASE u = t
      <4>1. i \in 1 .. (l + n)
        BY <3>2, <1>5, <1>6, Zenon
      <4>2. CASE i <= l
        BY <4>1, <4>2, <3>2, <1>51
      <4>3. CASE ~ (i <= l)
        <5>1. i - l \in 1 .. n /\ i = l + (i - l)
          BY <4>1, <4>3, <1>51
        <5>2. \E k \in 1 .. n : i = l + k
          BY <5>1, Zenon
        <5> QED BY <5>2, <3>2, Zenon
      <4> QED BY <4>2, <4>3, Zenon
    <3> QED BY <3>1, <3>2, Zenon
  <2>2. i \in DOMAIN cache[u] => cache'[u][i] = cache[u][i] /\ cache[u][i] \notin S
    BY <1>5, CachedFact
  <2>3. \A k \in 1 .. n : q[k] \in S
    BY <1>2
  <2>4. ASSUME i \notin DOMAIN cache[u]
        PROVE  u = t /\ cache'[u][i] \in S /\ \E k \in 1 .. n : i = l + k /\ cache'[u][i] = q[k]
    <3>1. PICK k \in 1 .. n : u = t /\ i = l + k
      BY <2>1, <2>4, Zenon
    <3>2. cache'[u][i] = q[k] /\ q[k] \in S
      BY <3>1, <2>3, <1>5, Zenon
    <3> QED BY <3>1, <3>2, Zenon
  <2> QED BY <2>2, <2>4, Zenon
<1>7. CacheOnce'
  <2>1. ASSUME NEW u \in Thread, NEW v \in Thread, NEW i \in DOMAIN cache'[u],
               NEW j \in DOMAIN cache'[v], cache'[u][i] = cache'[v][j]
        PROVE  u = v /\ i = j
    <3>1. CASE cache'[u][i] \in S
      <4>0. cache'[v][j] \in S
        BY <3>1, <2>1, Zenon
      <4>1. u = t /\ \E k \in 1 .. n : i = l + k /\ cache'[u][i] = q[k]
        BY <3>1, <1>6, Zenon
      <4>2. v = t /\ \E k \in 1 .. n : j = l + k /\ cache'[v][j] = q[k]
        BY <4>0, <1>6, Zenon
      <4> QED BY <4>1, <4>2, <2>1, <1>4, Zenon
    <3>2. CASE cache'[u][i] \notin S
      <4>0. cache'[v][j] \notin S
        BY <3>2, <2>1, Zenon
      <4>1. i \in DOMAIN cache[u] /\ cache'[u][i] = cache[u][i]
        BY <3>2, <1>6, ZenonT(30)
      <4>2. j \in DOMAIN cache[v] /\ cache'[v][j] = cache[v][j]
        BY <4>0, <1>6, Zenon
      <4>3. cache[u][i] = cache[v][j]
        BY <4>1, <4>2, <2>1, Zenon
      <4> QED BY <4>1, <4>2, <4>3 DEF CacheOnce
    <3> QED BY <3>1, <3>2, Zenon
  <2> QED BY <2>1, Zenon DEF CacheOnce
<1>8. ASSUME NEW x PROVE x \in Cached' <=> x \in Cached \union S
  <2>1. ASSUME x \in Cached' PROVE x \in Cached \union S
    <3>1. PICK u \in Thread : \E i \in DOMAIN cache'[u] : cache'[u][i] = x
      BY <2>1, CachedFact, Zenon
    <3>2. PICK i \in DOMAIN cache'[u] : cache'[u][i] = x
      BY <3>1, Zenon
    <3>3. (i \in DOMAIN cache[u] /\ cache[u][i] = x) \/ x \in S
      BY <3>2, <1>6, Zenon
    <3>4. ASSUME x \notin S PROVE x \in Cached
      <4>1. i \in DOMAIN cache[u] /\ cache[u][i] = x
        BY <3>3, <3>4, Zenon
      <4> QED BY <4>1, CachedFact, Zenon
    <3> QED BY <3>4, Zenon
  <2>2. x \in Cached => x \in Cached'
    BY <1>5, CachedFact
  <2>3. ASSUME x \in S PROVE x \in Cached'
    <3>1. PICK k \in 1 .. n : q[k] = x
      BY <2>3, <1>4, Zenon
    <3>2. l + k \in DOMAIN cache'[t] /\ cache'[t][l + k] = x
      BY <3>1, <1>5, Zenon
    <3> QED BY <3>2, CachedFact
  <2> QED BY <2>1, <2>2, <2>3, Zenon
<1>9. Cached' = Cached \union S
  BY <1>8, Zenon
<1> QED BY <1>5, <1>7, <1>9, Zenon


-----------------------------------------------------------------------------
(* What the invariant is about, element by element. *)

(* What it means to wait for the callback. *)
LEMMA PendFact ==
    /\ \A x : x \in Pending <=> \E t \in Thread : x \in th[t].regs
    /\ \A x : x \in Pending' <=> \E t \in Thread : x \in th'[t].regs
  BY DEF Pending

(* What it means to be a region of a run. *)
LEMMA RegionFact == \A r, x : x \in Regions(r) <=> x \in Region /\ RunOf(x) = r
  BY DEF Regions

(* What it means to be a run of an extent. *)
LEMMA RunFact == \A e, r : r \in Runs(e) <=> r \in Run /\ ExtOf(r) = e
  BY DEF Runs

(* The live runs depend on the marks, the scan and what awaits the workers. *)
LEMMA LiveSame ==
    ASSUME bits' = bits, mode' = mode, scan' = scan, cond' = cond,
           mode = "recover" => \A t \in Thread, r \in bits : Ahead(t, r)' <=> Ahead(t, r)
    PROVE  Live' = Live
<1>1. ASSUME NEW r \in bits PROVE r \in Live' <=> r \in Live
  BY <1>1, Zenon DEF Live
<1>2. ASSUME NEW r PROVE (r \in Live' => r \in bits) /\ (r \in Live => r \in bits)
  BY Zenon DEF Live
<1>3. ASSUME NEW r PROVE r \in Live' <=> r \in Live
  BY <1>1, <1>2, Zenon
<1> QED BY <1>3, Zenon

(* A step of t that keeps its place in the scan, or one outside recovery. *)
LEMMA AheadSame ==
    ASSUME NEW t \in Thread, \A u \in Thread \ {t} : th'[u] = th[u],
           th'[t].ext = th[t].ext, th'[t].rid = th[t].rid, Working(t)' <=> Working(t)
    PROVE  \A u \in Thread, r \in bits : Ahead(u, r)' <=> Ahead(u, r)
<1>1. ASSUME NEW u \in Thread, NEW r \in bits PROVE Ahead(u, r)' <=> Ahead(u, r)
  <2>1. CASE u = t
    BY <2>1, Zenon DEF Ahead
  <2>2. CASE u # t
    <3>1. th'[u] = th[u]
      BY <2>2, Zenon
    <3> QED BY <3>1, Zenon DEF Ahead, Working
  <2> QED BY <2>1, <2>2, Zenon
<1> QED BY <1>1, Zenon

(* A step that moves regions between hands leaves the bins alone. *)
LEMMA QuietBins ==
    ASSUME SlInv, ext' = ext, used' = used, bits' = bits, arena' = arena, rbin' = rbin,
           abin' = abin, alloc' = alloc, mode' = mode, half' = half, consistent' = consistent,
           cond' = cond, Live' = Live, Out' = Out, mode \in {"open", "recover"}
    PROVE  BitsInv' /\ BinInv' /\ AccountInv' /\ CondInv'
<1>1. BitsInv'
  BY Zenon DEF SlInv, BitsInv
<1>2. BinInv'
  BY Zenon DEF SlInv, BinInv
<1>3. AccountInv'
  BY Zenon DEF SlInv, AccountInv
<1>4. CondInv'
  <2>1. ~ consistent /\ mode \notin {"close", "reboot"}
    BY SlMode DEF ModeInv
  <2> QED BY <2>1, Zenon DEF SlInv, CondInv
<1> QED BY <1>1, <1>2, <1>3, <1>4, Zenon

(* ExtInv holds after a step that changes no bin and sends no worker on. *)
LEMMA ExtKept ==
    ASSUME SlInv, ext' = ext, bits' = bits, rbin' = rbin, mode' = mode, half' = half,
           consistent' = consistent, scan' = scan,
           \A t \in Thread : th[t].pc = "reload" => th'[t].pc = "reload" /\ th'[t].ext = th[t].ext
    PROVE  ExtInv'
<1>1. mode = "recover" =>
        \A e \in ext : \/ Runs(e) \subseteq bits \/ e \in rbin["normal"] \/ scan <= e
                       \/ \E t \in Thread : th'[t].pc = "reload" /\ th'[t].ext = e
  BY ZenonT(30) DEF SlInv, ExtInv
<1> QED BY <1>1, Zenon DEF SlInv, ExtInv

(* Regions change hands while the allocator is open or recovering: what is *)
(* out stays out, and a region becomes busy only when it is known.         *)
LEMMA Moved ==
    ASSUME SlInv, ext' = ext, used' = used, bits' = bits, arena' = arena, rbin' = rbin,
           abin' = abin, alloc' = alloc, mode' = mode, half' = half, consistent' = consistent,
           cond' = cond, scan' = scan, Live' = Live, Out' = Out, mode \in {"open", "recover"},
           \A t \in Thread : th[t].pc = "reload" => th'[t].pc = "reload" /\ th'[t].ext = th[t].ext,
           tok' \subseteq tok \union known', TypeOK', ThreadInv', HandInv', ScanInv'
    PROVE  SlInv'
<1>1. BitsInv' /\ BinInv' /\ AccountInv' /\ CondInv' /\ ExtInv'
  BY QuietBins, ExtKept, Zenon
<1>2. ModeInv'
  BY SlMode DEF ModeInv
<1>3. PlaceInv'
  <2>1. \A x \in Out' : RunOf(x) \in bits' /\ (mode' = "recover" => RunOf(x) \in Live')
    BY Zenon DEF SlInv, PlaceInv
  <2>2. ASSUME NEW x \in tok'
        PROVE  RunOf(x) \in bits' /\ (RunOf(x) \in Live' => x \in known' \union Pending')
    <3>1. CASE x \in known'
      <4>1. x \in Out'
        BY <3>1, Zenon DEF Out
      <4> QED BY <4>1, <3>1, <2>1, Zenon
    <3>2. CASE x \in tok
      <4>1. RunOf(x) \in bits /\ (RunOf(x) \in Live => x \in known \union Pending)
        BY <3>2, Zenon DEF SlInv, PlaceInv
      <4>2. RunOf(x) \in Live => x \in Out'
        BY <4>1, Zenon DEF Out
      <4>3. x \notin Cached'
        BY Zenon DEF HandInv
      <4> QED BY <4>1, <4>2, <4>3, Zenon DEF Out
    <3> QED BY <3>1, <3>2, Zenon
  <2> QED BY <2>1, <2>2, Zenon DEF PlaceInv
<1> QED BY <1>1, <1>2, <1>3, Zenon DEF SlInv

(* ScanInv holds after a step in which no worker takes an extent. *)
LEMMA ScanSame ==
    ASSUME SlInv, mode' = mode, scan' = scan, used' = used,
           \A t \in Thread : /\ Working(t)' => Working(t) /\ th'[t].ext = th[t].ext
                             /\ th'[t].pc = "done" => th[t].pc = "done"
    PROVE  ScanInv'
<1>1. CASE mode = "recover"
  <2>1. /\ scan' <= used'
        /\ \A t \in Thread : /\ Working(t)' => th'[t].ext < scan'
                             /\ th'[t].pc = "done" => scan' = used'
    BY <1>1, Zenon DEF SlInv, ScanInv
  <2>2. \A s, t \in Thread : s # t /\ Working(s)' /\ Working(t)' => th'[s].ext # th'[t].ext
    BY <1>1, Zenon DEF SlInv, ScanInv
  <2> QED BY <2>1, <2>2, Zenon DEF ScanInv
<1>2. CASE mode # "recover"
  BY <1>2, Zenon DEF ScanInv
<1> QED BY <1>1, <1>2, Zenon

(* A step that leaves the threads as they are. *)
LEMMA ThreadsSame ==
    ASSUME SlInv, th' = th, mode' = mode, scan' = scan, used' = used, bits' = bits, cond' = cond
    PROVE  /\ Live' = Live /\ Pending' = Pending /\ ThreadInv' /\ ScanInv' /\ PendOnce'
           /\ \A t \in Thread : Working(t)' <=> Working(t)
<1>1. \A t \in Thread : Working(t)' <=> Working(t)
  BY Zenon DEF Working
<1>2. \A t \in Thread, r \in bits : Ahead(t, r)' <=> Ahead(t, r)
  BY Zenon DEF Ahead, Working
<1>3. Live' = Live
  BY <1>2, LiveSame, Zenon
<1>4. Pending' = Pending /\ ThreadInv' /\ PendOnce'
  <2>1. Pending' = Pending /\ PendOnce'
    BY Zenon DEF Pending, SlInv, HandInv, PendOnce
  <2>2. ThreadInv'
    BY Zenon DEF SlInv, ThreadInv, ThreadOK
  <2> QED BY <2>1, <2>2, Zenon
<1>5. ScanInv'
  BY <1>1, ScanSame, Zenon
<1> QED BY <1>1, <1>3, <1>4, <1>5, Zenon

(* A step that changes no cache bin. *)
LEMMA CacheKept ==
    ASSUME SlInv, cache' = cache
    PROVE  CacheOnce' /\ Cached' = Cached
<1>1. CacheOnce'
  <2>1. CacheOnce
    BY Zenon DEF SlInv, HandInv
  <2> QED BY <2>1 DEF CacheOnce
<1>2. Cached' = Cached
  BY Zenon DEF Cached
<1> QED BY <1>1, <1>2, Zenon

-----------------------------------------------------------------------------
(* Steps that move regions between hands. *)

(* CacheBin::acquire from the cache keeps the invariant. *)
LEMMA AcquireCachedStep ==
    ASSUME SlInv, NEW t \in Thread, AcquireCached(t)
    PROVE  SlInv'
<1>1. /\ mode = "open" /\ cache[t] # <<>> /\ known' = known \union {Head(cache[t])}
      /\ cache' = [cache EXCEPT ![t] = Tail(@)]
      /\ ext' = ext /\ used' = used /\ bits' = bits /\ arena' = arena /\ tok' = tok
      /\ cond' = cond /\ rbin' = rbin /\ abin' = abin /\ alloc' = alloc /\ th' = th
      /\ mode' = mode /\ half' = half /\ consistent' = consistent /\ recs' = recs /\ scan' = scan
  BY Zenon DEF AcquireCached, pool, cnd, bins, rec
<1>2. /\ cache' \in [Thread -> Seq(Region)] /\ CacheOnce'
      /\ Head(cache[t]) \in Cached /\ Head(cache[t]) \in Region
      /\ Cached' = Cached \ {Head(cache[t])}
  BY <1>1, CachePop, Zenon DEF SlInv, TypeOK, HandInv
<1>3. /\ Live' = Live /\ Pending' = Pending /\ ThreadInv' /\ ScanInv' /\ PendOnce'
  BY <1>1, ThreadsSame, Zenon
<1>4. Out' = Out
  BY <1>1, <1>2, <1>3, Zenon DEF Out
<1>5. TypeOK'
  BY <1>1, <1>2, Zenon DEF SlInv, TypeOK
<1>6. HandInv'
  <2>1. Head(cache[t]) \notin known \union tok /\ Pending \subseteq tok \ known
    BY <1>2, Zenon DEF SlInv, HandInv
  <2>2. Pending' \subseteq tok' \ known'
    BY <2>1, <1>1, <1>3, Zenon
  <2>3. Cached' \intersect (known' \union tok') = {}
    BY <1>1, <1>2, Zenon DEF SlInv, HandInv
  <2> QED BY <2>2, <2>3, <1>2, <1>3, Zenon DEF HandInv
<1> QED BY <1>1, <1>3, <1>4, <1>5, <1>6, Moved, Zenon

(* region_t::publish keeps the invariant. *)
LEMMA PublishStep ==
    ASSUME SlInv, NEW x \in Region, Publish(x)
    PROVE  SlInv'
<1>1. /\ mode \in {"open", "recover"} /\ x \in known /\ tok' = tok \union {x}
      /\ ext' = ext /\ used' = used /\ bits' = bits /\ arena' = arena /\ known' = known
      /\ cond' = cond /\ rbin' = rbin /\ abin' = abin /\ alloc' = alloc /\ th' = th /\ cache' = cache
      /\ mode' = mode /\ half' = half /\ consistent' = consistent /\ recs' = recs /\ scan' = scan
  BY Zenon DEF Publish, cnd, bins, rec
<1>2. CacheOnce' /\ Cached' = Cached
  BY <1>1, CacheKept, Zenon
<1>3. /\ Live' = Live /\ Pending' = Pending /\ ThreadInv' /\ ScanInv' /\ PendOnce'
  BY <1>1, ThreadsSame, Zenon
<1>4. Out' = Out
  BY <1>1, <1>2, <1>3, Zenon DEF Out
<1>5. TypeOK'
  BY <1>1, Zenon DEF SlInv, TypeOK
<1>6. HandInv'
  <2>1. Pending' \subseteq tok' \ known'
    BY <1>1, <1>3, Zenon DEF SlInv, HandInv
  <2>2. Cached' \intersect (known' \union tok') = {}
    BY <1>1, <1>2, Zenon DEF SlInv, HandInv
  <2> QED BY <2>1, <2>2, <1>2, <1>3, Zenon DEF HandInv
<1>7. tok' \subseteq tok \union known'
  BY <1>1, Zenon
<1> QED BY <1>1, <1>3, <1>4, <1>5, <1>6, <1>7, Moved, Zenon

(* A step of one thread. *)
LEMMA ThreadOne ==
    ASSUME SlInv, NEW t \in Thread, \A u \in Thread \ {t} : th'[u] = th[u], mode' = mode,
           ThreadOK(t)'
    PROVE  ThreadInv'
<1>1. ASSUME NEW u \in Thread \ {t} PROVE ThreadOK(u)'
  <2>1. th'[u] = th[u] /\ ThreadOK(u)
    BY Zenon DEF SlInv, ThreadInv
  <2> QED BY <2>1, Zenon DEF ThreadOK
<1> QED BY <1>1, Zenon DEF ThreadInv

(* A step of a thread that keeps its pending regions. *)
LEMMA PendKept ==
    ASSUME SlInv, NEW t \in Thread, \A u \in Thread \ {t} : th'[u] = th[u],
           th'[t].regs = th[t].regs
    PROVE  Pending' = Pending /\ PendOnce'
<1>1. \A u \in Thread : th'[u].regs = th[u].regs
  BY Zenon
<1>2. ASSUME NEW x PROVE x \in Pending' <=> x \in Pending
  BY <1>1, PendFact, Zenon
<1>3. PendOnce'
  BY <1>1, Zenon DEF SlInv, HandInv, PendOnce
<1> QED BY <1>2, <1>3, Zenon

(* A step of one thread that keeps its place in the scan. *)
LEMMA PlaceKept ==
    ASSUME SlInv, NEW t \in Thread, \A u \in Thread \ {t} : th'[u] = th[u], mode' = mode,
           scan' = scan, used' = used, bits' = bits, cond' = cond, th'[t].ext = th[t].ext,
           th'[t].rid = th[t].rid, Working(t)' <=> Working(t),
           th'[t].pc = "done" => th[t].pc = "done"
    PROVE  Live' = Live /\ ScanInv'
<1>1. \A u \in Thread, r \in bits : Ahead(u, r)' <=> Ahead(u, r)
  BY AheadSame, Zenon
<1>2. Live' = Live
  BY <1>1, LiveSame, Zenon
<1>3. ASSUME NEW u \in Thread
      PROVE  /\ Working(u)' => Working(u) /\ th'[u].ext = th[u].ext
             /\ th'[u].pc = "done" => th[u].pc = "done"
  <2>1. CASE u = t
    BY <2>1, Zenon
  <2>2. CASE u # t
    <3>1. th'[u] = th[u]
      BY <2>2, Zenon
    <3> QED BY <3>1, Zenon DEF Working
  <2> QED BY <2>1, <2>2, Zenon
<1>4. ScanInv'
  BY <1>3, ScanSame, Zenon
<1> QED BY <1>2, <1>4, Zenon

(* fill_cache_bin takes the lock of the arena bin. *)
LEMMA AcquireFillStep ==
    ASSUME SlInv, NEW t \in Thread, AcquireFill(t)
    PROVE  SlInv'
<1>1. /\ mode = "open" /\ th[t].pc = "idle" /\ th' = [th EXCEPT ![t].pc = "fill"]
      /\ ext' = ext /\ used' = used /\ bits' = bits /\ arena' = arena /\ tok' = tok
      /\ known' = known /\ cache' = cache
      /\ cond' = cond /\ rbin' = rbin /\ abin' = abin /\ alloc' = alloc
      /\ mode' = mode /\ half' = half /\ consistent' = consistent /\ recs' = recs /\ scan' = scan
  BY Zenon DEF AcquireFill, pool, cnd, bins, rec
<1>2. /\ th' \in [Thread -> Local] /\ \A u \in Thread \ {t} : th'[u] = th[u]
      /\ th'[t].pc = "fill" /\ th'[t].ret = th[t].ret /\ th'[t].ext = th[t].ext
      /\ th'[t].rid = th[t].rid /\ th'[t].regs = th[t].regs
  <2>1. th \in [Thread -> Local] /\ th[t] \in Local
    BY Zenon DEF SlInv, TypeOK
  <2>2. th'[t] = [th[t] EXCEPT !.pc = "fill"] /\ \A u \in Thread \ {t} : th'[u] = th[u]
    BY <1>1, <2>1, Zenon
  <2>3. /\ th'[t] \in Local /\ th'[t].pc = "fill" /\ th'[t].ret = th[t].ret
        /\ th'[t].ext = th[t].ext /\ th'[t].rid = th[t].rid /\ th'[t].regs = th[t].regs
    BY <2>1, <2>2 DEF Local
  <2>4. th' \in [Thread -> Local]
    BY <1>1, <2>1, <2>2, <2>3
  <2> QED BY <2>2, <2>3, <2>4, Zenon
<1>3. Working(t)' <=> Working(t)
  BY <1>1, <1>2 DEF Working
<1>4. Live' = Live /\ ScanInv'
  BY <1>1, <1>2, <1>3, PlaceKept
<1>5. Pending' = Pending /\ PendOnce'
  BY <1>2, PendKept, Zenon
<1>6. ThreadInv'
  <2>1. ThreadOK(t)'
    BY <1>1, <1>2, SlThread DEF ThreadInv, ThreadOK
  <2> QED BY <2>1, <1>1, <1>2, ThreadOne, Zenon
<1>7. CacheOnce' /\ Cached' = Cached
  BY <1>1, CacheKept, Zenon
<1>8. Out' = Out
  BY <1>1, <1>5, <1>7, Zenon DEF Out
<1>9. TypeOK'
  BY <1>1, <1>2, Zenon DEF SlInv, TypeOK
<1>10. HandInv'
  BY <1>1, <1>5, <1>7, Zenon DEF SlInv, HandInv
<1>11. \A u \in Thread : th[u].pc = "reload" => th'[u].pc = "reload" /\ th'[u].ext = th[u].ext
  BY <1>1, <1>2
<1> QED BY <1>1, <1>4, <1>6, <1>8, <1>9, <1>10, <1>11, Moved, Zenon

(* The end of fill_cache_bin hands out a region, or nothing. *)
LEMMA FillDoneStep ==
    ASSUME SlInv, NEW t \in Thread, FillDone(t)
    PROVE  SlInv'
<1>1. /\ th[t].pc = "fill" /\ th' = [th EXCEPT ![t].pc = "idle"]
      /\ known' = (IF cache[t] = <<>> THEN known ELSE known \union {Head(cache[t])})
      /\ cache' = [cache EXCEPT ![t] = IF @ = <<>> THEN @ ELSE Tail(@)]
      /\ ext' = ext /\ used' = used /\ bits' = bits /\ arena' = arena /\ tok' = tok
      /\ cond' = cond /\ rbin' = rbin /\ abin' = abin /\ alloc' = alloc
      /\ mode' = mode /\ half' = half /\ consistent' = consistent /\ recs' = recs /\ scan' = scan
  BY Zenon DEF FillDone, pool, cnd, bins, rec
<1>2. /\ th' \in [Thread -> Local] /\ \A u \in Thread \ {t} : th'[u] = th[u]
      /\ th'[t].pc = "idle" /\ th'[t].ret = th[t].ret /\ th'[t].ext = th[t].ext
      /\ th'[t].rid = th[t].rid /\ th'[t].regs = th[t].regs
  <2>1. th \in [Thread -> Local] /\ th[t] \in Local
    BY Zenon DEF SlInv, TypeOK
  <2>2. th'[t] = [th[t] EXCEPT !.pc = "idle"] /\ \A u \in Thread \ {t} : th'[u] = th[u]
    BY <1>1, <2>1, Zenon
  <2>3. /\ th'[t] \in Local /\ th'[t].pc = "idle" /\ th'[t].ret = th[t].ret /\ th'[t].ext = th[t].ext
        /\ th'[t].rid = th[t].rid /\ th'[t].regs = th[t].regs
    BY <2>1, <2>2 DEF Local
  <2>4. th' \in [Thread -> Local]
    BY <1>1, <2>1, <2>2, <2>3
  <2> QED BY <2>2, <2>3, <2>4, Zenon
<1>3. mode = "open" /\ (Working(t)' <=> Working(t))
  <2>1. ThreadOK(t)
    BY Zenon DEF SlInv, ThreadInv
  <2>2. mode = "open"
    BY <2>1, <1>1 DEF ThreadOK, Idle
  <2> QED BY <2>2, <1>1, <1>2 DEF Working
<1>4. Live' = Live /\ ScanInv'
  BY <1>1, <1>2, <1>3, PlaceKept
<1>5. Pending' = Pending /\ PendOnce'
  BY <1>2, PendKept, Zenon
<1>6. ThreadInv'
  <2>1. ThreadOK(t)'
    BY <1>1, <1>2, <1>3, SlThread DEF ThreadInv, ThreadOK
  <2> QED BY <2>1, <1>1, <1>2, ThreadOne, Zenon
<1>7. /\ cache' \in [Thread -> Seq(Region)] /\ CacheOnce' /\ Out' = Out
      /\ known' \subseteq Region /\ Pending' \subseteq tok' \ known'
      /\ Cached' \intersect (known' \union tok') = {}
  <2>0. /\ cache \in [Thread -> Seq(Region)] /\ CacheOnce /\ known \subseteq Region
        /\ Cached \intersect (known \union tok) = {} /\ Pending \subseteq tok \ known
    BY Zenon DEF SlInv, TypeOK, HandInv
  <2>1. CASE cache[t] = <<>>
    <3>1. cache' = cache /\ known' = known
      BY <2>1, <2>0, <1>1
    <3>2. CacheOnce' /\ Cached' = Cached
      BY <3>1, CacheKept, Zenon
    <3> QED BY <3>1, <3>2, <2>0, <1>1, <1>5, Zenon DEF Out
  <2>2. CASE cache[t] # <<>>
    <3>1. cache' = [cache EXCEPT ![t] = Tail(@)] /\ known' = known \union {Head(cache[t])}
      BY <2>2, <1>1
    <3>2. /\ cache' \in [Thread -> Seq(Region)] /\ CacheOnce'
          /\ Head(cache[t]) \in Cached /\ Head(cache[t]) \in Region
          /\ Cached' = Cached \ {Head(cache[t])}
      BY <3>1, <2>0, <2>2, CachePop, Zenon
    <3>3. Out' = Out
      BY <3>1, <3>2, <1>5, Zenon DEF Out
    <3>4. Head(cache[t]) \notin tok
      BY <3>2, <2>0, Zenon
    <3> QED BY <3>1, <3>2, <3>3, <3>4, <2>0, <1>1, <1>5, Zenon
  <2> QED BY <2>1, <2>2, Zenon
<1>8. TypeOK'
  BY <1>1, <1>2, <1>7, Zenon DEF SlInv, TypeOK
<1>9. HandInv'
  BY <1>5, <1>7, Zenon DEF HandInv
<1>10. \A u \in Thread : th[u].pc = "reload" => th'[u].pc = "reload" /\ th'[u].ext = th[u].ext
  BY <1>1, <1>2
<1> QED BY <1>1, <1>3, <1>4, <1>6, <1>7, <1>8, <1>9, <1>10, Moved, Zenon

(* ThreadCache::release, by the application or by the callback.            *)
LEMMA ReleaseStep ==
    ASSUME SlInv, NEW t \in Thread, NEW x \in Region, Release(t, x)
    PROVE  SlInv'
<1>1. /\ (mode = "open" /\ th[t].pc = "idle") \/ (mode = "recover" /\ th[t].pc = "rebuild")
      /\ x \in known /\ tok' = tok \ {x} /\ known' = known \ {x}
      /\ cache' = [cache EXCEPT ![t] = Append(@, x)]
      /\ th' = th \/ th' = [th EXCEPT ![t].pc = "spill", ![t].ret = th[t].pc]
      /\ ext' = ext /\ used' = used /\ bits' = bits /\ arena' = arena
      /\ cond' = cond /\ rbin' = rbin /\ abin' = abin /\ alloc' = alloc
      /\ mode' = mode /\ half' = half /\ consistent' = consistent /\ recs' = recs /\ scan' = scan
  BY Zenon DEF Release, InCallback, cnd, bins, rec
<1>2. /\ th' \in [Thread -> Local] /\ \A u \in Thread \ {t} : th'[u] = th[u]
      /\ th'[t].ext = th[t].ext /\ th'[t].rid = th[t].rid /\ th'[t].regs = th[t].regs
      /\ \/ th'[t].pc = th[t].pc /\ th'[t].ret = th[t].ret
         \/ th'[t].pc = "spill" /\ th'[t].ret = th[t].pc
  <2>1. th \in [Thread -> Local] /\ th[t] \in Local
    BY Zenon DEF SlInv, TypeOK
  <2>2. CASE th' = th
    BY <2>1, <2>2, Zenon
  <2>3. CASE th' = [th EXCEPT ![t].pc = "spill", ![t].ret = th[t].pc]
    <3>1. /\ th'[t] = [th[t] EXCEPT !.pc = "spill", !.ret = th[t].pc]
          /\ \A u \in Thread \ {t} : th'[u] = th[u]
      BY <2>1, <2>3, Zenon
    <3>2. /\ th'[t] \in Local /\ th'[t].pc = "spill" /\ th'[t].ret = th[t].pc
          /\ th'[t].ext = th[t].ext /\ th'[t].rid = th[t].rid /\ th'[t].regs = th[t].regs
      <4> DEFINE w == [th[t] EXCEPT !.pc = "spill"]
      <4>1. PICK p \in {"idle", "rebuild"} : th[t].pc = p
        BY <1>1, Zenon
      <4>2. /\ w \in Local /\ w.pc = "spill" /\ w.ext = th[t].ext /\ w.rid = th[t].rid
            /\ w.regs = th[t].regs
        BY <2>1 DEF Local
      <4>3. th'[t] = [w EXCEPT !.ret = p]
        BY <4>1, <3>1
      <4> HIDE DEF w
      <4>4. /\ th'[t] \in Local /\ th'[t].ret = p /\ th'[t].pc = w.pc
            /\ th'[t].ext = w.ext /\ th'[t].rid = w.rid /\ th'[t].regs = w.regs
        BY <4>2, <4>3 DEF Local
      <4> QED BY <4>1, <4>2, <4>4, Zenon
    <3>3. th' \in [Thread -> Local]
      BY <3>1, <3>2, <2>1, <2>3, SMTT(30)
    <3> QED BY <3>1, <3>2, <3>3, Zenon
  <2> QED BY <2>2, <2>3, <1>1, Zenon
<1>3. Working(t)' <=> Working(t)
  BY <1>1, <1>2 DEF Working
<1>4. Live' = Live /\ ScanInv'
  BY <1>1, <1>2, <1>3, PlaceKept
<1>5. Pending' = Pending /\ PendOnce'
  BY <1>2, PendKept, Zenon
<1>6. ThreadInv'
  <2>1. ThreadOK(t)'
    BY <1>1, <1>2, SlThread DEF ThreadInv, ThreadOK
  <2> QED BY <2>1, <1>1, <1>2, ThreadOne, Zenon
<1>7. x \notin Cached /\ x \notin Pending
  BY <1>1, Zenon DEF SlInv, HandInv
<1>8. /\ cache' \in [Thread -> Seq(Region)] /\ CacheOnce' /\ Cached' = Cached \union {x}
  BY <1>1, <1>7, CachePush, Zenon DEF SlInv, TypeOK, HandInv
<1>9. Out' = Out
  BY <1>1, <1>5, <1>8, Zenon DEF Out
<1>10. TypeOK'
  BY <1>1, <1>2, <1>8, Zenon DEF SlInv, TypeOK
<1>11. HandInv'
  <2>1. Pending' \subseteq tok' \ known'
    BY <1>1, <1>5, <1>7, Zenon DEF SlInv, HandInv
  <2>2. Cached' \intersect (known' \union tok') = {}
    BY <1>1, <1>8, Zenon DEF SlInv, HandInv
  <2> QED BY <2>1, <2>2, <1>5, <1>8, Zenon DEF HandInv
<1>12. \A u \in Thread : th[u].pc = "reload" => th'[u].pc = "reload" /\ th'[u].ext = th[u].ext
  BY <1>1, <1>2
<1>13. tok' \subseteq tok \union known' /\ mode \in {"open", "recover"}
  BY <1>1, Zenon
<1> QED BY <1>1, <1>4, <1>6, <1>9, <1>10, <1>11, <1>12, <1>13, Moved, Zenon

(* A thread that is inside a recovery. *)
LEMMA InRecovery ==
    ASSUME SlInv, NEW t \in Thread, th[t].pc \in {"reload", "runs", "rebuild", "done"}
    PROVE  mode = "recover" /\ (th[t].pc # "rebuild" => th[t].regs = {})
                            /\ (th[t].pc \in {"reload", "done"} => th[t].rid = 0)
<1>1. ThreadOK(t) /\ mode \in {"open", "close", "fault", "down", "reboot", "recover"}
  BY Zenon DEF SlInv, ThreadInv, TypeOK
<1> QED BY <1>1 DEF ThreadOK, Idle

(* A step of one worker that changes neither regions nor its place. *)
LEMMA WorkerStep ==
    ASSUME SlInv, NEW t \in Thread, \A u \in Thread \ {t} : th'[u] = th[u], mode = "recover",
           th' \in [Thread -> Local], Live' = Live, ScanInv', ThreadOK(t)',
           th[t].pc # "reload", th[t].regs = {}, th'[t].regs = {},
           UNCHANGED <<pool, cnd, bins, alock, cache, known, mode, rec>>
    PROVE  SlInv'
<1>1. /\ ext' = ext /\ used' = used /\ bits' = bits /\ arena' = arena /\ tok' = tok
      /\ cond' = cond /\ rbin' = rbin /\ abin' = abin /\ alloc' = alloc /\ cache' = cache
      /\ known' = known
      /\ mode' = mode /\ half' = half /\ consistent' = consistent /\ recs' = recs /\ scan' = scan
  BY Zenon DEF pool, cnd, bins, rec
<1>2. Pending' = Pending /\ PendOnce'
  BY PendKept, Zenon
<1>3. CacheOnce' /\ Cached' = Cached
  BY <1>1, CacheKept, Zenon
<1>4. Out' = Out
  BY <1>1, <1>2, <1>3, Zenon DEF Out
<1>5. ThreadInv'
  BY <1>1, ThreadOne, Zenon
<1>6. TypeOK'
  BY <1>1, Zenon DEF SlInv, TypeOK
<1>7. HandInv'
  BY <1>1, <1>2, <1>3, Zenon DEF SlInv, HandInv
<1>8. \A u \in Thread : th[u].pc = "reload" => th'[u].pc = "reload" /\ th'[u].ext = th[u].ext
  OBVIOUS
<1>9. tok' \subseteq tok \union known' /\ mode \in {"open", "recover"}
  BY <1>1, Zenon
<1> QED BY <1>1, <1>4, <1>5, <1>6, <1>7, <1>8, <1>9, Moved, Zenon

(* The worker has rebuilt a run and goes on to the next. *)
LEMMA RebuildDoneStep ==
    ASSUME SlInv, NEW t \in Thread, RebuildDone(t)
    PROVE  SlInv'
<1>1. /\ th[t].pc = "rebuild" /\ th[t].regs = {} /\ th' = [th EXCEPT ![t].pc = "runs"]
      /\ UNCHANGED <<pool, cnd, bins, alock, cache, known, mode, rec>>
  BY Zenon DEF RebuildDone
<1>2. /\ th' \in [Thread -> Local] /\ \A u \in Thread \ {t} : th'[u] = th[u]
      /\ th'[t].pc = "runs" /\ th'[t].ret = th[t].ret /\ th'[t].ext = th[t].ext
      /\ th'[t].rid = th[t].rid /\ th'[t].regs = th[t].regs
  <2>1. th \in [Thread -> Local] /\ th[t] \in Local
    BY Zenon DEF SlInv, TypeOK
  <2>2. th'[t] = [th[t] EXCEPT !.pc = "runs"] /\ \A u \in Thread \ {t} : th'[u] = th[u]
    BY <1>1, <2>1, Zenon
  <2>3. /\ th'[t] \in Local /\ th'[t].pc = "runs" /\ th'[t].ret = th[t].ret /\ th'[t].ext = th[t].ext
        /\ th'[t].rid = th[t].rid /\ th'[t].regs = th[t].regs
    BY <2>1, <2>2 DEF Local
  <2>4. th' \in [Thread -> Local]
    BY <1>1, <2>1, <2>2, <2>3
  <2> QED BY <2>2, <2>3, <2>4, Zenon
<1>3. mode = "recover" /\ (Working(t)' <=> Working(t)) /\ mode' = mode /\ scan' = scan
      /\ used' = used /\ bits' = bits /\ cond' = cond
  BY <1>1, <1>2, InRecovery DEF Working, pool, cnd, rec
<1>4. Live' = Live /\ ScanInv'
  BY <1>1, <1>2, <1>3, PlaceKept, SMTT(30)
<1>5. ThreadOK(t)'
  BY <1>1, <1>2, <1>3, SlThread, SMTT(30) DEF ThreadInv, ThreadOK
<1>6. th[t].pc # "reload" /\ th'[t].regs = {}
  BY <1>1, <1>2
<1> QED BY <1>1, <1>2, <1>3, <1>4, <1>5, <1>6, WorkerStep

(* A worker leaves an extent of which it has visited every run. *)
LEMMA RecoverExtentDoneStep ==
    ASSUME SlInv, NEW t \in Thread, RecoverExtentDone(t)
    PROVE  SlInv'
<1>1. /\ th[t].pc = "runs" /\ th[t].rid = NRun /\ th' = [th EXCEPT ![t] = Idle]
      /\ UNCHANGED <<pool, cnd, bins, alock, cache, known, mode, rec>>
  BY Zenon DEF RecoverExtentDone
<1>2. /\ th' \in [Thread -> Local] /\ \A u \in Thread \ {t} : th'[u] = th[u]
      /\ th'[t] = Idle /\ th'[t].pc = "idle" /\ th'[t].regs = {} /\ th'[t].rid = 0
  <2>1. Idle \in Local /\ Idle.pc = "idle" /\ Idle.regs = {} /\ Idle.rid = 0
    BY SlabAssumption DEF Idle, Local, Extent
  <2>2. th \in [Thread -> Local]
    BY Zenon DEF SlInv, TypeOK
  <2> QED BY <2>1, <2>2, <1>1, Zenon
<1>3. /\ mode = "recover" /\ th[t].regs = {} /\ mode' = mode /\ scan' = scan
      /\ used' = used /\ bits' = bits /\ cond' = cond
  BY <1>1, InRecovery DEF pool, cnd, rec
<1>4. ASSUME NEW u \in Thread, NEW r \in bits PROVE Ahead(u, r)' <=> Ahead(u, r)
  <2>1. CASE u # t
    <3>1. th'[u] = th[u]
      BY <2>1, <1>2, Zenon
    <3> QED BY <3>1, Zenon DEF Ahead, Working
  <2>2. CASE u = t
    <3>1. ~ Ahead(t, r)'
      BY <1>2 DEF Ahead, Working
    <3>2. r \in Run /\ NRun \in Nat
      BY SlabAssumption, Zenon DEF SlInv, TypeOK
    <3>3. r < ExtOf(r) * NRun + NRun
      BY <3>2, RunSpan, Zenon
    <3>4. ExtOf(r) * NRun \in Nat /\ r \in Nat
      <4>1. NExtent * NRun \in Nat /\ ExtOf(r) \in Nat
        BY <3>2, Places, SlabAssumption DEF Extent
      <4> QED BY <4>1, <3>2 DEF Run
    <3>5. ~ Ahead(t, r)
      <4>1. ASSUME th[t].ext = ExtOf(r) PROVE ~ (th[t].ext * NRun + th[t].rid <= r)
        BY <4>1, <3>2, <3>3, <3>4, <1>1
      <4> QED BY <4>1, Zenon DEF Ahead
    <3> QED BY <3>1, <3>5, <2>2, Zenon
  <2> QED BY <2>1, <2>2, Zenon
<1>5. Live' = Live
  BY <1>3, <1>4, LiveSame, Zenon
<1>6. ScanInv'
  <2>1. ASSUME NEW u \in Thread
        PROVE  /\ Working(u)' => Working(u) /\ th'[u].ext = th[u].ext
               /\ th'[u].pc = "done" => th[u].pc = "done"
    <3>1. CASE u = t
      BY <3>1, <1>2 DEF Working
    <3>2. CASE u # t
      <4>1. th'[u] = th[u]
        BY <3>2, <1>2, Zenon
      <4> QED BY <4>1, Zenon DEF Working
    <3> QED BY <3>1, <3>2, Zenon
  <2> QED BY <2>1, <1>3, ScanSame, Zenon
<1>7. ThreadOK(t)'
  BY <1>2, <1>3 DEF ThreadOK
<1>8. th[t].pc # "reload"
  BY <1>1
<1> QED BY <1>1, <1>2, <1>3, <1>5, <1>6, <1>7, <1>8, WorkerStep, Zenon

-----------------------------------------------------------------------------
(* Steps of the allocator as a whole. *)

(* Nothing is pending when all threads are idle. *)
LEMMA AllIdle ==
    ASSUME \A t \in Thread : th'[t] = Idle
    PROVE  /\ Pending' = {} /\ PendOnce' /\ ThreadInv'
           /\ \A t \in Thread : ~ Working(t)' /\ th'[t].pc = "idle"
<1>1. \A t \in Thread : th'[t].pc = "idle" /\ th'[t].ret = "idle" /\ th'[t].rid = 0 /\ th'[t].regs = {}
  BY DEF Idle
<1>2. \A t \in Thread : ~ Working(t)'
  BY <1>1 DEF Working
<1>3. Pending' = {}
  BY <1>1, PendFact, Zenon
<1>4. PendOnce'
  BY <1>1, Zenon DEF PendOnce
<1>5. ASSUME NEW t \in Thread PROVE ThreadOK(t)'
  BY <1>1 DEF ThreadOK
<1> QED BY <1>1, <1>2, <1>3, <1>4, <1>5, Zenon DEF ThreadInv

(* The idle state is typed. *)
LEMMA IdleLocal == Idle \in Local
  BY SlabAssumption DEF Idle, Local, Extent

(* No cached regions, no caches filled. *)
LEMMA CacheEmpty ==
    ASSUME cache \in [Thread -> Seq(Region)]
    PROVE  Cached = {} <=> \A t \in Thread : cache[t] = <<>>
<1>1. ASSUME Cached = {}, NEW t \in Thread PROVE cache[t] = <<>>
  <2>1. ASSUME cache[t] # <<>> PROVE 1 \in DOMAIN cache[t]
    <3>1. cache[t] \in Seq(Region) /\ Len(cache[t]) \in Nat \ {0} /\ DOMAIN cache[t] = 1 .. Len(cache[t])
      BY <2>1
    <3> QED BY <3>1
  <2> QED BY <2>1, <1>1, CachedFact, Zenon
<1>2. ASSUME \A t \in Thread : cache[t] = <<>>, NEW x PROVE x \notin Cached
  <2>1. DOMAIN <<>> = {}
    OBVIOUS
  <2> QED BY <2>1, <1>2, CachedFact, Zenon
<1> QED BY <1>1, <1>2, Zenon

(* Nothing is cached when all cache bins are empty. *)
LEMMA CacheEmptyNext ==
    ASSUME \A t \in Thread : cache'[t] = <<>>
    PROVE  Cached' = {} /\ CacheOnce'
<1>1. DOMAIN <<>> = {}
  OBVIOUS
<1>2. ASSUME NEW x PROVE x \notin Cached'
  BY <1>1, CachedFact, Zenon
<1>3. CacheOnce'
  BY <1>1, Zenon DEF CacheOnce
<1> QED BY <1>2, <1>3, Zenon

(* Unless closed, nobody but the application and the caches holds regions. *)
LEMMA NoPending ==
    ASSUME SlInv, mode # "recover"
    PROVE  Pending = {} /\ \A t \in Thread : th[t].regs = {} /\ ~ Working(t)
<1>1. ASSUME NEW t \in Thread PROVE th[t].regs = {} /\ ~ Working(t)
  <2>1. ThreadOK(t)
    BY Zenon DEF SlInv, ThreadInv
  <2>2. mode # "open" => th[t] = Idle
    BY <2>1, Zenon DEF ThreadOK
  <2>3. CASE mode = "open"
    BY <2>1, <2>3 DEF ThreadOK, Working
  <2>4. CASE mode # "open"
    <3>1. th[t] = Idle
      BY <2>2, <2>4, <2>1 DEF ThreadOK
    <3> QED BY <3>1 DEF Idle, Working
  <2> QED BY <2>3, <2>4, Zenon
<1> QED BY <1>1, PendFact, Zenon

(* ~AllocatorDetail begins: the application has published what it keeps, and *)
(* nothing else is busy.                                                     *)
LEMMA CloseBeginStep ==
    ASSUME SlInv, CloseBegin
    PROVE  SlInv'
<1>1. /\ mode = "open" /\ mode' = "close" /\ known \subseteq tok /\ \A t \in Thread : th[t] = Idle
      /\ ext' = ext /\ used' = used /\ bits' = bits /\ arena' = arena /\ tok' = tok /\ th' = th
      /\ cond' = cond /\ rbin' = rbin /\ abin' = abin /\ alloc' = alloc /\ cache' = cache
      /\ known' = known /\ half' = half /\ consistent' = consistent /\ recs' = recs /\ scan' = scan
  BY Zenon DEF CloseBegin, pool, cnd, bins, rec
<1>2. Live' = Live /\ Live = bits /\ bits \intersect cond = {}
  <2>1. bits \intersect cond = {}
    BY <1>1, Zenon DEF SlInv, CondInv
  <2>2. ASSUME NEW r PROVE (r \in Live <=> r \in bits) /\ (r \in Live' <=> r \in bits)
    BY <2>1, <1>1 DEF Live
  <2> QED BY <2>1, <2>2, Zenon
<1>3. Pending' = {} /\ PendOnce' /\ ThreadInv' /\ Pending = {}
  BY <1>1, AllIdle, NoPending
<1>4. CacheOnce' /\ Cached' = Cached
  BY <1>1, CacheKept, Zenon
<1>5. Out' = Out
  BY <1>1, <1>3, <1>4, Zenon DEF Out
<1>6. known = tok
  <2>1. ASSUME NEW x \in tok PROVE x \in known
    BY <1>2, <1>3, Zenon DEF SlInv, PlaceInv
  <2> QED BY <2>1, <1>1, Zenon
<1>7. TypeOK'
  BY <1>1, SlType DEF TypeOK
<1>8. ModeInv'
  BY <1>1, <1>6, SlMode DEF ModeInv
<1>9. BitsInv' /\ BinInv' /\ AccountInv'
  BY <1>1, <1>2, <1>5, Zenon DEF SlInv, BitsInv, BinInv, AccountInv
<1>10. HandInv'
  BY <1>1, <1>3, <1>4, Zenon DEF SlInv, HandInv
<1>11. PlaceInv'
  <2>1. mode' # "recover"
    BY <1>1
  <2> QED BY <2>1, <1>1, <1>2, <1>3, <1>5, Zenon DEF SlInv, PlaceInv
<1>12. ExtInv'
  <2>1. \A e \in ext : Runs(e) \subseteq bits \/ e \in rbin["normal"] \/ e \in half
    BY <1>1, SlExt DEF ExtInv
  <2> QED BY <2>1, <1>1, SMTT(30) DEF ExtInv
<1>13. CondInv'
  <2>1. ~ consistent
    BY <1>1, SlMode DEF ModeInv
  <2> QED BY <2>1, <1>1, <1>2 DEF CondInv
<1>14. ScanInv'
  BY <1>1, Zenon DEF ScanInv
<1> QED BY <1>3, <1>7, <1>8, <1>9, <1>10, <1>11, <1>12, <1>13, <1>14, Zenon DEF SlInv

(* AllocatorDetail is open again when every half-used extent is reloaded. *)
LEMMA RebootDoneStep ==
    ASSUME SlInv, RebootDone
    PROVE  SlInv'
<1>1. /\ mode = "reboot" /\ mode' = "open" /\ half = {}
      /\ ext' = ext /\ used' = used /\ bits' = bits /\ arena' = arena /\ tok' = tok /\ th' = th
      /\ cond' = cond /\ rbin' = rbin /\ abin' = abin /\ alloc' = alloc /\ cache' = cache
      /\ known' = known /\ half' = half /\ consistent' = consistent /\ recs' = recs /\ scan' = scan
  BY Zenon DEF RebootDone, pool, cnd, bins, rec
<1>2. bits \intersect cond = {} /\ ~ consistent
  <2>1. \A r \in bits \intersect cond : ExtOf(r) \in half
    BY <1>1, SlCond DEF CondInv
  <2>2. ~ consistent
    BY <1>1, SlMode DEF ModeInv
  <2> QED BY <2>1, <2>2, <1>1, Zenon
<1>3. Live' = Live
  <2>2. ASSUME NEW r PROVE r \in Live' <=> r \in Live
    BY <1>1 DEF Live
  <2> QED BY <2>2, Zenon
<1>4. Pending' = {} /\ PendOnce' /\ ThreadInv' /\ Pending = {}
  <2>1. \A t \in Thread : th'[t] = Idle
    BY <1>1, SlThread DEF ThreadInv, ThreadOK
  <2>2. mode # "recover"
    BY <1>1
  <2> QED BY <2>1, <2>2, AllIdle, NoPending, Zenon
<1>5. CacheOnce' /\ Cached' = Cached
  BY <1>1, CacheKept, Zenon
<1>6. Out' = Out
  BY <1>1, <1>4, <1>5, Zenon DEF Out
<1>7. TypeOK'
  BY <1>1, SlType, SMTT(30) DEF TypeOK
<1>8. ModeInv'
  BY <1>1, <1>2, SlMode DEF ModeInv
<1>9. BitsInv' /\ BinInv' /\ AccountInv'
  BY <1>1, <1>3, <1>6, Zenon DEF SlInv, BitsInv, BinInv, AccountInv
<1>10. HandInv'
  BY <1>1, <1>4, <1>5, Zenon DEF SlInv, HandInv
<1>11. PlaceInv'
  <2>1. mode' # "recover"
    BY <1>1
  <2> QED BY <2>1, <1>1, <1>3, <1>4, <1>6, Zenon DEF SlInv, PlaceInv
<1>12. ExtInv'
  <2>1. /\ \A e \in ext : Runs(e) \subseteq bits \/ e \in rbin["normal"] \/ e \in half
        /\ \A e \in rbin["normal"] : ~ Runs(e) \subseteq bits
    BY <1>1, SlExt DEF ExtInv
  <2> QED BY <2>1, <1>1, SMTT(30) DEF ExtInv
<1>13. CondInv'
  BY <1>1, <1>2 DEF CondInv
<1>14. ScanInv'
  BY <1>1 DEF ScanInv
<1> QED BY <1>4, <1>7, <1>8, <1>9, <1>10, <1>11, <1>12, <1>13, <1>14, Zenon DEF SlInv

(* Open, by reboot or by recovery. *)
LEMMA OpenStep ==
    ASSUME SlInv, Open
    PROVE  SlInv'
<1>1. /\ mode = "down" /\ ~ consistent' /\ th' = th
      /\ ext' = ext /\ used' = used /\ bits' = bits /\ arena' = arena /\ tok' = tok
      /\ cond' = cond /\ rbin' = rbin /\ abin' = abin /\ alloc' = alloc /\ cache' = cache
      /\ recs' = recs /\ scan' = scan
      /\ \/ consistent /\ mode' = "reboot" /\ known' = tok /\ half' = half
         \/ mode' = "recover" /\ half' = {} /\ known' = known
  BY ZenonT(30) DEF Open, pool, cnd, bins
<1>2. /\ scan = 0 /\ known = {} /\ rbin["normal"] = {} /\ \A a \in Arena : abin[a]["normal"] = {}
      /\ \A t \in Thread : cache[t] = <<>> /\ th[t] = Idle
  BY <1>1, SlMode, SlThread, Zenon DEF ModeInv, ThreadInv, ThreadOK
<1>3. Pending' = {} /\ PendOnce' /\ ThreadInv' /\ \A t \in Thread : ~ Working(t)' /\ th'[t].pc = "idle"
  BY <1>1, <1>2, AllIdle
<1>4. Cached' = {} /\ CacheOnce'
  BY <1>1, <1>2, CacheEmptyNext, Zenon
<1>5. TypeOK'
  BY <1>1, SlType, Zenon DEF TypeOK
<1>6. ModeInv'
  BY <1>1, <1>2 DEF ModeInv
<1>7. BitsInv' /\ BinInv'
  BY <1>1, <1>2, Zenon DEF SlInv, BitsInv, BinInv
<1>8. Out' = known'
  BY <1>3, <1>4, Zenon DEF Out
<1>9. HandInv'
  BY <1>3, <1>4, Zenon DEF HandInv
<1>10. known' \subseteq tok /\ \A x \in tok : RunOf(x) \in bits
  BY <1>1, <1>2, Zenon DEF SlInv, PlaceInv
<1>11. ASSUME consistent, mode' = "reboot", known' = tok, half' = half PROVE SlInv'
  <2>1. ASSUME NEW r \in Live' PROVE r \in bits /\ r \notin cond /\ Regions(r) \subseteq tok
    <3>1. r \in bits /\ r \notin cond
      BY <1>1, <1>11 DEF Live
    <3> QED BY <3>1, <1>11, Zenon DEF SlInv, CondInv
  <2>2. AccountInv'
    <3>1. ASSUME NEW r \in Live', NEW x \in Regions(r)
          PROVE  x \in Out' <=> (r \in abin'[arena'[r]]["normal"] => x \in alloc'[r])
      <4>1. arena[r] \in Arena /\ x \in tok
        BY <2>1, Zenon DEF SlInv, BitsInv
      <4>2. r \notin abin'[arena'[r]]["normal"] /\ x \in Out'
        BY <4>1, <1>1, <1>2, <1>8, <1>11, Zenon
      <4> QED BY <4>2, Zenon
    <3> QED BY <3>1, Zenon DEF AccountInv
  <2>3. PlaceInv'
    <3>1. mode' # "recover"
      BY <1>11, Zenon
    <3> QED BY <3>1, <1>1, <1>8, <1>10, <1>11, Zenon DEF PlaceInv
  <2>4. ExtInv'
    <3>1. \A e \in ext : Runs(e) \subseteq bits \/ e \in rbin["normal"] \/ e \in half
      BY <1>11, Zenon DEF SlInv, ExtInv
    <3> QED BY <3>1, <1>1, <1>2, <1>11 DEF ExtInv
  <2>5. CondInv'
    <3>1. \A r \in bits \intersect cond : ExtOf(r) \in half /\ ~ Regions(r) \subseteq tok
      BY <1>1, <1>11, SlCond, Zenon DEF CondInv
    <3> QED BY <3>1, <1>1, <1>11, Zenon DEF CondInv
  <2>6. ScanInv'
    BY <1>11, ZenonT(30) DEF ScanInv
  <2> QED BY <2>2, <2>3, <2>4, <2>5, <2>6, <1>3, <1>5, <1>6, <1>7, <1>9, ZenonT(30) DEF SlInv
<1>12. ASSUME mode' = "recover", half' = {}, known' = known PROVE SlInv'
  <2>1. ASSUME NEW r PROVE r \notin Live'
    <3>1. r \in bits => ExtOf(r) \in Nat
      <4>1. ASSUME r \in bits PROVE ExtOf(r) \in Extent
        BY <4>1, Places, Zenon DEF SlInv, TypeOK
      <4> QED BY <4>1, SlabAssumption DEF Extent
    <3>2. r \in bits => ~ (ExtOf(r) < 0)
      BY <3>1
    <3> QED BY <3>2, <1>1, <1>2, <1>12 DEF Live
  <2>2. AccountInv'
    BY <2>1, Zenon DEF AccountInv
  <2>3. PlaceInv'
    BY <2>1, <1>1, <1>2, <1>8, <1>10, <1>12, ZenonT(30) DEF PlaceInv
  <2>4. ExtInv'
    <3>1. \A e \in ext : scan' <= e
      <4>1. ext \subseteq Extent
        BY Zenon DEF SlInv, TypeOK
      <4> QED BY <4>1, <1>1, <1>2, SlabAssumption DEF Extent
    <3> QED BY <3>1, <1>1, <1>2, <1>12, Zenon DEF ExtInv
  <2>5. CondInv'
    BY <2>1, <1>1, <1>12 DEF CondInv
  <2>6. ScanInv'
    <3>1. scan' <= used'
      <4>1. used \in 0 .. NExtent
        BY Zenon DEF SlInv, TypeOK
      <4> QED BY <4>1, <1>1, <1>2
    <3> QED BY <3>1, <1>3, Zenon DEF ScanInv
  <2> QED BY <2>2, <2>3, <2>4, <2>5, <2>6, <1>3, <1>5, <1>6, <1>7, <1>9, Zenon DEF SlInv
<1> QED BY <1>1, <1>11, <1>12, Zenon

(* MetaHead::shutdown ends a close: what the marks say is now all there is. *)
LEMMA CloseDoneStep ==
    ASSUME SlInv, CloseDone
    PROVE  SlInv'
<1>1. /\ mode = "close" /\ mode' = "down" /\ consistent' = TRUE /\ known' = {} /\ th' = th
      /\ Cached = {} /\ rbin["normal"] = {} /\ NoRuns
      /\ ext' = ext /\ used' = used /\ bits' = bits /\ arena' = arena /\ tok' = tok
      /\ cond' = cond /\ rbin' = rbin /\ abin' = abin /\ alloc' = alloc /\ cache' = cache
      /\ half' = half /\ recs' = recs /\ scan' = scan
  BY Zenon DEF CloseDone, pool, bins
<1>2. /\ scan = 0 /\ known = tok /\ \A a \in Arena : abin[a]["normal"] = {}
      /\ \A t \in Thread : cache[t] = <<>> /\ th[t] = Idle
  <2>1. scan = 0 /\ known = tok /\ \A t \in Thread : th[t] = Idle
    BY <1>1, SlMode, SlThread DEF ModeInv, ThreadInv, ThreadOK
  <2>2. \A t \in Thread : cache[t] = <<>>
    BY <1>1, CacheEmpty, Zenon DEF SlInv, TypeOK
  <2>3. \A a \in Arena : abin[a]["normal"] = {}
    BY <1>1 DEF NoRuns, Bin
  <2> QED BY <2>1, <2>2, <2>3, Zenon
<1>3. Pending' = {} /\ PendOnce' /\ ThreadInv'
  BY <1>1, <1>2, AllIdle, Zenon
<1>4. Cached' = {} /\ CacheOnce'
  BY <1>1, <1>2, CacheEmptyNext, Zenon
<1>5. \A r : r \notin Live'
  BY <1>1, Zenon DEF Live
<1>6. TypeOK'
  BY <1>1, SlType, SMTT(30) DEF TypeOK
<1>7. ModeInv'
  BY <1>1, <1>2, Zenon DEF ModeInv
<1>8. BitsInv' /\ BinInv' /\ AccountInv'
  <2>1. BitsInv' /\ BinInv'
    BY <1>1, <1>2, Zenon DEF SlInv, BitsInv, BinInv
  <2> QED BY <2>1, <1>5, Zenon DEF AccountInv
<1>9. HandInv'
  BY <1>3, <1>4, Zenon DEF HandInv
<1>10. PlaceInv'
  <2>1. Out' = {}
    BY <1>1, <1>3, <1>4, Zenon DEF Out
  <2> QED BY <2>1, <1>1, <1>5, Zenon DEF SlInv, PlaceInv
<1>11. ExtInv'
  <2>1. \A e \in ext : Runs(e) \subseteq bits \/ e \in rbin["normal"] \/ e \in half
    BY <1>1, Zenon DEF SlInv, ExtInv
  <2> QED BY <2>1, <1>1, Zenon DEF ExtInv
<1>12. CondInv'
  <2>1. \A r \in bits \intersect cond : ExtOf(r) \in half /\ ~ Regions(r) \subseteq tok
    BY <1>1, Zenon DEF SlInv, CondInv
  <2>2. ASSUME NEW r \in bits \ cond, NEW x \in Regions(r) PROVE x \in tok
    <3>1. r \in Live
      BY <1>1 DEF Live
    <3>2. arena[r] \in Arena
      BY Zenon DEF SlInv, BitsInv
    <3>3. x \in Out
      BY <3>1, <3>2, <1>2, Zenon DEF SlInv, AccountInv
    <3>4. Pending = {}
      BY <1>1, NoPending, Zenon
    <3> QED BY <3>3, <3>4, <1>1, <1>2, ZenonT(30) DEF Out
  <2> QED BY <2>1, <2>2, <1>1 DEF CondInv
<1>13. ScanInv'
  BY <1>1 DEF ScanInv
<1> QED BY <1>3, <1>6, <1>7, <1>8, <1>9, <1>10, <1>11, <1>12, <1>13, Zenon DEF SlInv

(* A crash loses DRAM: what stays is that busy regions are in marked runs. *)
LEMMA CrashStep ==
    ASSUME SlInv, Crash
    PROVE  SlInv'
<1>1. /\ mode # "down" /\ mode' = "down" /\ consistent' = consistent /\ known' = {}
      /\ rbin' = [b \in Bin |-> {}] /\ abin' = [a \in Arena |-> [b \in Bin |-> {}]]
      /\ alloc' = [r \in Run |-> {}] /\ cache' = [t \in Thread |-> <<>>]
      /\ th' = [t \in Thread |-> Idle] /\ half' = {} /\ recs' = {} /\ scan' = 0
      /\ ext' = ext /\ used' = used /\ bits' = bits /\ arena' = arena /\ tok' = tok
  BY Zenon DEF Crash, pool
<1>2. cond' \subseteq Run
  BY Zenon DEF Crash
<1>3. /\ rbin'["normal"] = {} /\ rbin'["recover"] = {}
      /\ \A a \in Arena : abin'[a]["normal"] = {} /\ abin'[a]["recover"] = {}
      /\ \A t \in Thread : cache'[t] = <<>> /\ th'[t] = Idle
  BY <1>1 DEF Bin
<1>4. Pending' = {} /\ PendOnce' /\ ThreadInv'
  BY <1>3, AllIdle, Zenon
<1>5. Cached' = {} /\ CacheOnce'
  BY <1>3, CacheEmptyNext, Zenon
<1>6. \A r : r \notin Live'
  BY <1>1 DEF Live
<1>7. TypeOK'
  <2>1. rbin' \in [Bin -> SUBSET Extent] /\ abin' \in [Arena -> [Bin -> SUBSET Run]]
        /\ alloc' \in [Run -> SUBSET Region] /\ cache' \in [Thread -> Seq(Region)]
    BY <1>1
  <2>2. th' \in [Thread -> Local]
    BY <1>1, IdleLocal
  <2>3. scan' \in 0 .. NExtent
    BY <1>1, SlabAssumption
  <2>4. /\ mode' = "down" /\ known' = {} /\ half' = {} /\ recs' = {} /\ ext' = ext /\ used' = used
        /\ bits' = bits /\ arena' = arena /\ tok' = tok
    BY <1>1, Zenon
  <2>5. /\ ext' \subseteq Extent /\ used' \in 0 .. NExtent /\ bits' \subseteq Run
        /\ tok' \subseteq Region /\ arena' \in [Run -> Arena \union {None}]
    BY <2>4, Zenon DEF SlInv, TypeOK
  <2>6. known' \subseteq Region /\ half' \subseteq Extent
    BY <2>4, Zenon
  <2> QED BY <2>1, <2>2, <2>3, <2>4, <2>5, <2>6, <1>2, <1>3, Zenon DEF TypeOK
<1>8. ~ consistent'
  BY <1>1, Zenon DEF SlInv, ModeInv
<1>9. ModeInv'
  <2>1. mode' = "down" /\ known' = {} /\ scan' = 0
    BY <1>1, Zenon
  <2> QED BY <2>1, <1>3, <1>8 DEF ModeInv
<1>10. BitsInv' /\ BinInv' /\ AccountInv'
  <2>1. BitsInv'
    BY <1>1, Zenon DEF SlInv, BitsInv
  <2>2. BinInv'
    BY <1>3, Zenon DEF BinInv
  <2> QED BY <2>1, <2>2, <1>6, Zenon DEF AccountInv
<1>11. HandInv'
  BY <1>4, <1>5, Zenon DEF HandInv
<1>12. PlaceInv'
  <2>1. Out' = {}
    BY <1>1, <1>4, <1>5, ZenonT(30) DEF Out
  <2> QED BY <2>1, <1>1, <1>6, Zenon DEF SlInv, PlaceInv
<1>13. ExtInv' /\ CondInv' /\ ScanInv'
  BY <1>1, <1>8 DEF ExtInv, CondInv, ScanInv
<1> QED BY <1>4, <1>7, <1>9, <1>10, <1>11, <1>12, <1>13, Zenon DEF SlInv

(* The load of a null meta faults. *)
LEMMA NullMetaStep ==
    ASSUME SlInv, NEW t \in Thread, NullMeta(t)
    PROVE  SlInv'
<1>1. /\ th[t].pc = "fill" /\ mode' = "fault" /\ th' = [s \in Thread |-> Idle]
      /\ ext' = ext /\ used' = used /\ bits' = bits /\ arena' = arena /\ tok' = tok
      /\ cond' = cond /\ rbin' = rbin /\ abin' = abin /\ alloc' = alloc /\ cache' = cache
      /\ known' = known /\ half' = half /\ consistent' = consistent /\ recs' = recs /\ scan' = scan
  BY ZenonT(30) DEF NullMeta, OutOfSpace, Filling, pool, cnd, bins, rec
<1>2. mode = "open"
  <2>1. ThreadOK(t)
    BY Zenon DEF SlInv, ThreadInv
  <2> QED BY <2>1, <1>1, SMTT(30) DEF ThreadOK, Idle
<1>3. Live' = Live
  <2>1. ASSUME NEW r PROVE r \in Live' <=> r \in Live
    BY <1>1, <1>2, ZenonT(30) DEF Live
  <2> QED BY <2>1, Zenon
<1>4. Pending' = {} /\ PendOnce' /\ ThreadInv' /\ Pending = {}
  BY <1>1, <1>2, AllIdle, NoPending
<1>5. CacheOnce' /\ Cached' = Cached
  BY <1>1, CacheKept, Zenon
<1>6. Out' = Out
  BY <1>1, <1>4, <1>5, ZenonT(30) DEF Out
<1>7. TypeOK'
  <2>1. th' \in [Thread -> Local]
    BY <1>1, IdleLocal, Zenon
  <2> QED BY <2>1, <1>1, SlType, Zenon DEF TypeOK
<1>8. ~ consistent' /\ scan = 0 /\ half = {}
  BY <1>1, <1>2, SlMode, Zenon DEF ModeInv
<1>9. ModeInv'
  BY <1>1, <1>8, Zenon DEF ModeInv
<1>10. BitsInv' /\ BinInv' /\ AccountInv'
  BY <1>1, <1>3, <1>6, Zenon DEF SlInv, BitsInv, BinInv, AccountInv
<1>11. HandInv'
  BY <1>1, <1>4, <1>5, Zenon DEF SlInv, HandInv
<1>12. PlaceInv'
  <2>1. mode' # "recover"
    BY <1>1, ZenonT(30)
  <2> QED BY <2>1, <1>1, <1>3, <1>4, <1>6, ZenonT(30) DEF SlInv, PlaceInv
<1>13. ExtInv' /\ CondInv' /\ ScanInv'
  BY <1>1, <1>8 DEF ExtInv, CondInv, ScanInv
<1> QED BY <1>4, <1>7, <1>9, <1>10, <1>11, <1>12, <1>13, Zenon DEF SlInv

(* finish_recover: every extent has been visited, so the arenas account for *)
(* every marked run.                                                        *)
LEMMA RecoverDoneStep ==
    ASSUME SlInv, RecoverDone
    PROVE  SlInv'
<1>1. /\ mode = "recover" /\ mode' = "open" /\ \A t \in Thread : th[t].pc = "done"
      /\ rbin' = [normal |-> rbin["normal"] \union rbin["recover"], recover |-> {}]
      /\ abin' = [a \in Arena |-> [normal |-> abin[a]["normal"] \union abin[a]["recover"],
                                  recover |-> {}]]
      /\ recs' = {} /\ scan' = 0 /\ th' = [t \in Thread |-> Idle]
      /\ ext' = ext /\ used' = used /\ bits' = bits /\ arena' = arena /\ tok' = tok
      /\ cond' = cond /\ alloc' = alloc /\ cache' = cache
      /\ known' = known /\ half' = half /\ consistent' = consistent
  BY Zenon DEF RecoverDone, pool, cnd
<1>2. /\ rbin \in [Bin -> SUBSET Extent] /\ rbin["recover"] = {}
      /\ abin \in [Arena -> [Bin -> SUBSET Run]] /\ \A a \in Arena : abin[a]["recover"] = {}
  BY ZenonT(30) DEF SlInv, TypeOK
<1>3. rbin' \in [Bin -> SUBSET Extent] /\ rbin'["normal"] = rbin["normal"] /\ rbin'["recover"] = {}
  BY <1>1, <1>2, Zenon DEF Bin
<1>4. ASSUME NEW a \in Arena
      PROVE  /\ abin'[a] \in [Bin -> SUBSET Run]
             /\ abin'[a]["normal"] = abin[a]["normal"] /\ abin'[a]["recover"] = {}
  <2>1. abin'[a] = [normal |-> abin[a]["normal"] \union abin[a]["recover"], recover |-> {}]
    BY <1>1, Zenon
  <2>2. abin[a] \in [Bin -> SUBSET Run] /\ abin[a]["recover"] = {}
    BY <1>2, ZenonT(30)
  <2> QED BY <2>1, <2>2 DEF Bin
<1>5. abin' \in [Arena -> [Bin -> SUBSET Run]]
  BY <1>1, <1>4
<1>6. /\ \A t \in Thread : ~ Working(t) /\ th[t].regs = {}
      /\ Pending = {} /\ Pending' = {} /\ PendOnce' /\ ThreadInv'
  <2>1. ASSUME NEW t \in Thread PROVE ~ Working(t) /\ th[t].regs = {}
    <3>1. ThreadOK(t)
      BY Zenon DEF SlInv, ThreadInv
    <3> QED BY <3>1, <1>1 DEF ThreadOK, Working
  <2>2. Pending = {}
    BY <2>1, PendFact, Zenon
  <2>3. \A t \in Thread : th'[t] = Idle
    BY <1>1, Zenon
  <2> QED BY <2>1, <2>2, <2>3, AllIdle, ZenonT(30)
<1>7. scan = used /\ half = {} /\ ~ consistent
  <2>1. \E t \in Thread : th[t].pc = "done"
    BY <1>1, SlabAssumption, Zenon
  <2>2. scan = used
    BY <2>1, <1>1, ZenonT(30) DEF SlInv, ScanInv
  <2>3. half = {} /\ ~ consistent
    BY <1>1, SlMode DEF ModeInv
  <2> QED BY <2>2, <2>3, Zenon
<1>8. Live = bits /\ Live' = bits /\ bits \intersect cond = {}
  <2>1. ASSUME NEW r PROVE r \in Live <=> r \in bits
    <3>1. ASSUME r \in bits PROVE ExtOf(r) < scan /\ \A t \in Thread : ~ Ahead(t, r)
      BY <3>1, <1>6, <1>7, ZenonT(30) DEF Ahead, SlInv, BitsInv
    <3> QED BY <3>1, <1>1 DEF Live
  <2>2. bits \intersect cond = {}
    BY <2>1, <1>1, ZenonT(30) DEF SlInv, CondInv
  <2>3. mode' = "open" /\ bits' = bits /\ cond' = cond
    BY <1>1, Zenon
  <2>4. ASSUME NEW r PROVE r \in Live' <=> r \in bits
    BY <2>2, <2>3, SMTT(30) DEF Live
  <2> QED BY <2>1, <2>2, <2>4, ZenonT(30)
<1>9. CacheOnce' /\ Cached' = Cached
  BY <1>1, CacheKept, Zenon
<1>10. Out' = Out
  BY <1>1, <1>6, <1>9, Zenon DEF Out
<1>11. /\ mode = "recover" /\ mode' = "open" /\ recs' = {} /\ scan' = 0
       /\ ext' = ext /\ used' = used /\ bits' = bits /\ arena' = arena /\ tok' = tok
       /\ cond' = cond /\ alloc' = alloc /\ cache' = cache
       /\ known' = known /\ half' = half /\ consistent' = consistent
       /\ \A t \in Thread : th[t].pc = "done"
  BY <1>1, Zenon
<1>12. TypeOK'
  <2>1. th' \in [Thread -> Local]
    BY <1>1, IdleLocal, Zenon
  <2>2. scan' \in 0 .. NExtent
    BY <1>11, SlabAssumption, SMTT(30)
  <2>3. mode' \in {"open", "close", "fault", "down", "reboot", "recover"}
    BY <1>11, Zenon
  <2> QED BY <2>1, <2>2, <2>3, <1>3, <1>4, <1>5, <1>11, Zenon DEF SlInv, TypeOK
<1>13. ModeInv'
  BY <1>7, <1>11 DEF ModeInv
<1>14. BitsInv' /\ BinInv' /\ AccountInv'
  <2>1. BitsInv'
    BY <1>11, Zenon DEF SlInv, BitsInv
  <2>2. BinInv'
    BY <1>4, <1>8, <1>11, ZenonT(30) DEF SlInv, BinInv
  <2>3. AccountInv'
    <3>1. ASSUME NEW r \in Live', NEW x \in Regions(r)
          PROVE  x \in Out' <=> (r \in abin'[arena'[r]]["normal"] => x \in alloc'[r])
      <4>1. arena[r] \in Arena /\ r \in Live
        BY <1>8, Zenon DEF SlInv, BitsInv
      <4>2. abin'[arena'[r]]["normal"] = abin[arena[r]]["normal"]
        BY <4>1, <1>4, <1>11, Zenon
      <4> QED BY <4>1, <4>2, <1>10, <1>11, ZenonT(30) DEF SlInv, AccountInv
    <3> QED BY <3>1, Zenon DEF AccountInv
  <2> QED BY <2>1, <2>2, <2>3, Zenon
<1>15. HandInv'
  BY <1>6, <1>9, <1>11, ZenonT(30) DEF SlInv, HandInv
<1>16. PlaceInv'
  <2>1. mode' # "recover"
    BY <1>11, Zenon
  <2> QED BY <2>1, <1>6, <1>8, <1>10, <1>11, ZenonT(30) DEF SlInv, PlaceInv
<1>17. ExtInv'
  <2>1. \A e \in rbin["normal"] : ~ Runs(e) \subseteq bits
    BY <1>11, SlExt DEF ExtInv
  <2>2. ASSUME NEW e \in ext PROVE Runs(e) \subseteq bits \/ e \in rbin["normal"]
    <3>1. \/ Runs(e) \subseteq bits \/ e \in rbin["normal"] \/ scan <= e
          \/ \E t \in Thread : th[t].pc = "reload" /\ th[t].ext = e
      BY <1>11, ZenonT(30) DEF SlInv, ExtInv
    <3>2. e < used /\ e \in Nat /\ used \in Nat
      <4>1. ext \subseteq Extent /\ used \in 0 .. NExtent /\ e < used
        BY Zenon DEF SlInv, TypeOK, BitsInv
      <4> QED BY <4>1, SlabAssumption, SMTT(30) DEF Extent
    <3>3. ~ (scan <= e)
      BY <3>2, <1>7, SMTT(30)
    <3>4. \A t \in Thread : th[t].pc # "reload"
      BY <1>11, Zenon
    <3> QED BY <3>1, <3>3, <3>4, Zenon
  <2> QED BY <2>1, <2>2, <1>3, <1>7, <1>11, Zenon DEF ExtInv
<1>18. CondInv' /\ ScanInv'
  BY <1>7, <1>8, <1>11, SMTT(30) DEF CondInv, ScanInv
<1> QED BY <1>6, <1>12, <1>13, <1>14, <1>15, <1>16, <1>17, <1>18, ZenonT(30) DEF SlInv

-----------------------------------------------------------------------------
(* Steps on the bins. *)

(* The bin of one arena is replaced. *)
LEMMA ArenaBinSet ==
    ASSUME abin \in [Arena -> [Bin -> SUBSET Run]], NEW a \in Arena, NEW S \in SUBSET Run,
           abin' = [abin EXCEPT ![a]["normal"] = S]
    PROVE  /\ abin' \in [Arena -> [Bin -> SUBSET Run]] /\ abin'[a]["normal"] = S
           /\ \A c \in Arena : /\ abin'[c]["recover"] = abin[c]["recover"]
                               /\ c # a => abin'[c]["normal"] = abin[c]["normal"]
<1>1. abin[a] \in [Bin -> SUBSET Run] /\ "normal" \in Bin
  BY DEF Bin
<1> DEFINE v == [abin[a] EXCEPT !["normal"] = S]
<1>2. v \in [Bin -> SUBSET Run] /\ v["normal"] = S /\ v["recover"] = abin[a]["recover"]
  BY <1>1 DEF Bin
<1>3. abin' = [abin EXCEPT ![a] = v]
  OBVIOUS
<1> HIDE DEF v
<1>4. abin' \in [Arena -> [Bin -> SUBSET Run]] /\ abin'[a] = v /\ \A c \in Arena \ {a} : abin'[c] = abin[c]
  BY <1>2, <1>3, Zenon
<1> QED BY <1>2, <1>4, Zenon

(* The run bin is replaced. *)
LEMMA RunBinSet ==
    ASSUME rbin \in [Bin -> SUBSET Extent], NEW S \in SUBSET Extent,
           rbin' = [rbin EXCEPT !["normal"] = S]
    PROVE  /\ rbin' \in [Bin -> SUBSET Extent] /\ rbin'["normal"] = S
           /\ rbin'["recover"] = rbin["recover"]
  BY DEF Bin

(* The bitmap of one run is replaced. *)
LEMMA AllocSet ==
    ASSUME alloc \in [Run -> SUBSET Region], NEW r \in Run, NEW S \in SUBSET Region,
           alloc' = [alloc EXCEPT ![r] = S]
    PROVE  /\ alloc' \in [Run -> SUBSET Region] /\ alloc'[r] = S
           /\ \A s \in Run : s # r => alloc'[s] = alloc[s]
  BY Zenon

(* Busy regions of a live run are out. *)
LEMMA BusyOut ==
    ASSUME SlInv, NEW x \in tok, RunOf(x) \in Live
    PROVE  x \in Out
  BY Zenon DEF SlInv, PlaceInv, Out

(* One iteration of fill_cache_bin. *)
LEMMA FillCacheBinStep ==
    ASSUME SlInv, NEW t \in Thread, FillCacheBin(t)
    PROVE  SlInv'
<1> DEFINE a == ArenaOf[t]
<1>1. PICK r \in abin[a]["normal"] :
          LET got == LeastN(Regions(r) \ alloc[r], Stock - Len(cache[t]))
          IN  /\ FillRegions(r, a, "normal", got)
              /\ \E q \in Ascending(got) : cache' = [cache EXCEPT ![t] = @ \o q]
  BY Zenon DEF FillCacheBin
<1>2. /\ th[t].pc = "fill"
      /\ ext' = ext /\ used' = used /\ bits' = bits /\ arena' = arena /\ tok' = tok /\ th' = th
      /\ cond' = cond /\ rbin' = rbin /\ known' = known /\ mode' = mode
      /\ half' = half /\ consistent' = consistent /\ recs' = recs /\ scan' = scan
  BY Zenon DEF FillCacheBin, Filling, pool, cnd, rec
<1> DEFINE got  == LeastN(Regions(r) \ alloc[r], Stock - Len(cache[t]))
           full == alloc[r] \union got = Regions(r)
           A    == IF full THEN abin[a]["normal"] \ {r} ELSE abin[a]["normal"] \union {r}
           B    == IF full THEN {} ELSE alloc[r] \union got
<1>3. PICK q \in Ascending(got) : cache' = [cache EXCEPT ![t] = @ \o q]
  BY <1>1, Zenon
<1>4. abin' = [abin EXCEPT ![a]["normal"] = A] /\ alloc' = [alloc EXCEPT ![r] = B]
  BY <1>1, Zenon DEF FillRegions
<1>5. got \subseteq Regions(r) \ alloc[r]
  BY Zenon DEF LeastN
<1>6. a \in Arena
  BY SlabAssumption, Zenon
<1> HIDE DEF a, got
<1>7. mode = "open"
  <2>1. ThreadOK(t)
    BY Zenon DEF SlInv, ThreadInv
  <2> QED BY <2>1, <1>2 DEF ThreadOK, Idle
<1>8. /\ r \in Live /\ arena[r] = a /\ r \in Run /\ r \in bits
      /\ alloc[r] \subseteq Regions(r) /\ alloc[r] # Regions(r)
      /\ \A x \in Regions(r) : x \in Out <=> x \in alloc[r]
  <2>1. /\ r \in Live /\ arena[r] = a
        /\ alloc[r] \subseteq Regions(r) /\ alloc[r] # Regions(r)
    BY <1>1, <1>6, Zenon DEF SlInv, BinInv
  <2>2. r \in bits
    BY <2>1, Zenon DEF Live
  <2>3. r \in Run
    BY <2>2, ZenonT(30) DEF SlInv, TypeOK
  <2>4. \A x \in Regions(r) : x \in Out <=> x \in alloc[r]
    BY <2>1, <1>1, ZenonT(30) DEF SlInv, AccountInv
  <2> QED BY <2>1, <2>2, <2>3, <2>4, Zenon
<1>9. /\ abin' \in [Arena -> [Bin -> SUBSET Run]] /\ abin'[a]["normal"] = A
      /\ \A c \in Arena : /\ abin'[c]["recover"] = abin[c]["recover"]
                          /\ c # a => abin'[c]["normal"] = abin[c]["normal"]
  <2>1. abin \in [Arena -> [Bin -> SUBSET Run]] /\ "normal" \in Bin
    BY SlType, Zenon DEF TypeOK, Bin
  <2>2. A \in SUBSET Run
    BY <2>1, <1>6, <1>8, SMTT(30)
  <2> HIDE DEF A
  <2> QED BY <2>1, <2>2, <1>4, <1>6, ArenaBinSet, ZenonT(30)
<1>10. /\ alloc' \in [Run -> SUBSET Region] /\ alloc'[r] = B
       /\ \A s \in Run : s # r => alloc'[s] = alloc[s]
  <2>1. B \in SUBSET Region
    BY <1>5, <1>8, RegionFact, Zenon
  <2>2. alloc \in [Run -> SUBSET Region]
    BY Zenon DEF SlInv, TypeOK
  <2> HIDE DEF B
  <2> QED BY <2>1, <2>2, <1>4, <1>8, AllocSet, ZenonT(30)
<1>11. got \intersect Out = {} /\ got \intersect tok = {} /\ got \subseteq Region
  <2>1. ASSUME NEW x \in got PROVE x \notin Out /\ x \in Region /\ RunOf(x) \in Live
    BY <1>5, <1>8, RegionFact, ZenonT(30)
  <2> QED BY <2>1, BusyOut, Zenon
<1>12. cache' \in [Thread -> Seq(Region)] /\ CacheOnce' /\ Cached' = Cached \union got
  <2>1. cache \in [Thread -> Seq(Region)] /\ CacheOnce /\ got \in SUBSET Region
    BY <1>11, ZenonT(30) DEF SlInv, TypeOK, HandInv
  <2>2. got \intersect Cached = {}
    BY <1>11, Zenon DEF Out
  <2> QED BY <2>1, <2>2, <1>3, CacheFill, ZenonT(30)
<1>13. /\ Live' = Live /\ Pending' = Pending /\ ThreadInv' /\ ScanInv' /\ PendOnce'
  BY <1>2, ThreadsSame, Zenon
<1>14. Out' = Out \union got
  BY <1>2, <1>12, <1>13, Zenon DEF Out
<1>15. ASSUME NEW s, s # r, NEW c \in Arena PROVE s \in abin'[c]["normal"] <=> s \in abin[c]["normal"]
  <2>1. s \in A <=> s \in abin[a]["normal"]
    BY <1>15, Zenon
  <2> QED BY <2>1, <1>9, Zenon
<1>16. r \in abin'[a]["normal"] <=> ~ full
  BY <1>9, Zenon
<1> HIDE DEF A
<1>18. TypeOK'
  BY <1>2, <1>9, <1>10, <1>12, ZenonT(30) DEF SlInv, TypeOK
<1>19. BitsInv' /\ ExtInv'
  BY <1>2, ZenonT(30) DEF SlInv, BitsInv, ExtInv
<1>20. BinInv'
  <2>1. ASSUME NEW c \in Arena, NEW s \in abin'[c]["normal"]
        PROVE  s \in Live' /\ arena'[s] = c /\ alloc'[s] \subseteq Regions(s) /\ alloc'[s] # Regions(s)
    <3>1. CASE s # r
      <4>1. s \in abin[c]["normal"]
        BY <3>1, <2>1, <1>15, Zenon
      <4>2. s \in Live /\ arena[s] = c /\ alloc[s] \subseteq Regions(s) /\ alloc[s] # Regions(s)
        BY <4>1, ZenonT(30) DEF SlInv, BinInv
      <4>3. s \in Run
        BY <4>2, ZenonT(30) DEF Live, SlInv, TypeOK
      <4> QED BY <4>2, <4>3, <3>1, <1>2, <1>10, <1>13, ZenonT(30)
    <3>2. CASE s = r
      <4>1. c = a
        <5>1. ASSUME c # a PROVE FALSE
          <6>1. r \in abin[c]["normal"]
            BY <5>1, <3>2, <2>1, <1>9, Zenon
          <6> QED BY <6>1, <5>1, <1>8, ZenonT(30) DEF SlInv, BinInv
        <5> QED BY <5>1, Zenon
      <4>2. ~ full /\ alloc'[r] = alloc[r] \union got
        BY <4>1, <3>2, <2>1, <1>10, <1>16, Zenon
      <4>3. alloc'[r] \subseteq Regions(r) /\ alloc'[r] # Regions(r)
        BY <4>2, <1>5, <1>8, Zenon
      <4> QED BY <4>1, <4>3, <3>2, <1>2, <1>8, <1>13, ZenonT(30)
    <3> QED BY <3>1, <3>2, Zenon
  <2> QED BY <2>1, Zenon DEF BinInv
<1>21. AccountInv'
  <2>1. ASSUME NEW s \in Live', NEW x \in Regions(s)
        PROVE  x \in Out' <=> (s \in abin'[arena'[s]]["normal"] => x \in alloc'[s])
    <3>0. s \in Live /\ s \in bits /\ s \in Run /\ arena[s] \in Arena /\ RunOf(x) = s
      BY <1>13, RegionFact, ZenonT(30) DEF Live, SlInv, TypeOK, BitsInv
    <3>1. CASE s # r
      <4>1. x \notin got
        BY <3>0, <3>1, <1>5, RegionFact, ZenonT(30)
      <4>2. x \in Out <=> (s \in abin[arena[s]]["normal"] => x \in alloc[s])
        BY <3>0, Zenon DEF SlInv, AccountInv
      <4> QED BY <4>1, <4>2, <3>0, <3>1, <1>2, <1>10, <1>14, <1>15, ZenonT(30)
    <3>2. CASE s = r
      <4>1. x \in Out' <=> x \in alloc[r] \union got
        BY <3>2, <1>8, <1>14, Zenon
      <4>2. CASE full
        <5>1. x \in alloc[r] \union got
          BY <4>2, <3>2, Zenon
        <5>2. s \notin abin'[arena'[s]]["normal"]
          BY <4>2, <3>2, <1>2, <1>8, <1>16, ZenonT(30)
        <5> QED BY <5>1, <5>2, <4>1, Zenon
      <4>3. CASE ~ full
        <5>1. s \in abin'[arena'[s]]["normal"] /\ alloc'[s] = alloc[r] \union got
          BY <4>3, <3>2, <1>2, <1>8, <1>10, <1>16, ZenonT(30)
        <5> QED BY <5>1, <4>1, Zenon
      <4> QED BY <4>2, <4>3, Zenon
    <3> QED BY <3>1, <3>2, Zenon
  <2> QED BY <2>1, Zenon DEF AccountInv
<1>22. HandInv'
  <2>1. got \intersect (known \union tok) = {}
    BY <1>11, Zenon DEF Out
  <2>2. Cached' \intersect (known' \union tok') = {}
    BY <2>1, <1>2, <1>12, ZenonT(30) DEF SlInv, HandInv
  <2> QED BY <2>2, <1>2, <1>12, <1>13, ZenonT(30) DEF SlInv, HandInv
<1>23. PlaceInv'
  <2>1. \A x \in got : RunOf(x) \in bits /\ RunOf(x) \in Live
    BY <1>5, <1>8, RegionFact, ZenonT(30)
  <2> QED BY <2>1, <1>2, <1>13, <1>14, Zenon DEF SlInv, PlaceInv
<1>24. ModeInv' /\ CondInv'
  <2>1. half = {} /\ scan = 0 /\ ~ consistent
    BY <1>7, SlMode DEF ModeInv
  <2>2. bits \intersect cond = {}
    BY <1>7, Zenon DEF SlInv, CondInv
  <2> QED BY <2>1, <2>2, <1>2, <1>7, Zenon DEF ModeInv, CondInv
<1> QED BY <1>13, <1>18, <1>19, <1>20, <1>21, <1>22, <1>23, <1>24, ZenonT(30) DEF SlInv

(* srun_release puts the extent of r in the run bin, or gives it back when *)
(* no marked run is left in it.                                            *)
LEMMA RunReleaseFact ==
    ASSUME SlInv, NEW r \in bits, NEW rel \in BOOLEAN, RunRelease(r, "normal", rel)
    PROVE  /\ bits' = IF rel THEN bits \ {r} ELSE bits
           /\ rbin' \in [Bin -> SUBSET Extent] /\ rbin'["recover"] = {} /\ ext' \subseteq ext
           /\ \A f : f # ExtOf(r) => /\ f \in rbin'["normal"] <=> f \in rbin["normal"]
                                     /\ f \in ext' <=> f \in ext
           /\ ExtOf(r) \in rbin'["normal"] \/ ExtOf(r) \notin ext'
           /\ \A s \in bits' : ExtOf(s) \in ext' /\ (ExtOf(s) = ExtOf(r) => ExtOf(r) \in rbin'["normal"])
<1> DEFINE e    == ExtOf(r)
           left == IF rel THEN bits \ {r} ELSE bits
           held == rbin["normal"] \union {e}
           give == GivesExtent(e, left, held)
           S    == IF give THEN held \ {e} ELSE held
<1>1. bits' = left /\ rbin' = [rbin EXCEPT !["normal"] = S] /\ ext' = IF give THEN ext \ {e} ELSE ext
  BY Zenon DEF RunRelease, WithExtent
<1>2. give => Runs(e) \intersect left = {}
  BY Zenon DEF GivesExtent
<1>3. /\ ext \subseteq Extent /\ bits \subseteq Run /\ rbin \in [Bin -> SUBSET Extent]
      /\ rbin["recover"] = {} /\ \A s \in bits : ExtOf(s) \in ext
  BY Zenon DEF SlInv, TypeOK, BitsInv
<1> HIDE DEF give, e
<1>4. e \in Extent /\ e \in ext
  BY <1>3, Zenon DEF e
<1>5. S \in SUBSET Extent
  <2>1. rbin["normal"] \in SUBSET Extent
    BY <1>3 DEF Bin
  <2> QED BY <2>1, <1>4, Zenon
<1>6. S = IF give THEN rbin["normal"] \ {e} ELSE rbin["normal"] \union {e}
  BY Zenon
<1> HIDE DEF S
<1>7. rbin' \in [Bin -> SUBSET Extent] /\ rbin'["normal"] = S /\ rbin'["recover"] = rbin["recover"]
  BY <1>1, <1>3, <1>5, RunBinSet, Zenon
<1>71. /\ give => rbin'["normal"] = rbin["normal"] \ {e} /\ ext' = ext \ {e}
       /\ ~ give => rbin'["normal"] = rbin["normal"] \union {e} /\ ext' = ext
  <2>1. CASE give
    BY <2>1, <1>1, <1>6, <1>7, Zenon
  <2>2. CASE ~ give
    BY <2>2, <1>1, <1>6, <1>7, Zenon
  <2> QED BY <2>1, <2>2, Zenon
<1>8. left \subseteq bits
  BY Zenon
<1> HIDE DEF left
<1>9. ASSUME NEW s \in bits' PROVE ExtOf(s) \in ext' /\ (ExtOf(s) = e => e \in rbin'["normal"])
  <2>1. s \in left /\ s \in Run /\ ExtOf(s) \in ext
    BY <1>1, <1>3, <1>8, Zenon
  <2>2. give => ExtOf(s) # e
    BY <2>1, <1>2, RunFact, Zenon
  <2>3. CASE give
    BY <2>1, <2>2, <2>3, <1>1, Zenon
  <2>4. CASE ~ give
    BY <2>1, <2>4, <1>71, Zenon
  <2> QED BY <2>3, <2>4, Zenon
<1>10. ASSUME NEW f, f # e
       PROVE  /\ f \in rbin'["normal"] <=> f \in rbin["normal"]
              /\ f \in ext' <=> f \in ext
  <2>1. CASE give
    BY <2>1, <1>71, <1>10, Zenon
  <2>2. CASE ~ give
    BY <2>2, <1>71, <1>10, Zenon
  <2> QED BY <2>1, <2>2, Zenon
<1>11. e \in rbin'["normal"] \/ e \notin ext'
  <2>1. CASE give
    BY <2>1, <1>1, Zenon
  <2>2. CASE ~ give
    BY <2>2, <1>6, <1>7, Zenon
  <2> QED BY <2>1, <2>2, Zenon
<1>12. ext' \subseteq ext
  BY <1>1, Zenon
<1>13. bits' = IF rel THEN bits \ {r} ELSE bits
  BY <1>1 DEF left
<1> QED BY <1>3, <1>7, <1>9, <1>10, <1>11, <1>12, <1>13, ZenonT(30) DEF e

(* The extents of the run bin after a run is released. *)
LEMMA ExtReleased ==
    ASSUME SlInv, NEW r \in bits, NEW rel \in BOOLEAN, RunRelease(r, "normal", rel),
           mode' = mode, consistent' = consistent, half' = half, scan' = scan,
           mode \in {"open", "close", "recover"}, rel \/ mode = "close",
           \A t \in Thread : th[t].pc = "reload" => th'[t].pc = "reload" /\ th'[t].ext = th[t].ext
    PROVE  ExtInv'
<1>1. /\ bits' = IF rel THEN bits \ {r} ELSE bits
      /\ \A f : f # ExtOf(r) => /\ f \in rbin'["normal"] <=> f \in rbin["normal"]
                                /\ f \in ext' <=> f \in ext
      /\ ExtOf(r) \in rbin'["normal"] \/ ExtOf(r) \notin ext'
  BY RunReleaseFact, ZenonT(30)
<1>2. ~ consistent /\ mode # "reboot" /\ r \in Run
  BY SlMode, SlType DEF ModeInv, TypeOK
<1>3. ASSUME mode \in {"open", "reboot", "recover"}, NEW f \in rbin'["normal"]
      PROVE  ~ Runs(f) \subseteq bits'
  <2>1. rel
    BY <1>3
  <2>2. r \notin bits' /\ bits' \subseteq bits
    BY <2>1, <1>1, Zenon
  <2>3. CASE f = ExtOf(r)
    BY <2>2, <2>3, <1>2, RunFact, ZenonT(30)
  <2>4. CASE f # ExtOf(r)
    <3>1. f \in rbin["normal"]
      BY <2>4, <1>1, <1>3, Zenon
    <3>2. ~ Runs(f) \subseteq bits
      BY <3>1, <1>3, Zenon DEF SlInv, ExtInv
    <3> QED BY <3>2, <2>2, Zenon
  <2> QED BY <2>3, <2>4, Zenon
<1>4. ASSUME NEW f \in ext', f # ExtOf(r)
      PROVE  /\ f \in ext /\ (Runs(f) \subseteq bits => Runs(f) \subseteq bits')
             /\ f \in rbin["normal"] => f \in rbin'["normal"]
  <2>1. r \notin Runs(f)
    BY <1>4, RunFact, Zenon
  <2>2. bits \ {r} \subseteq bits'
    BY <1>1, Zenon
  <2> QED BY <2>1, <2>2, <1>1, <1>4, Zenon
<1>5. mode \in {"open", "close", "reboot"} =>
        \A f \in ext' : Runs(f) \subseteq bits' \/ f \in rbin'["normal"] \/ f \in half'
  BY <1>1, <1>4, ZenonT(30) DEF SlInv, ExtInv
<1>6. mode = "recover" =>
        \A f \in ext' : \/ Runs(f) \subseteq bits' \/ f \in rbin'["normal"] \/ scan' <= f
                        \/ \E t \in Thread : th'[t].pc = "reload" /\ th'[t].ext = f
  BY <1>1, <1>4, Zenon DEF SlInv, ExtInv
<1> QED BY <1>2, <1>3, <1>5, <1>6, Zenon DEF ExtInv

(* A region goes from a cache bin back to its run. *)
LEMMA ArenaReleaseStep ==
    ASSUME SlInv, NEW t \in Thread, cache[t] # <<>>, mode \in {"open", "close", "recover"},
           ArenaRelease(Head(cache[t]), "normal"), cache' = [cache EXCEPT ![t] = Tail(@)],
           tok' = tok, cond' = cond, known' = known, mode' = mode, half' = half,
           consistent' = consistent, recs' = recs, scan' = scan, th' \in [Thread -> Local], ThreadInv',
           \A u \in Thread : /\ th'[u].regs = th[u].regs /\ th'[u].ext = th[u].ext
                             /\ th'[u].rid = th[u].rid /\ (Working(u)' <=> Working(u))
                             /\ th[u].pc = "reload" => th'[u].pc = "reload"
                             /\ th'[u].pc = "done" => th[u].pc = "done"
    PROVE  SlInv'
<1> DEFINE x == Head(cache[t])
           r == RunOf(x)
           a == arena[r]
           P == AllocatedIn(r, "normal")
           give == GivesRun(P \ {x}, abin[a]["normal"] \union {r})
           A == IF give THEN (abin[a]["normal"] \union {r}) \ {r} ELSE abin[a]["normal"] \union {r}
<1>1. /\ abin' = [abin EXCEPT ![a]["normal"] = A] /\ alloc' = [alloc EXCEPT ![r] = P \ {x}]
      /\ used' = used /\ arena' = arena
      /\ give => RunRelease(r, "normal", TRUE)
      /\ ~ give => bits' = bits /\ rbin' = rbin /\ ext' = ext
  BY Zenon DEF ArenaRelease
<1>2. give => P \ {x} = {}
  BY Zenon DEF GivesRun
<1>3. /\ cache' \in [Thread -> Seq(Region)] /\ CacheOnce'
      /\ x \in Cached /\ x \in Region /\ Cached' = Cached \ {x}
  BY CachePop, Zenon DEF SlInv, TypeOK, HandInv
<1> HIDE DEF x
<1>4. x \in Out /\ x \notin known \union tok /\ r \in bits
  BY <1>3, ZenonT(30) DEF SlInv, HandInv, PlaceInv, Out
<1>5. bits \intersect cond = {} \/ mode = "recover"
  BY <1>3, Zenon DEF SlInv, CondInv
<1>6. r \in Live
  <2>1. mode = "recover" => r \in Live
    BY <1>4, ZenonT(30) DEF SlInv, PlaceInv
  <2>2. mode # "recover" => r \in Live
    BY <1>4, <1>5, Zenon DEF Live
  <2> QED BY <2>1, <2>2, Zenon
<1>7. r \in Run /\ a \in Arena /\ x \in Regions(r)
  BY <1>3, <1>4, RegionFact, ZenonT(30) DEF SlInv, TypeOK, BitsInv
<1>8. P \subseteq Regions(r) /\ \A y \in Regions(r) : y \in Out <=> y \in P
  <2>1. \A y \in Regions(r) : y \in Out <=> (r \in abin[a]["normal"] => y \in alloc[r])
    BY <1>6, Zenon DEF SlInv, AccountInv
  <2>2. CASE r \in abin[a]["normal"]
    <3>1. P = alloc[r] /\ alloc[r] \subseteq Regions(r)
      BY <2>2, <1>7, Zenon DEF AllocatedIn, SlInv, BinInv
    <3> QED BY <3>1, <2>1, <2>2, Zenon
  <2>3. CASE r \notin abin[a]["normal"]
    <3>1. P = Regions(r)
      BY <2>3, Zenon DEF AllocatedIn
    <3> QED BY <3>1, <2>1, <2>3, Zenon
  <2> QED BY <2>2, <2>3, Zenon
<1> HIDE DEF P, give
<1>9. /\ abin' \in [Arena -> [Bin -> SUBSET Run]] /\ abin'[a]["normal"] = A
      /\ \A c \in Arena : /\ abin'[c]["recover"] = abin[c]["recover"]
                          /\ c # a => abin'[c]["normal"] = abin[c]["normal"]
  <2>1. abin \in [Arena -> [Bin -> SUBSET Run]] /\ "normal" \in Bin
    BY SlType DEF TypeOK, Bin
  <2>2. abin[a]["normal"] \in SUBSET Run
    BY <2>1, <1>7, Zenon
  <2>3. A \in SUBSET Run
    BY <2>2, <1>7, ZenonT(30)
  <2> HIDE DEF A, a
  <2> QED BY <2>1, <2>3, <1>1, <1>7, ArenaBinSet, ZenonT(30)
<1>10. /\ alloc' \in [Run -> SUBSET Region] /\ alloc'[r] = P \ {x}
       /\ \A s \in Run : s # r => alloc'[s] = alloc[s]
  <2>1. P \ {x} \in SUBSET Region
    BY <1>8, RegionFact, Zenon
  <2>2. alloc \in [Run -> SUBSET Region]
    BY Zenon DEF SlInv, TypeOK
  <2> DEFINE B == P \ {x}
  <2>3. alloc' = [alloc EXCEPT ![r] = B] /\ B \in SUBSET Region
    BY <2>1, <1>1, Zenon
  <2> HIDE DEF B, r
  <2>4. alloc' \in [Run -> SUBSET Region] /\ alloc'[r] = B /\ \A s \in Run : s # r => alloc'[s] = alloc[s]
    BY <2>2, <2>3, <1>7, AllocSet, Zenon
  <2> QED BY <2>4 DEF B
<1>11. ASSUME NEW s, s # r, NEW c \in Arena PROVE s \in abin'[c]["normal"] <=> s \in abin[c]["normal"]
  <2>1. s \in A <=> s \in abin[a]["normal"]
    BY <1>11, Zenon
  <2> QED BY <2>1, <1>9, Zenon
<1>12. r \in abin'[a]["normal"] <=> ~ give
  BY <1>9, Zenon
<1> HIDE DEF A
<1>13. /\ bits' = IF give THEN bits \ {r} ELSE bits
       /\ rbin' \in [Bin -> SUBSET Extent] /\ rbin'["recover"] = {} /\ ext' \subseteq ext
       /\ \A s \in bits' : ExtOf(s) \in ext'
  <2>1. CASE give
    <3>1. RunRelease(r, "normal", TRUE) /\ TRUE \in BOOLEAN
      BY <2>1, <1>1, Zenon
    <3> HIDE DEF r
    <3>2. /\ bits' = IF TRUE THEN bits \ {r} ELSE bits
          /\ rbin' \in [Bin -> SUBSET Extent] /\ rbin'["recover"] = {} /\ ext' \subseteq ext
          /\ \A s \in bits' : ExtOf(s) \in ext'
      BY <3>1, <1>4, RunReleaseFact, Zenon
    <3> QED BY <3>2, <2>1, Zenon
  <2>2. CASE ~ give
    BY <2>2, <1>1, ZenonT(30) DEF SlInv, TypeOK, BitsInv
  <2> QED BY <2>1, <2>2, Zenon
<1>14. bits' \subseteq bits /\ \A s \in bits : s \notin bits' <=> (give /\ s = r)
  BY <1>13, Zenon
<1>15. \A s : s \in Live' <=> s \in Live /\ s \in bits'
  <2>1. \A u \in Thread, s \in bits : Ahead(u, s)' <=> Ahead(u, s)
    BY Zenon DEF Ahead
  <2>2. ASSUME NEW s PROVE s \in Live' <=> s \in Live /\ s \in bits'
    BY <2>1, <1>14, Zenon DEF Live
  <2> QED BY <2>2, Zenon
<1>16. Pending' = Pending /\ PendOnce'
  <2>0. \A u \in Thread : th'[u].regs = th[u].regs
    BY ZenonT(30)
  <2>1. ASSUME NEW y PROVE y \in Pending' <=> y \in Pending
    BY <2>0, PendFact
  <2>2. PendOnce'
    BY <2>0, ZenonT(30) DEF SlInv, HandInv, PendOnce
  <2> QED BY <2>1, <2>2, Zenon
<1>17. x \notin Pending /\ Out' = Out \ {x}
  <2>1. x \notin Pending
    BY <1>4, Zenon DEF SlInv, HandInv
  <2>2. ASSUME NEW y PROVE y \in Out' <=> y \in Out /\ y # x
    BY <2>1, <1>3, <1>4, <1>16, Zenon DEF Out
  <2> QED BY <2>1, <2>2, Zenon
<1>18. ASSUME give, NEW y \in Out \union tok, RunOf(y) = r PROVE y = x
  <2>1. y \in Out /\ y \in Region
    <3>1. y \in tok => y \in Out
      BY <1>6, <1>18, BusyOut, Zenon
    <3>2. y \in tok => y \in Region
      BY Zenon DEF SlInv, TypeOK
    <3>3. y \in Cached => y \in Region
      <4>1. ASSUME y \in Cached PROVE y \in Region
        <5>1. PICK u \in Thread : \E i \in DOMAIN cache[u] : cache[u][i] = y
          BY <4>1, CachedFact, Zenon
        <5>2. cache[u] \in Seq(Region)
          BY Zenon DEF SlInv, TypeOK
        <5> QED BY <5>1, <5>2
      <4> QED BY <4>1, ZenonT(30)
    <3>4. y \in Pending \union known => y \in Region
      BY Zenon DEF SlInv, TypeOK, HandInv
    <3> QED BY <3>1, <3>2, <3>3, <3>4, <1>18, Zenon DEF Out
  <2>2. y \in P
    BY <2>1, <1>8, <1>18, RegionFact, Zenon
  <2> QED BY <2>2, <1>2, <1>18, Zenon
<1>19. TypeOK'
  BY <1>1, <1>3, <1>9, <1>10, <1>13, <1>14, ZenonT(30) DEF SlInv, TypeOK
<1>20. ModeInv'
  BY SlMode DEF ModeInv
<1>21. BitsInv'
  BY <1>1, <1>13, <1>14, Zenon DEF SlInv, BitsInv
<1>22. BinInv'
  <2>1. ASSUME NEW c \in Arena, NEW s \in abin'[c]["normal"]
        PROVE  s \in Live' /\ arena'[s] = c /\ alloc'[s] \subseteq Regions(s) /\ alloc'[s] # Regions(s)
    <3>1. CASE s # r
      <4>1. s \in abin[c]["normal"]
        BY <3>1, <2>1, <1>11, Zenon
      <4>2. s \in Live /\ arena[s] = c /\ alloc[s] \subseteq Regions(s) /\ alloc[s] # Regions(s)
        BY <4>1, Zenon DEF SlInv, BinInv
      <4>3. s \in Run /\ s \in bits
        BY <4>2, ZenonT(30) DEF Live, SlInv, TypeOK
      <4> QED BY <4>2, <4>3, <3>1, <1>1, <1>10, <1>14, <1>15, Zenon
    <3>2. CASE s = r
      <4>1. c = a
        <5>1. ASSUME c # a PROVE FALSE
          <6>1. r \in abin[c]["normal"]
            BY <5>1, <3>2, <2>1, <1>9, Zenon
          <6> QED BY <6>1, <5>1, Zenon DEF SlInv, BinInv
        <5> QED BY <5>1, Zenon
      <4>2. ~ give
        BY <4>1, <3>2, <2>1, <1>12, Zenon
      <4>3. alloc'[r] \subseteq Regions(r) /\ alloc'[r] # Regions(r)
        BY <1>7, <1>8, <1>10, Zenon
      <4> QED BY <4>1, <4>2, <4>3, <3>2, <1>1, <1>4, <1>6, <1>14, <1>15, ZenonT(30)
    <3> QED BY <3>1, <3>2, Zenon
  <2> QED BY <2>1, Zenon DEF BinInv
<1>23. AccountInv'
  <2>1. ASSUME NEW s \in Live', NEW y \in Regions(s)
        PROVE  y \in Out' <=> (s \in abin'[arena'[s]]["normal"] => y \in alloc'[s])
    <3>0. s \in Live /\ s \in bits /\ s \in bits' /\ s \in Run /\ arena[s] \in Arena /\ RunOf(y) = s
      BY <1>14, <1>15, RegionFact, ZenonT(30) DEF SlInv, TypeOK, BitsInv
    <3>1. CASE s # r
      <4>1. y # x
        BY <3>0, <3>1, Zenon
      <4>2. y \in Out <=> (s \in abin[arena[s]]["normal"] => y \in alloc[s])
        BY <3>0, Zenon DEF SlInv, AccountInv
      <4> QED BY <4>1, <4>2, <3>0, <3>1, <1>1, <1>10, <1>11, <1>17, ZenonT(30)
    <3>2. CASE s = r
      <4>1. ~ give
        BY <3>0, <3>2, <1>14, Zenon
      <4>2. s \in abin'[arena'[s]]["normal"] /\ alloc'[s] = P \ {x}
        BY <4>1, <3>2, <1>1, <1>10, <1>12, Zenon
      <4>3. y \in Out <=> y \in P
        BY <3>2, <1>8, Zenon
      <4> QED BY <4>2, <4>3, <1>17, Zenon
    <3> QED BY <3>1, <3>2, Zenon
  <2> QED BY <2>1, Zenon DEF AccountInv
<1>24. HandInv'
  BY <1>3, <1>16, Zenon DEF SlInv, HandInv
<1>25. PlaceInv'
  <2>1. ASSUME NEW y \in Out' \union tok PROVE RunOf(y) \in bits'
    <3>1. RunOf(y) \in bits /\ y # x /\ y \in Out \union tok
      BY <1>4, <1>17, ZenonT(30) DEF SlInv, PlaceInv
    <3> QED BY <3>1, <1>14, <1>18, Zenon
  <2>2. \A y \in Out' : mode' = "recover" => RunOf(y) \in Live'
    BY <2>1, <1>15, <1>17, ZenonT(30) DEF SlInv, PlaceInv
  <2>3. \A y \in tok' : RunOf(y) \in Live' => y \in known' \union Pending'
    BY <1>15, <1>16, ZenonT(30) DEF SlInv, PlaceInv
  <2> QED BY <2>1, <2>2, <2>3, Zenon DEF PlaceInv
<1>26. ExtInv'
  <2>1. CASE give
    <3>1. RunRelease(r, "normal", TRUE) /\ TRUE \in BOOLEAN
      BY <2>1, <1>1, Zenon
    <3> HIDE DEF r
    <3>2. \A u \in Thread : th[u].pc = "reload" => th'[u].pc = "reload" /\ th'[u].ext = th[u].ext
      BY Zenon
    <3> QED BY <3>1, <3>2, <1>4, ExtReleased, ZenonT(30)
  <2>2. CASE ~ give
    <3>1. \A u \in Thread : th[u].pc = "reload" => th'[u].pc = "reload" /\ th'[u].ext = th[u].ext
      BY Zenon
    <3> QED BY <3>1, <2>2, <1>1, ExtKept, Zenon
  <2> QED BY <2>1, <2>2, Zenon
<1>27. CondInv'
  <2>1. mode = "recover" => Live' \intersect cond' = {}
    BY <1>15, Zenon DEF SlInv, CondInv
  <2>2. mode # "recover" => bits' \intersect cond' = {}
    BY <1>5, <1>14, ZenonT(30)
  <2>3. ~ consistent' /\ mode' # "reboot"
    BY Zenon DEF SlInv, ModeInv
  <2> QED BY <2>1, <2>2, <2>3, Zenon DEF CondInv
<1>28. ScanInv'
  BY <1>1, ScanSame, Zenon
<1> QED BY <1>19, <1>20, <1>21, <1>22, <1>23, <1>24, <1>25, <1>26, <1>27, <1>28, ZenonT(30) DEF SlInv

(* spill_front, in a release by the application or by the rebuild callback. *)
LEMMA SpillStep ==
    ASSUME SlInv, SpillInv, NEW t \in Thread, Spill(t)
    PROVE  SlInv'
<1>1. /\ th[t].pc = "spill" /\ ArenaRelease(Head(cache[t]), "normal")
      /\ cache' = [cache EXCEPT ![t] = Tail(@)] /\ tok' = tok /\ cond' = cond /\ known' = known
      /\ mode' = mode /\ half' = half /\ consistent' = consistent /\ recs' = recs /\ scan' = scan
      /\ th' = th \/ th' = [th EXCEPT ![t].pc = th[t].ret, ![t].ret = "idle"]
  BY Zenon DEF Spill, cnd, rec
<1>2. cache[t] # <<>>
  BY <1>1, Zenon DEF SpillInv
<1>3. ThreadOK(t) /\ mode \in {"open", "recover"}
  <2>1. ThreadOK(t)
    BY Zenon DEF SlInv, ThreadInv
  <2>2. th[t] # Idle
    BY <1>1 DEF Idle
  <2>3. mode \in {"open", "recover"}
    BY <2>1, <2>2, Zenon DEF ThreadOK
  <2> QED BY <2>1, <2>3, Zenon
<1>4. th[t].ret = IF mode = "open" THEN "idle" ELSE "rebuild"
  BY <1>1, <1>3 DEF ThreadOK
<1>5. /\ th' \in [Thread -> Local] /\ \A u \in Thread \ {t} : th'[u] = th[u]
      /\ th'[t].ext = th[t].ext /\ th'[t].rid = th[t].rid /\ th'[t].regs = th[t].regs
      /\ \/ th'[t].pc = th[t].pc /\ th'[t].ret = th[t].ret
         \/ th'[t].pc = th[t].ret /\ th'[t].ret = "idle"
  <2>1. th \in [Thread -> Local] /\ th[t] \in Local
    BY Zenon DEF SlInv, TypeOK
  <2>2. CASE th' = th
    BY <2>1, <2>2, Zenon
  <2>3. CASE th' = [th EXCEPT ![t].pc = th[t].ret, ![t].ret = "idle"]
    <3>1. /\ th'[t] = [th[t] EXCEPT !.pc = th[t].ret, !.ret = "idle"]
          /\ \A u \in Thread \ {t} : th'[u] = th[u]
      BY <2>1, <2>3, Zenon
    <3>2. PICK p : p = th[t].ret
      OBVIOUS
    <3>3. p \in {"idle", "rebuild"}
      BY <3>2, <2>1 DEF Local
    <3> DEFINE w == [th[t] EXCEPT !.pc = p]
    <3>4. w \in Local /\ w.pc = p /\ w.ext = th[t].ext /\ w.rid = th[t].rid /\ w.regs = th[t].regs
      BY <3>3, <2>1 DEF Local
    <3>5. th'[t] = [w EXCEPT !.ret = "idle"]
      BY <3>1, <3>2
    <3> HIDE DEF w
    <3>6. /\ th'[t] \in Local /\ th'[t].pc = w.pc /\ th'[t].ret = "idle" /\ th'[t].ext = w.ext
          /\ th'[t].rid = w.rid /\ th'[t].regs = w.regs
      BY <3>4, <3>5 DEF Local
    <3>7. th' \in [Thread -> Local]
      BY <2>1, <2>3, <3>1, <3>6
    <3> QED BY <3>1, <3>2, <3>4, <3>6, <3>7, Zenon
  <2> QED BY <1>1, <2>2, <2>3, Zenon
<1>6. ThreadInv'
  <2>1. ThreadOK(t)'
    BY <1>1, <1>3, <1>4, <1>5, Zenon DEF ThreadOK
  <2> QED BY <2>1, <1>1, <1>5, ThreadOne, ZenonT(30)
<1>7. ASSUME NEW u \in Thread
      PROVE  /\ th'[u].regs = th[u].regs /\ th'[u].ext = th[u].ext
             /\ th'[u].rid = th[u].rid /\ (Working(u)' <=> Working(u))
             /\ th[u].pc = "reload" => th'[u].pc = "reload"
             /\ th'[u].pc = "done" => th[u].pc = "done"
  <2>1. CASE u = t
    BY <2>1, <1>1, <1>4, <1>5 DEF Working
  <2>2. CASE u # t
    <3>1. th'[u] = th[u]
      BY <2>2, <1>5, Zenon
    <3> QED BY <3>1, Zenon DEF Working
  <2> QED BY <2>1, <2>2, Zenon
<1>8. mode \in {"open", "close", "recover"}
  BY <1>3
<1>9. th' \in [Thread -> Local]
  BY <1>5, Zenon
<1>10. /\ ArenaRelease(Head(cache[t]), "normal")
       /\ cache' = [cache EXCEPT ![t] = Tail(@)] /\ tok' = tok /\ cond' = cond /\ known' = known
       /\ mode' = mode /\ half' = half /\ consistent' = consistent /\ recs' = recs /\ scan' = scan
  BY <1>1, Zenon
<1> QED BY <1>2, <1>6, <1>7, <1>8, <1>9, <1>10, ArenaReleaseStep, Zenon

(* ~CacheBin returns a cached region. *)
LEMMA CloseCacheStep ==
    ASSUME SlInv, NEW t \in Thread, CloseCache(t)
    PROVE  SlInv'
<1>1. /\ mode = "close" /\ cache[t] # <<>> /\ ArenaRelease(Head(cache[t]), "normal")
      /\ cache' = [cache EXCEPT ![t] = Tail(@)] /\ tok' = tok /\ cond' = cond /\ known' = known
      /\ mode' = mode /\ half' = half /\ consistent' = consistent /\ recs' = recs /\ scan' = scan
      /\ th' = th
  BY Zenon DEF CloseCache, cnd, rec
<1>2. ThreadInv' /\ th' \in [Thread -> Local]
  BY <1>1, ZenonT(30) DEF SlInv, ThreadInv, ThreadOK, TypeOK
<1>3. ASSUME NEW u \in Thread
      PROVE  /\ th'[u].regs = th[u].regs /\ th'[u].ext = th[u].ext
             /\ th'[u].rid = th[u].rid /\ (Working(u)' <=> Working(u))
             /\ th[u].pc = "reload" => th'[u].pc = "reload"
             /\ th'[u].pc = "done" => th[u].pc = "done"
  BY <1>1, Zenon DEF Working
<1>4. mode \in {"open", "close", "recover"}
  BY <1>1
<1> QED BY <1>1, <1>2, <1>3, <1>4, ArenaReleaseStep, Zenon

(* ~ArenaBin: a free run is released, a half-used one marked kPolluted. *)
LEMMA CloseArenaStep ==
    ASSUME SlInv, NEW a \in Arena, NEW r \in Run, CloseArena(a, r)
    PROVE  SlInv'
<1> DEFINE rel == alloc[r] = {}
           A   == abin[a]["normal"] \ {r}
<1>1. /\ mode = "close" /\ Cached = {} /\ r \in abin[a]["normal"] /\ RunRelease(r, "normal", rel)
      /\ cond' = IF rel THEN cond ELSE cond \union {r}
      /\ abin' = [abin EXCEPT ![a]["normal"] = A] /\ alloc' = [alloc EXCEPT ![r] = {}]
      /\ used' = used /\ arena' = arena /\ tok' = tok /\ cache' = cache /\ known' = known
      /\ mode' = mode /\ half' = half /\ consistent' = consistent /\ recs' = recs /\ scan' = scan
      /\ th' = th
  BY Zenon DEF CloseArena, rec
<1>2. rel \in BOOLEAN
  BY Zenon
<1>3. /\ r \in Live /\ r \in bits /\ r \notin cond /\ arena[r] = a
      /\ alloc[r] \subseteq Regions(r) /\ alloc[r] # Regions(r)
      /\ \A x \in Regions(r) : x \in Out <=> x \in alloc[r]
  <2>1. /\ r \in Live /\ arena[r] = a
        /\ alloc[r] \subseteq Regions(r) /\ alloc[r] # Regions(r)
    BY <1>1, Zenon DEF SlInv, BinInv
  <2>2. r \in bits /\ r \notin cond
    BY <2>1, <1>1 DEF Live
  <2>3. \A x \in Regions(r) : x \in Out <=> x \in alloc[r]
    BY <2>1, <1>1, Zenon DEF SlInv, AccountInv
  <2> QED BY <2>1, <2>2, <2>3, Zenon
<1>4. known = tok /\ Pending = {} /\ Out = tok /\ tok \subseteq Region
  <2>1. known = tok
    BY <1>1, SlMode, Zenon DEF ModeInv
  <2>2. Pending = {}
    BY <1>1, NoPending
  <2> QED BY <2>1, <2>2, <1>1, ZenonT(30) DEF Out, SlInv, TypeOK
<1>41. rel => \A x \in tok : RunOf(x) # r
  BY <1>3, <1>4, RegionFact, Zenon
<1>42. ~ Regions(r) \subseteq tok
  BY <1>3, <1>4, Zenon
<1> HIDE DEF rel, A
<1>5. /\ bits' = IF rel THEN bits \ {r} ELSE bits
      /\ rbin' \in [Bin -> SUBSET Extent] /\ rbin'["recover"] = {} /\ ext' \subseteq ext
      /\ \A f : f # ExtOf(r) => /\ f \in rbin'["normal"] <=> f \in rbin["normal"]
                                /\ f \in ext' <=> f \in ext
      /\ \A s \in bits' : ExtOf(s) \in ext' /\ (ExtOf(s) = ExtOf(r) => ExtOf(r) \in rbin'["normal"])
  BY <1>1, <1>2, <1>3, RunReleaseFact, ZenonT(30)
<1>6. ExtInv'
  <2>1. mode \in {"open", "close", "recover"}
    BY <1>1
  <2>2. \A t \in Thread : th[t].pc = "reload" => th'[t].pc = "reload" /\ th'[t].ext = th[t].ext
    BY <1>1, Zenon
  <2> QED BY <2>1, <2>2, <1>1, <1>2, <1>3, ExtReleased, Zenon
<1>7. /\ abin' \in [Arena -> [Bin -> SUBSET Run]] /\ abin'[a]["normal"] = A
      /\ \A c \in Arena : /\ abin'[c]["recover"] = abin[c]["recover"]
                          /\ c # a => abin'[c]["normal"] = abin[c]["normal"]
  <2>1. abin \in [Arena -> [Bin -> SUBSET Run]] /\ "normal" \in Bin
    BY SlType DEF TypeOK, Bin
  <2>2. A \in SUBSET Run
    BY <2>1, Zenon DEF A
  <2> QED BY <2>1, <2>2, <1>1, ArenaBinSet, ZenonT(30)
<1>8. alloc' \in [Run -> SUBSET Region] /\ \A s \in Run : s # r => alloc'[s] = alloc[s]
  <2>1. alloc \in [Run -> SUBSET Region] /\ {} \in SUBSET Region
    BY Zenon DEF SlInv, TypeOK
  <2> QED BY <2>1, <1>1, AllocSet, ZenonT(30)
<1>9. ASSUME NEW s, s # r, NEW c \in Arena PROVE s \in abin'[c]["normal"] <=> s \in abin[c]["normal"]
  BY <1>7, <1>9, Zenon DEF A
<1>10. \A s : s \in Live' <=> s \in Live /\ s # r
  <2>1. mode' # "recover" /\ mode # "recover" /\ mode # "down" /\ mode' # "down"
    BY <1>1
  <2>2. ASSUME NEW s PROVE s \in Live' <=> s \in Live /\ s # r
    <3>1. CASE rel
      BY <3>1, <2>1, <1>1, <1>5, Zenon DEF Live
    <3>2. CASE ~ rel
      BY <3>2, <2>1, <1>1, <1>5, Zenon DEF Live
    <3> QED BY <3>1, <3>2, Zenon
  <2> QED BY <2>2, Zenon
<1>11. ThreadInv' /\ Pending' = {} /\ PendOnce'
  <2>1. \A t \in Thread : th'[t] = Idle
    BY <1>1, SlThread DEF ThreadInv, ThreadOK
  <2> QED BY <2>1, AllIdle, ZenonT(30)
<1>12. CacheOnce' /\ Cached' = {}
  BY <1>1, CacheKept, Zenon
<1>13. Out' = Out
  BY <1>1, <1>4, <1>11, <1>12, Zenon DEF Out
<1>14. bits' \subseteq bits /\ cond' \subseteq Run
  BY <1>1, <1>5, ZenonT(30) DEF SlInv, TypeOK
<1>15. TypeOK'
  BY <1>1, <1>5, <1>7, <1>8, <1>14, ZenonT(30) DEF SlInv, TypeOK
<1>16. ModeInv'
  BY <1>1, SlMode, SMTT(30) DEF ModeInv
<1>17. BitsInv'
  BY <1>1, <1>5, <1>14, Zenon DEF SlInv, BitsInv
<1>18. BinInv'
  <2>1. ASSUME NEW c \in Arena, NEW s \in abin'[c]["normal"]
        PROVE  s \in Live' /\ arena'[s] = c /\ alloc'[s] \subseteq Regions(s) /\ alloc'[s] # Regions(s)
    <3>1. s # r
      <4>1. ASSUME s = r PROVE FALSE
        <5>1. c # a
          BY <4>1, <2>1, <1>7, Zenon DEF A
        <5>2. r \in abin[c]["normal"]
          BY <5>1, <4>1, <2>1, <1>7, Zenon
        <5> QED BY <5>1, <5>2, <1>3, ZenonT(30) DEF SlInv, BinInv
      <4> QED BY <4>1, Zenon
    <3>2. s \in abin[c]["normal"]
      BY <3>1, <2>1, <1>9, Zenon
    <3>3. s \in Live /\ arena[s] = c /\ alloc[s] \subseteq Regions(s) /\ alloc[s] # Regions(s)
      BY <3>2, Zenon DEF SlInv, BinInv
    <3>4. s \in Run
      BY <3>3, Zenon DEF Live, SlInv, TypeOK
    <3> QED BY <3>1, <3>3, <3>4, <1>1, <1>8, <1>10, ZenonT(30)
  <2> QED BY <2>1, Zenon DEF BinInv
<1>19. AccountInv'
  <2>1. ASSUME NEW s \in Live', NEW y \in Regions(s)
        PROVE  y \in Out' <=> (s \in abin'[arena'[s]]["normal"] => y \in alloc'[s])
    <3>1. s \in Live /\ s # r
      BY <1>10, Zenon
    <3>2. s \in Run /\ arena[s] \in Arena
      BY <3>1, ZenonT(30) DEF Live, SlInv, TypeOK, BitsInv
    <3>3. y \in Out <=> (s \in abin[arena[s]]["normal"] => y \in alloc[s])
      BY <3>1, Zenon DEF SlInv, AccountInv
    <3> QED BY <3>1, <3>2, <3>3, <1>1, <1>8, <1>9, <1>13, ZenonT(30)
  <2> QED BY <2>1, Zenon DEF AccountInv
<1>20. HandInv'
  BY <1>11, <1>12, Zenon DEF HandInv
<1>21. PlaceInv'
  <2>1. ASSUME NEW y \in tok PROVE RunOf(y) \in bits'
    <3>1. RunOf(y) \in bits
      BY Zenon DEF SlInv, PlaceInv
    <3>2. CASE rel
      BY <3>1, <3>2, <1>41, <1>5, Zenon
    <3>3. CASE ~ rel
      BY <3>1, <3>3, <1>5, Zenon
    <3> QED BY <3>2, <3>3, Zenon
  <2>2. mode' # "recover"
    BY <1>1, Zenon
  <2> QED BY <2>1, <2>2, <1>1, <1>4, <1>13, Zenon DEF PlaceInv
<1>22. CondInv'
  <2>1. ASSUME NEW s \in bits' \intersect cond'
        PROVE  ExtOf(s) \in half' \/ ExtOf(s) \in rbin'["normal"]
    <3>1. CASE ExtOf(s) = ExtOf(r)
      BY <3>1, <1>5, Zenon
    <3>2. CASE ExtOf(s) # ExtOf(r)
      <4>1. s \in bits \intersect cond
        BY <3>2, <1>1, <1>14, Zenon
      <4>2. ExtOf(s) \in half \/ ExtOf(s) \in rbin["normal"]
        BY <4>1, <1>1, ZenonT(30) DEF SlInv, CondInv
      <4> QED BY <4>2, <3>2, <1>1, <1>5, Zenon
    <3> QED BY <3>1, <3>2, Zenon
  <2>2. ASSUME NEW s \in bits' \intersect cond' PROVE ~ Regions(s) \subseteq tok'
    <3>1. CASE s = r
      BY <3>1, <1>1, <1>42, Zenon
    <3>2. CASE s # r
      <4>1. s \in bits \intersect cond
        BY <3>2, <1>1, <1>14, ZenonT(30)
      <4> QED BY <4>1, <1>1, ZenonT(30) DEF SlInv, CondInv
    <3> QED BY <3>1, <3>2, Zenon
  <2>3. ~ consistent'
    BY <1>1, SlMode, Zenon DEF ModeInv
  <2> QED BY <2>1, <2>2, <2>3, <1>1, <1>12, SMTT(30) DEF CondInv
<1>23. ScanInv'
  BY <1>1 DEF ScanInv
<1> QED BY <1>6, <1>11, <1>15, <1>16, <1>17, <1>18, <1>19, <1>20, <1>21, <1>22, <1>23, ZenonT(30) DEF SlInv

(* ~RunBin: an extent with a used run is recorded, an unused one released. *)
LEMMA CloseRunStep ==
    ASSUME SlInv, NEW e \in Extent, CloseRun(e)
    PROVE  SlInv'
<1>1. /\ mode = "close" /\ Cached = {} /\ e \in rbin["normal"]
      /\ \/ Runs(e) \intersect bits # {} /\ half' = half \union {e} /\ ext' = ext
         \/ Runs(e) \intersect bits = {} /\ half' = half /\ ext' = ext \ {e}
      /\ rbin' = [rbin EXCEPT !["normal"] = @ \ {e}]
      /\ used' = used /\ bits' = bits /\ arena' = arena /\ tok' = tok /\ cond' = cond
      /\ abin' = abin /\ alloc' = alloc /\ cache' = cache /\ known' = known
      /\ mode' = mode /\ consistent' = consistent /\ recs' = recs /\ scan' = scan
      /\ th' = th
  BY Zenon DEF CloseRun, cnd
<1>2. /\ rbin' \in [Bin -> SUBSET Extent] /\ rbin'["normal"] = rbin["normal"] \ {e}
      /\ rbin'["recover"] = {}
  <2> DEFINE S == rbin["normal"] \ {e}
  <2>1. rbin \in [Bin -> SUBSET Extent] /\ rbin["recover"] = {} /\ "normal" \in Bin
    BY SlType DEF TypeOK, Bin
  <2>2. S \in SUBSET Extent /\ rbin' = [rbin EXCEPT !["normal"] = S]
    BY <2>1, <1>1, Zenon
  <2> HIDE DEF S
  <2>3. rbin' \in [Bin -> SUBSET Extent] /\ rbin'["normal"] = S /\ rbin'["recover"] = rbin["recover"]
    BY <2>1, <2>2, RunBinSet, Zenon
  <2> QED BY <2>1, <2>3, Zenon DEF S
<1>3. \A r \in bits : ExtOf(r) \in ext' /\ (ExtOf(r) = e => e \in half')
  <2>1. ASSUME NEW r \in bits PROVE ExtOf(r) \in ext' /\ (ExtOf(r) = e => e \in half')
    <3>1. r \in Run /\ ExtOf(r) \in ext
      BY Zenon DEF SlInv, TypeOK, BitsInv
    <3>2. Runs(e) \intersect bits = {} => ExtOf(r) # e
      BY <3>1, RunFact, Zenon
    <3> QED BY <3>1, <3>2, <1>1, Zenon
  <2> QED BY <2>1, Zenon
<1>4. /\ Live' = Live /\ Pending' = Pending /\ ThreadInv' /\ ScanInv' /\ PendOnce'
  BY <1>1, ThreadsSame, Zenon
<1>5. CacheOnce' /\ Cached' = Cached
  BY <1>1, CacheKept, Zenon
<1>6. Out' = Out
  BY <1>1, <1>4, <1>5, Zenon DEF Out
<1>7. ext' \subseteq ext /\ half' \subseteq Extent /\ half \subseteq half'
  BY <1>1, Zenon DEF SlInv, TypeOK
<1>71. /\ mode = "close" /\ Cached = {} /\ used' = used /\ bits' = bits /\ arena' = arena
       /\ tok' = tok /\ cond' = cond /\ abin' = abin /\ alloc' = alloc /\ cache' = cache
       /\ known' = known /\ mode' = mode /\ consistent' = consistent /\ recs' = recs /\ scan' = scan
       /\ th' = th
  BY <1>1, Zenon
<1>8. TypeOK'
  BY <1>2, <1>7, <1>71, ZenonT(30) DEF SlInv, TypeOK
<1>9. ModeInv'
  BY <1>71, SlMode DEF ModeInv
<1>10. BitsInv' /\ BinInv' /\ AccountInv'
  <2>1. BitsInv'
    BY <1>3, <1>7, <1>71, Zenon DEF SlInv, BitsInv
  <2> QED BY <2>1, <1>4, <1>6, <1>71, ZenonT(30) DEF SlInv, BinInv, AccountInv
<1>11. HandInv'
  BY <1>4, <1>5, <1>71, Zenon DEF SlInv, HandInv
<1>12. PlaceInv'
  BY <1>4, <1>6, <1>71, ZenonT(30) DEF SlInv, PlaceInv
<1>13. ExtInv'
  <2>1. ASSUME NEW f \in ext' PROVE Runs(f) \subseteq bits \/ f \in rbin'["normal"] \/ f \in half'
    <3>1. Runs(f) \subseteq bits \/ f \in rbin["normal"] \/ f \in half
      BY <1>1, <1>7, ZenonT(30) DEF SlInv, ExtInv
    <3>2. CASE f = e
      BY <3>2, <1>1, Zenon
    <3>3. CASE f # e
      BY <3>1, <3>3, <1>2, <1>7, Zenon
    <3> QED BY <3>2, <3>3, Zenon
  <2>2. mode' = "close" /\ bits' = bits
    BY <1>71, ZenonT(30)
  <2> QED BY <2>1, <2>2 DEF ExtInv
<1>14. CondInv'
  <2>1. ASSUME NEW r \in bits \intersect cond
        PROVE  (ExtOf(r) \in half' \/ ExtOf(r) \in rbin'["normal"]) /\ ~ Regions(r) \subseteq tok
    <3>1. (ExtOf(r) \in half \/ ExtOf(r) \in rbin["normal"]) /\ ~ Regions(r) \subseteq tok
      BY <1>71, ZenonT(30) DEF SlInv, CondInv
    <3> QED BY <3>1, <1>2, <1>3, <1>7, Zenon
  <2>2. ~ consistent'
    BY <1>71, SlMode DEF ModeInv
  <2> QED BY <2>1, <2>2, <1>5, <1>71, SMTT(30) DEF CondInv
<1> QED BY <1>4, <1>8, <1>9, <1>10, <1>11, <1>12, <1>13, <1>14, ZenonT(30) DEF SlInv
=============================================================================
