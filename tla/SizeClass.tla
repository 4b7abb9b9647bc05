----------------------------- MODULE SizeClass -----------------------------
(***************************************************************************)
(* From the size of a request to a region, and from its address back to its *)
(* token: SizeClass (slab/size.h), the tables of slab/const.h, the counts of *)
(* regions in a run (RunBin, slab/run.h), the layout of runs and extents    *)
(* (slab/arena.h, slab/desc.h) and the address arithmetic of release        *)
(* (slab/tcache.h).  A behaviour is one request: its class, the loop that   *)
(* counts the regions of a run, and then any region of any run.             *)
(***************************************************************************)
EXTENDS Integers

CONSTANT Sizes  \* of the requests

ASSUME SizesAssumption == Sizes \subseteq Nat

\* slab/const.h.
kPageSize     == 4096
kExtentSize   == 2^22
kSmallRunBase == 4 * kPageSize
kQuantumSize  == 2^5
kMinGapSize   == 2^7
kMinGapShift  == 7
kMaxSmallSize  == 2^11
kMaxMediumSize == 2^16
kMaxLargeSize  == 2^22
kMaxLookupSize == kPageSize
kNSlabsPerGrp  == 4
kNSlabsCached  == 40
kRunSizeTab == [i \in 0 .. 5 |-> kSmallRunBase * 2^i]
kCBin2RBin  == [g \in 0 .. 9 |-> <<0, 0, 1, 1, 2, 3, 3, 4, 4, 5>>[g + 1]]

SmallMetaSize == 24  \* sizeof(SmallMeta): 17 bytes, aligned on its pptr64_t
MediumTokens  == 51  \* tokens_ of a MediumMeta
LargeTokens   == 32  \* large_ of an ExtentDesc
SmallRunBits  == 256 \* bits of small_
MediumRunBytes == 32 \* bytes of medium_
-----------------------------------------------------------------------------
(* SizeClass. *)

\* The position of the most significant bit of n > 0.
IndexMost1(n) == CHOOSE m \in 0 .. 22 : 2^m <= n /\ n < 2 * 2^m

\* Mutant of the next definition: it looks at the size, not at size - 1.
Size2IndexOfNext(size) ==
    IF size < kMinGapSize THEN size \div kQuantumSize
    ELSE LET most == IndexMost1(size)
             gap  == 2^most
         IN  (most - kMinGapShift + 1) * kNSlabsPerGrp
               + ((size - gap) \div (gap \div kNSlabsPerGrp))

size2index_compute(size) ==
    IF size <= kMinGapSize THEN (size - 1) \div kQuantumSize
    ELSE LET most == IndexMost1(size - 1)
             gap  == 2^most
         IN  (most - kMinGapShift + 1) * kNSlabsPerGrp
               + ((size - gap - 1) \div (gap \div kNSlabsPerGrp))

index2size_compute(idx) ==
    IF idx < kNSlabsPerGrp THEN (idx + 1) * kQuantumSize
    ELSE LET gap == kMinGapSize * 2^((idx \div kNSlabsPerGrp) - 1)
         IN  gap + (gap \div kNSlabsPerGrp) * ((idx % kNSlabsPerGrp) + 1)

\* The tables that the constructor fills.
sz2idx_tab == [i \in 0 .. (kMaxLookupSize \div kQuantumSize) - 1 |->
                  size2index_compute((i + 1) * kQuantumSize - 1)]
idx2sz_tab == [i \in 0 .. kNSlabsCached - 1 |-> index2size_compute(i) \div kQuantumSize]

size2index(size) == IF size > kMaxLookupSize THEN size2index_compute(size)
                    ELSE sz2idx_tab[(size - 1) \div kQuantumSize]
index2size(idx) == idx2sz_tab[idx] * kQuantumSize
-----------------------------------------------------------------------------
(* One request. *)

VARIABLES size,   \* of the request
          pc,     \* "acquire", then "count", then "done"; or "null"
          type,   \* RegionType
          index,  \* of its size class, or of its LargeBin
          count   \* of regions in a run or in a large extent
vars == <<size, pc, type, index, count>>

\* The size of its regions, and of its runs.
RegionSize == IF type = "kLarge" THEN kMaxMediumSize * 2^(index + 1) ELSE index2size(index)
RunSize    == IF type = "kLarge" THEN kExtentSize
              ELSE kRunSizeTab[kCBin2RBin[index \div kNSlabsPerGrp]]
NRuns == kExtentSize \div RunSize

Init ==
    /\ size \in Sizes /\ pc = "acquire"
    /\ type = "kInvalid" /\ index = 0 /\ count = 0

\* acquire of nothing, or of more than an extent.
AcquireNull ==
    /\ pc = "acquire" /\ (size = 0 \/ size > kMaxLargeSize)
    /\ pc' = "null"
    /\ UNCHANGED <<size, type, index, count>>

\* acquire of a small or medium region: the bin of its class.
AcquireCached ==
    /\ pc = "acquire" /\ 0 < size /\ size <= kMaxMediumSize
    /\ index' = size2index(size)
    /\ type' = IF index' <= size2index_compute(kMaxSmallSize) THEN "kSmall" ELSE "kMedium"
    /\ count' = RunSize' \div RegionSize' /\ pc' = "count"
    /\ UNCHANGED size

\* large_acquire: the LargeBin, and the count in construct of its extents.
AcquireLarge ==
    /\ pc = "acquire" /\ kMaxMediumSize < size /\ size <= kMaxLargeSize
    /\ type' = "kLarge" /\ index' = IndexMost1((size - 1) \div kMaxMediumSize)
    /\ count' = kExtentSize \div RegionSize' /\ pc' = "done"
    /\ UNCHANGED size

\* Mutant of SmallCount: it goes on until nothing is left over.
SmallCountExact ==
    LET meta == SmallMetaSize + count  total == count * RegionSize + meta IN
    /\ pc = "count" /\ type = "kSmall"
    /\ IF total = RunSize
       THEN pc' = "done" /\ UNCHANGED count
       ELSE count' = (RunSize - meta) \div RegionSize /\ UNCHANGED pc
    /\ UNCHANGED <<size, type, index>>

\* A turn of the loop of small_region_count: the regions share the run with its
\* SmallMeta and a token of one byte each.
SmallCount ==
    LET meta == SmallMetaSize + count  total == count * RegionSize + meta IN
    /\ pc = "count" /\ type = "kSmall"
    /\ IF total <= RunSize /\ RunSize - total <= RegionSize
       THEN pc' = "done" /\ UNCHANGED count
       ELSE count' = (RunSize - meta) \div RegionSize /\ UNCHANGED pc
    /\ UNCHANGED <<size, type, index>>

\* A turn of the loop of medium_region_count: whole pages only.
MediumCount ==
    /\ pc = "count" /\ type = "kMedium"
    /\ IF count * RegionSize % kPageSize = 0
       THEN pc' = "done" /\ UNCHANGED count
       ELSE count' = count - 1 /\ UNCHANGED pc
    /\ UNCHANGED <<size, type, index>>

Next == AcquireNull \/ AcquireCached \/ AcquireLarge \/ SmallCount \/ MediumCount

Spec == Init /\ [][Next]_vars

\* acquire is a loop of its caller's thread.
FairSpec == Spec /\ WF_vars(Next)
-----------------------------------------------------------------------------
(* Addresses, from the start of an extent. *)

\* Where the regions of a run start: a small run has its SmallMeta in front of them.
Start(run) == IF type = "kSmall" THEN run + RunSize - count * RegionSize ELSE run

\* The address of region i of run r.
Address(r, i) == Start(r * RunSize) + i * RegionSize

\* Mutant of the next definition: the start of a medium run.
TokenOfFromRun(ptr) == LET r == ptr \div RunSize
                       IN  <<r, (ptr - r * RunSize) \div RegionSize>>

\* The run and the index with which small_release, medium_release and
\* LargeBin::release look up the token of ptr.
TokenOf(ptr) == LET r == ptr \div RunSize
                IN  <<r, (ptr - Start(r * RunSize)) \div RegionSize>>
-----------------------------------------------------------------------------
\* A request is served by the smallest class that holds it, in a bin that exists,
\* whether the class is looked up or computed (the assertions of size2index and
\* index2size).
ClassFits ==
    /\ pc \in {"count", "done"} => /\ size <= RegionSize
                                   /\ RegionSize <= RunSize
    /\ pc \in {"count", "done"} /\ type # "kLarge" =>
          /\ index \in 0 .. kNSlabsCached - 1
          /\ index > 0 => index2size(index - 1) < size
          /\ index = size2index_compute(size)
          /\ index2size(index) = index2size_compute(index)
          /\ size2index(index2size(index)) = index
    /\ pc = "done" /\ type = "kLarge" =>
          /\ index \in 0 .. 5
          /\ 2 * size > RegionSize

\* The regions of a run lie within it, and behind its SmallMeta and tokens; a
\* small run wastes no room for one more.  Every region and every run has its
\* token or its bit in the descriptors (construct of SmallMeta, MediumMeta and
\* ExtentDesc, and the 64 bits of alloc_large), and release finds from the address
\* of a region the run and the token that acquire gave it.
RegionsFit == pc = "done" =>
    /\ count > 0 /\ count < 2^16
    /\ type = "kSmall" =>
          /\ SmallMetaSize + count <= Start(0)
          /\ SmallMetaSize + (count + 1) * (RegionSize + 1) > RunSize
          /\ NRuns <= SmallRunBits /\ NRuns % 64 = 0
    /\ type = "kMedium" =>
          /\ count * RegionSize <= RunSize /\ count <= MediumTokens
          /\ NRuns <= MediumRunBytes
    /\ type = "kLarge" => count * RegionSize <= kExtentSize /\ count <= LargeTokens
    /\ \A r \in {0, 1, NRuns - 1} \intersect (0 .. NRuns - 1), i \in 0 .. count - 1 :
          TokenOf(Address(r, i)) = <<r, i>>

\* The loops that count regions end for every class: small_region_count goes on
\* until a count is stable.
CountEnds == <>(pc \in {"done", "null"})
=============================================================================
