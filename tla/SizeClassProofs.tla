-------------------------- MODULE SizeClassProofs --------------------------
(***************************************************************************)
(* Proof that every request, of whatever size, is served by the smallest   *)
(* class that holds it (ClassFits of SizeClass).  TLC tries every size     *)
(* that the table serves and the edges of the classes above it; here the   *)
(* sizes are arbitrary.                                                    *)
(*                                                                         *)
(* Class k of group g > 0 (k in 0 .. 3) holds the sizes of one cell: those *)
(* above Low(g, k) and up to 32 * Unit(g) more.                            *)
(* Every size above 128 lies in a cell (Cells), both computations of       *)
(* size.h agree on each cell (CellIndex, CellSize), and the entries of the *)
(* table are those of a size in the same cell (IndexTable).                *)
(***************************************************************************)
EXTENDS SizeClass, TLAPS

-----------------------------------------------------------------------------
(* The values of the constants of const.h. *)
LEMMA Constants ==
    /\ kPageSize = 4096 /\ kExtentSize = 4194304 /\ kSmallRunBase = 16384
    /\ kQuantumSize = 32 /\ kMinGapSize = 128 /\ kMinGapShift = 7
    /\ kMaxSmallSize = 2048 /\ kMaxMediumSize = 65536 /\ kMaxLargeSize = 4194304
    /\ kMaxLookupSize = 4096 /\ kNSlabsPerGrp = 4 /\ kNSlabsCached = 40
  BY SMT DEF kPageSize, kExtentSize, kSmallRunBase, kQuantumSize, kMinGapSize,
     kMinGapShift, kMaxSmallSize, kMaxMediumSize, kMaxLargeSize, kMaxLookupSize,
     kNSlabsPerGrp, kNSlabsCached

(* The powers of two that occur. *)
LEMMA Powers ==
    /\ 2^0 = 1 /\ 2^1 = 2 /\ 2^2 = 4 /\ 2^3 = 8 /\ 2^4 = 16 /\ 2^5 = 32
    /\ 2^6 = 64 /\ 2^7 = 128 /\ 2^8 = 256 /\ 2^9 = 512 /\ 2^10 = 1024
    /\ 2^11 = 2048 /\ 2^12 = 4096 /\ 2^13 = 8192 /\ 2^14 = 16384 /\ 2^15 = 32768
    /\ 2^16 = 65536 /\ 2^17 = 131072 /\ 2^18 = 262144 /\ 2^19 = 524288
    /\ 2^20 = 1048576 /\ 2^21 = 2097152 /\ 2^22 = 4194304
  BY SMT

(* They grow, and seven steps make a factor of 128. *)
LEMMA PowersGrow ==
    /\ \A i \in 0 .. 22 : 2^i \in Nat /\ 2^i > 0
    /\ \A i, j \in 0 .. 22 : i < j => 2 * 2^i <= 2^j
    /\ \A i \in 0 .. 8 : 2^(i + 7) = 128 * 2^i
<1> DEFINE f == [i \in 0 .. 22 |-> 2^i]
<1>1. /\ f[0] = 1 /\ f[1] = 2 /\ f[2] = 4 /\ f[3] = 8 /\ f[4] = 16 /\ f[5] = 32
      /\ f[6] = 64 /\ f[7] = 128 /\ f[8] = 256 /\ f[9] = 512 /\ f[10] = 1024
      /\ f[11] = 2048 /\ f[12] = 4096 /\ f[13] = 8192 /\ f[14] = 16384
      /\ f[15] = 32768 /\ f[16] = 65536 /\ f[17] = 131072 /\ f[18] = 262144
      /\ f[19] = 524288 /\ f[20] = 1048576 /\ f[21] = 2097152 /\ f[22] = 4194304
  BY Powers, SMTT(30)
<1>2. \A i \in 0 .. 22 : f[i] = 2^i
  BY Zenon
<1> HIDE DEF f
<1>3. \A i \in 0 .. 22 : f[i] \in Nat /\ f[i] > 0
  BY <1>1, SMTT(60)
<1>4. \A i, j \in 0 .. 22 : i < j => 2 * f[i] <= f[j]
  BY <1>1, SMTT(60)
<1>5. \A i \in 0 .. 8 : f[i + 7] = 128 * f[i] /\ i + 7 \in 0 .. 22 /\ i \in 0 .. 22
  BY <1>1, SMTT(60)
<1> QED  BY <1>2, <1>3, <1>4, <1>5, Zenon

(* The most significant bit. *)
LEMMA Most1 ==
    ASSUME NEW n \in Nat, NEW m \in 0 .. 22, 2^m <= n, n < 2 * 2^m
    PROVE  IndexMost1(n) = m
<1>1. ASSUME NEW j \in 0 .. 22, 2^j <= n, n < 2 * 2^j
      PROVE  j = m
  <2>1. /\ 2^j \in Nat /\ 2^m \in Nat
        /\ j < m => 2 * 2^j <= 2^m
        /\ m < j => 2 * 2^m <= 2^j
    BY PowersGrow, Zenon
  <2> QED  BY <1>1, <2>1, SMT
<1>2. \A j \in 0 .. 22 : (2^j <= n /\ n < 2 * 2^j) <=> j = m
  BY <1>1, Zenon
<1> QED  BY <1>2, Zenon DEF IndexMost1

-----------------------------------------------------------------------------
(* The cells. *)
Unit(g)         == 2^(g - 1)
Low(g, k)       == 128 * Unit(g) + 32 * (Unit(g) * k)
InCell(n, g, k) == Low(g, k) < n /\ n <= Low(g, k) + 32 * Unit(g)

(* The units double. *)
LEMMA Units ==
    ASSUME NEW g \in 1 .. 9
    PROVE  /\ Unit(g) \in Nat /\ Unit(g) > 0 /\ Unit(g) <= 256
           /\ g > 1 => Unit(g) = 2 * Unit(g - 1)
<1>1. /\ Unit(1) = 1 /\ Unit(2) = 2 /\ Unit(3) = 4 /\ Unit(4) = 8
      /\ Unit(5) = 16 /\ Unit(6) = 32 /\ Unit(7) = 64 /\ Unit(8) = 128
      /\ Unit(9) = 256
  BY SMT DEF Unit
<1> QED  BY <1>1, SMT

(* Each cell starts where the one before it ends. *)
LEMMA Lows ==
    ASSUME NEW g \in 1 .. 9, NEW k \in 0 .. 3
    PROVE  /\ \E v \in Nat : Low(g, k) = 32 * v
           /\ Low(g, k) \in Nat
           /\ 128 * Unit(g) <= Low(g, k)
           /\ Low(g, k) + 32 * Unit(g) <= 256 * Unit(g)
           /\ k > 0 => Low(g, k - 1) + 32 * Unit(g) = Low(g, k)
           /\ k = 0 /\ g > 1 => Low(g - 1, 3) + 32 * Unit(g - 1) = Low(g, k)
           /\ k = 0 /\ g = 1 => Low(g, k) = 128
<1>1. \A c \in Nat : /\ c * 0 = 0 /\ c * 1 = c /\ c * 2 = 2 * c /\ c * 3 = 3 * c
  BY SMT
<1>2. /\ Low(g, 0) = 128 * Unit(g) /\ Low(g, 1) = 160 * Unit(g)
      /\ Low(g, 2) = 192 * Unit(g) /\ Low(g, 3) = 224 * Unit(g)
  BY <1>1, Units, SMT DEF Low
<1>3. g > 1 => Low(g - 1, 3) = 224 * Unit(g - 1) /\ Unit(g) = 2 * Unit(g - 1)
               /\ Unit(g - 1) \in Nat
  BY <1>1, Units, SMT DEF Low
<1>4. g = 1 => Unit(g) = 1
  BY Powers, SMT DEF Unit
<1>5. Unit(g) \in Nat
  BY Units
<1>6. CASE k = 0
  <2>1. Low(g, k) = 32 * (4 * Unit(g))
    BY <1>2, <1>5, <1>6, SMT
  <2> QED  BY <1>2, <1>3, <1>4, <1>5, <1>6, <2>1, SMT
<1>7. CASE k = 1
  <2>1. Low(g, k) = 32 * (5 * Unit(g))
    BY <1>2, <1>5, <1>7, SMT
  <2> QED  BY <1>2, <1>5, <1>7, <2>1, SMT
<1>8. CASE k = 2
  <2>1. Low(g, k) = 32 * (6 * Unit(g))
    BY <1>2, <1>5, <1>8, SMT
  <2> QED  BY <1>2, <1>5, <1>8, <2>1, SMT
<1>9. CASE k = 3
  <2>1. Low(g, k) = 32 * (7 * Unit(g))
    BY <1>2, <1>5, <1>9, SMT
  <2> QED  BY <1>2, <1>5, <1>9, <2>1, SMT
<1> QED  BY <1>6, <1>7, <1>8, <1>9, SMT

(* Every size of a small or medium region above 128 lies in a cell. *)
LEMMA Cells ==
    ASSUME NEW n \in Nat, 128 < n, n <= 65536
    PROVE  \E g \in 1 .. 9 : \E k \in 0 .. 3 : InCell(n, g, k)
<1>1. PICK g \in 1 .. 9 : 128 * Unit(g) < n /\ n <= 256 * Unit(g)
  <2>1. /\ Unit(1) = 1 /\ Unit(2) = 2 /\ Unit(3) = 4 /\ Unit(4) = 8
        /\ Unit(5) = 16 /\ Unit(6) = 32 /\ Unit(7) = 64 /\ Unit(8) = 128
        /\ Unit(9) = 256
    BY SMT DEF Unit
  <2> QED  BY <2>1, SMT
<1>2. /\ Low(g, 0) = 128 * Unit(g) /\ Low(g, 1) = 160 * Unit(g)
      /\ Low(g, 2) = 192 * Unit(g) /\ Low(g, 3) = 224 * Unit(g)
      /\ Unit(g) \in Nat
  <2>1. \A c \in Nat : /\ c * 0 = 0 /\ c * 1 = c /\ c * 2 = 2 * c /\ c * 3 = 3 * c
    BY SMT
  <2> QED  BY <2>1, Units, SMT DEF Low
<1>3. \E k \in 0 .. 3 : InCell(n, g, k)
  BY <1>1, <1>2, SMT DEF InCell
<1> QED  BY <1>3

(* size2index_compute on a cell. *)
LEMMA CellIndex ==
    ASSUME NEW n \in Nat, NEW g \in 1 .. 9, NEW k \in 0 .. 3, InCell(n, g, k)
    PROVE  size2index_compute(n) = 4 * g + k
<1> DEFINE c == Unit(g)
<1>1. g - 1 \in 0 .. 8 /\ g + 6 = (g - 1) + 7 /\ g + 6 \in 0 .. 22
  BY SMT
<1>2. 2^(g + 6) = 128 * c
  BY <1>1, PowersGrow, Zenon DEF Unit
<1>3. c \in Nat /\ c > 0
  BY Units, SMT
<1>4. 128 * c < n /\ n <= 256 * c
  <2>1. 128 * Unit(g) <= Low(g, k) /\ Low(g, k) + 32 * Unit(g) <= 256 * Unit(g)
        /\ Low(g, k) \in Nat
    BY Lows, SMT
  <2> QED  BY <1>3, <2>1, SMT DEF InCell
<1>5. /\ 128 * c + 32 * (c * k) < n /\ n <= 128 * c + 32 * (c * k) + 32 * c
  BY SMT DEF InCell, Low
<1> HIDE DEF c
<1>6. n - 1 \in Nat /\ 128 * c <= n - 1 /\ n - 1 < 2 * (128 * c)
  BY <1>3, <1>4, SMT
<1>7. IndexMost1(n - 1) = g + 6
  BY <1>1, <1>2, <1>6, Most1, Zenon
<1>8. size2index_compute(n)
         = (g + 6 - 7 + 1) * 4 + ((n - 128 * c - 1) \div ((128 * c) \div 4))
  <2>1. ~ (n <= 128)
    BY <1>3, <1>4, SMT
  <2> QED  BY <1>2, <1>7, <2>1, Constants, SMT DEF size2index_compute
<1>9. (128 * c) \div 4 = 32 * c
  BY <1>3, SMT
<1>10. (n - 128 * c - 1) \div (32 * c) = k
  <2> DEFINE a == n - 128 * c - 1   q == 32 * c
  <2>1. k * q = 32 * (c * k) /\ c * k \in Nat
    BY <1>3, SMT
  <2>2. a \in Int /\ q \in Nat /\ q > 0 /\ k * q <= a /\ a < k * q + q
    BY <1>3, <1>5, <2>1, SMT
  <2> HIDE DEF a, q
  <2>3. k = a \div q
    BY <2>2, SMT
  <2> QED  BY <2>3 DEF a, q
<1> QED  BY <1>8, <1>9, <1>10, SMT

(* index2size_compute on a cell: its largest size. *)
LEMMA CellSize ==
    ASSUME NEW g \in 1 .. 9, NEW k \in 0 .. 3
    PROVE  index2size_compute(4 * g + k) = Low(g, k) + 32 * Unit(g)
<1> DEFINE c == Unit(g)
<1>1. (4 * g + k) \div 4 = g /\ (4 * g + k) % 4 = k /\ ~ (4 * g + k < 4)
  BY SMT
<1>2. index2size_compute(4 * g + k) = 128 * c + ((128 * c) \div 4) * (k + 1)
  BY <1>1, Constants, SMT DEF index2size_compute, Unit
<1>3. c \in Nat
  BY Units, SMT
<1>4. Low(g, k) = 128 * c + 32 * (c * k)
  BY SMT DEF Low
<1> HIDE DEF c
<1>5. (128 * c) \div 4 = 32 * c
  BY <1>3, SMT
<1>6. (32 * c) * (k + 1) = 32 * (c * k) + 32 * c /\ c * k \in Nat
  BY <1>3, SMT
<1>7. index2size_compute(4 * g + k) = Low(g, k) + 32 * c
  BY <1>2, <1>3, <1>4, <1>5, <1>6, SMT
<1> QED  BY <1>7 DEF c

(* The first group. *)
LEMMA FirstGroup ==
    /\ \A n \in Nat : 1 <= n /\ n <= 128 => size2index_compute(n) = (n - 1) \div 32
    /\ \A i \in 0 .. 3 : index2size_compute(i) = 32 * i + 32
  BY Constants, SMTT(30) DEF size2index_compute, index2size_compute

-----------------------------------------------------------------------------
(* The class of a size is the smallest that holds it. *)
LEMMA Smallest ==
    ASSUME NEW n \in Nat, 0 < n, n <= 65536, NEW i, i = size2index_compute(n)
    PROVE  /\ i \in 0 .. 39
           /\ n <= index2size_compute(i)
           /\ i > 0 => index2size_compute(i - 1) < n
           /\ index2size_compute(i) \in Nat /\ index2size_compute(i) <= 65536
           /\ size2index_compute(index2size_compute(i)) = i
<1>1. CASE n <= 128
  <2>1. PICK k \in 0 .. 3 : 32 * k < n /\ n <= 32 * k + 32
    BY <1>1, SMT
  <2>2. i = k
    BY <1>1, <2>1, FirstGroup, SMT
  <2>3. /\ index2size_compute(k) = 32 * k + 32
        /\ k > 0 => index2size_compute(k - 1) = 32 * k
    BY FirstGroup, SMT
  <2>4. size2index_compute(32 * k + 32) = k
    BY FirstGroup, SMT
  <2> QED  BY <2>1, <2>2, <2>3, <2>4, SMT
<1>2. CASE 128 < n
  <2>1. PICK g \in 1 .. 9 : \E k \in 0 .. 3 : InCell(n, g, k)
    BY <1>2, Cells, SMT
  <2>2. PICK k \in 0 .. 3 : InCell(n, g, k)
    BY <2>1, SMT
  <2> DEFINE s == Low(g, k) + 32 * Unit(g)
  <2>3. i = 4 * g + k
    BY <2>2, CellIndex, SMT
  <2>4. index2size_compute(4 * g + k) = s
    BY CellSize, SMT
  <2>5. Unit(g) \in Nat /\ Unit(g) > 0 /\ Unit(g) <= 256 /\ Low(g, k) \in Nat
    <3>1. Low(g, k) \in Nat
      BY Lows, SMT
    <3> QED  BY <3>1, Units, SMT
  <2>6. Low(g, k) < n /\ n <= s /\ s \in Nat /\ s <= 65536
    <3>1. s <= 256 * Unit(g)
      BY Lows, SMT
    <3>2. Low(g, k) < n /\ n <= s
      BY <2>2, SMT DEF InCell
    <3> QED  BY <2>5, <3>1, <3>2, SMT
  <2>7. size2index_compute(s) = 4 * g + k
    <3>1. InCell(s, g, k)
      BY <2>5, SMT DEF InCell
    <3> QED  BY <2>6, <3>1, CellIndex, SMT
  <2>8. index2size_compute(4 * g + k - 1) < n
    <3>1. CASE k > 0
      <4>1. k - 1 \in 0 .. 3 /\ 4 * g + (k - 1) = 4 * g + k - 1
        BY <3>1, SMT
      <4>2. index2size_compute(4 * g + (k - 1)) = Low(g, k - 1) + 32 * Unit(g)
        BY <4>1, CellSize, SMT
      <4>3. Low(g, k - 1) + 32 * Unit(g) = Low(g, k)
        BY <3>1, Lows, SMT
      <4> QED  BY <2>6, <4>1, <4>2, <4>3, SMT
    <3>2. CASE k = 0 /\ g > 1
      <4>1. g - 1 \in 1 .. 9 /\ 3 \in 0 .. 3 /\ 4 * (g - 1) + 3 = 4 * g + k - 1
        BY <3>2, SMT
      <4>2. index2size_compute(4 * (g - 1) + 3) = Low(g - 1, 3) + 32 * Unit(g - 1)
        BY <4>1, CellSize, SMT
      <4>3. Low(g - 1, 3) + 32 * Unit(g - 1) = Low(g, k)
        BY <3>2, Lows, SMT
      <4> QED  BY <2>6, <4>1, <4>2, <4>3, SMT
    <3>3. CASE k = 0 /\ g = 1
      <4>1. index2size_compute(3) = 128 /\ 4 * g + k - 1 = 3
        BY <3>3, FirstGroup, SMT
      <4> QED  BY <1>2, <4>1, SMT
    <3> QED  BY <3>1, <3>2, <3>3, SMT
  <2>9. 4 * g + k \in 0 .. 39
    BY SMT
  <2> HIDE DEF s
  <2> QED  BY <2>3, <2>4, <2>6, <2>7, <2>8, <2>9, SMT
<1> QED  BY <1>1, <1>2, SMT

(* index2size reads from the table what index2size_compute computes: every *)
(* class is a multiple of kQuantumSize.                                    *)
LEMMA SizeTable ==
    ASSUME NEW i \in 0 .. 39
    PROVE  index2size(i) = index2size_compute(i)
<1>1. index2size(i) = (index2size_compute(i) \div 32) * 32
  BY Constants, SMT DEF index2size, idx2sz_tab
<1>2. CASE i < 4
  BY <1>1, <1>2, FirstGroup, SMT
<1>3. CASE i >= 4
  <2>1. PICK g \in 1 .. 9 : \E k \in 0 .. 3 : i = 4 * g + k
    BY <1>3, SMT
  <2>2. PICK k \in 0 .. 3 : i = 4 * g + k
    BY <2>1, SMT
  <2>3. index2size_compute(i) = Low(g, k) + 32 * Unit(g)
    BY <2>2, CellSize, SMT
  <2>4. PICK v \in Nat : Low(g, k) = 32 * v
    BY Lows, SMT
  <2>5. Unit(g) \in Nat
    BY Units, SMT
  <2> QED  BY <1>1, <2>3, <2>4, <2>5, SMT
<1> QED  BY <1>2, <1>3, SMT

(* size2index reads from the table what size2index_compute computes: the   *)
(* constructor fills an entry from a size in the cell of all that use it.  *)
LEMMA IndexTable ==
    ASSUME NEW n \in Nat, 0 < n, n <= 65536
    PROVE  size2index(n) = size2index_compute(n)
<1>1. CASE n > 4096
  BY <1>1, Constants, SMT DEF size2index
<1>2. CASE n <= 4096
  <2>1. PICK u \in Nat : u <= 127 /\ 32 * u < n /\ n <= 32 * u + 32
    <3>1. /\ (n - 1) \div 32 \in Nat /\ (n - 1) \div 32 <= 127
          /\ 32 * ((n - 1) \div 32) < n /\ n <= 32 * ((n - 1) \div 32) + 32
      BY <1>2, SMT
    <3> QED  BY <3>1, SMT
  <2>2. (n - 1) \div 32 = u /\ (u + 1) * 32 - 1 = 32 * u + 31
    BY <2>1, SMT
  <2>3. size2index(n) = size2index_compute(32 * u + 31)
    BY <1>2, <2>1, <2>2, Constants, SMT DEF size2index, sz2idx_tab
  <2>4. CASE n <= 128
    BY <2>1, <2>3, <2>4, FirstGroup, SMT
  <2>5. CASE 128 < n
    <3>1. PICK g \in 1 .. 9 : \E k \in 0 .. 3 : InCell(n, g, k)
      BY <2>5, Cells, SMT
    <3>2. PICK k \in 0 .. 3 : InCell(n, g, k)
      BY <3>1, SMT
    <3>3. PICK v \in Nat : Low(g, k) = 32 * v
      BY Lows, SMT
    <3>4. InCell(32 * u + 31, g, k)
      BY <2>1, <3>2, <3>3, Units, SMT DEF InCell
    <3>5. size2index_compute(32 * u + 31) = 4 * g + k
      BY <2>1, <3>4, CellIndex, SMT
    <3>6. size2index_compute(n) = 4 * g + k
      BY <3>2, CellIndex, SMT
    <3> QED  BY <2>3, <3>5, <3>6, SMT
  <2> QED  BY <2>4, <2>5, SMT
<1> QED  BY <1>1, <1>2, SMT

(* A region fits in a run of its bin. *)
LEMMA RunHolds ==
    ASSUME NEW i \in 0 .. 39
    PROVE  index2size_compute(i) <= kRunSizeTab[kCBin2RBin[i \div kNSlabsPerGrp]]
<1>1. /\ kRunSizeTab[0] = 16384 /\ kRunSizeTab[1] = 32768 /\ kRunSizeTab[2] = 65536
      /\ kRunSizeTab[3] = 131072 /\ kRunSizeTab[4] = 262144 /\ kRunSizeTab[5] = 524288
  BY Constants, SMT DEF kRunSizeTab
<1>2. /\ kCBin2RBin[0] = 0 /\ kCBin2RBin[1] = 0 /\ kCBin2RBin[2] = 1
      /\ kCBin2RBin[3] = 1 /\ kCBin2RBin[4] = 2 /\ kCBin2RBin[5] = 3
      /\ kCBin2RBin[6] = 3 /\ kCBin2RBin[7] = 4 /\ kCBin2RBin[8] = 4
      /\ kCBin2RBin[9] = 5
  BY SMT DEF kCBin2RBin
<1>3. CASE i < 4
  <2>1. index2size_compute(i) = 32 * i + 32 /\ i \div kNSlabsPerGrp = 0
    BY <1>3, FirstGroup, Constants, SMT
  <2> QED  BY <1>1, <1>2, <1>3, <2>1, SMT
<1>4. CASE i >= 4
  <2>1. PICK g \in 1 .. 9 : \E k \in 0 .. 3 : i = 4 * g + k
    BY <1>4, SMT
  <2>2. PICK k \in 0 .. 3 : i = 4 * g + k
    BY <2>1, SMT
  <2>3. i \div kNSlabsPerGrp = g
    BY <2>2, Constants, SMT
  <2>4. index2size_compute(i) <= 256 * Unit(g) /\ index2size_compute(i) \in Nat
    <3>1. index2size_compute(i) = Low(g, k) + 32 * Unit(g)
      BY <2>2, CellSize, SMT
    <3>2. Low(g, k) + 32 * Unit(g) <= 256 * Unit(g) /\ Low(g, k) \in Nat
      BY Lows, SMT
    <3>3. Unit(g) \in Nat
      BY Units, SMT
    <3> QED  BY <3>1, <3>2, <3>3, SMT
  <2>5. /\ Unit(1) = 1 /\ Unit(2) = 2 /\ Unit(3) = 4 /\ Unit(4) = 8
        /\ Unit(5) = 16 /\ Unit(6) = 32 /\ Unit(7) = 64 /\ Unit(8) = 128
        /\ Unit(9) = 256
    BY SMT DEF Unit
  <2>6. 256 * Unit(g) <= kRunSizeTab[kCBin2RBin[g]]
    BY <1>1, <1>2, <2>5, SMT
  <2>7. kRunSizeTab[kCBin2RBin[g]] \in Nat /\ Unit(g) \in Nat
    BY <1>1, <1>2, Units, SMT
  <2> QED  BY <2>3, <2>4, <2>6, <2>7, SMT
<1> QED  BY <1>3, <1>4, SMT

(* The powers of two, opaque to the solver. *)
Pow(m) == 2^m

(* The most significant bit in terms of Pow. *)
LEMMA Most1Pow ==
    ASSUME NEW n \in Nat, NEW m \in 0 .. 22, Pow(m) <= n, n < 2 * Pow(m)
    PROVE  IndexMost1(n) = m
  BY Most1, Zenon DEF Pow

(* The bin of a large request has the smallest regions that hold it. *)
LEMMA LargeSmallest ==
    ASSUME NEW n \in Nat, 65536 < n, n <= 4194304,
           NEW j, j = IndexMost1((n - 1) \div 65536)
    PROVE  /\ j \in 0 .. 5
           /\ n <= 65536 * Pow(j + 1) /\ 2 * n > 65536 * Pow(j + 1)
           /\ 65536 * Pow(j + 1) <= 4194304
<1>1. PICK v \in Nat : /\ v = (n - 1) \div 65536 /\ 1 <= v /\ v <= 63
                       /\ 65536 * v < n /\ n <= 65536 * v + 65536
  BY SMT
<1>2. /\ Pow(0) = 1 /\ Pow(1) = 2 /\ Pow(2) = 4 /\ Pow(3) = 8 /\ Pow(4) = 16
      /\ Pow(5) = 32 /\ Pow(6) = 64
  BY SMT DEF Pow
<1>3. PICK m \in 0 .. 5 : /\ Pow(m) \in Nat /\ Pow(m + 1) = 2 * Pow(m)
                          /\ Pow(m) <= v /\ v < 2 * Pow(m) /\ Pow(m) <= 32
  BY <1>1, <1>2, SMT
<1>4. j = m
  <2>1. m \in 0 .. 22 /\ j = IndexMost1(v)
    BY <1>1, SMT
  <2> QED  BY <1>3, <2>1, Most1Pow, SMT
<1> QED  BY <1>1, <1>3, <1>4, SMT

-----------------------------------------------------------------------------
(***************************************************************************)
(* Requests of every size are served by the smallest class that holds      *)
(* them, by the table as by the computation (SizeClass of size.h, acquire  *)
(* of tcache.h, large_acquire of run.h).  ClassFits is inductive.          *)
(***************************************************************************)
THEOREM EveryClassFits == Spec => []ClassFits
<1>1. Init => size \in Nat /\ ClassFits
  BY SizesAssumption DEF Init, ClassFits
<1>2. ASSUME size \in Nat, ClassFits, [Next]_vars
      PROVE  (size \in Nat)' /\ ClassFits'
  <2>1. CASE AcquireCached
    <3>1. /\ size \in Nat /\ 0 < size /\ size <= 65536 /\ size' = size
          /\ index' = size2index(size)
      BY <1>2, <2>1, Constants, SMT DEF AcquireCached
    <3>2. index' = size2index_compute(size)
      BY <3>1, IndexTable, SMT
    <3> DEFINE s == index2size_compute(index')
    <3>3. /\ index' \in 0 .. 39 /\ size <= s /\ s \in Nat /\ s <= 65536
          /\ index' > 0 => index2size_compute(index' - 1) < size
          /\ size2index_compute(s) = index'
      BY <3>1, <3>2, Smallest, SMT
    <3>4. index2size(index') = s /\ (index' > 0 => index2size(index' - 1) < size)
      BY <3>3, SizeTable, SMT
    <3>5. size2index(s) = index'
      BY <3>1, <3>3, IndexTable, SMT
    <3>6. pc' = "count" /\ type' \in {"kSmall", "kMedium"}
      BY <2>1 DEF AcquireCached
    <3>7. RegionSize' = s /\ RegionSize' <= RunSize'
      BY <3>3, <3>4, <3>6, RunHolds, SMT DEF RegionSize, RunSize
    <3> HIDE DEF s
    <3>8. s = index2size_compute(index')
      BY DEF s
    <3> QED
      BY <3>1, <3>2, <3>3, <3>4, <3>5, <3>6, <3>7, <3>8, Constants, SMT DEF ClassFits
  <2>2. CASE AcquireLarge
    <3>1. /\ 65536 < size /\ size <= 4194304 /\ size' = size
          /\ pc' = "done" /\ type' = "kLarge"
          /\ index' = IndexMost1((size - 1) \div 65536)
      BY <1>2, <2>2, Constants, SMT DEF AcquireLarge
    <3>2. RegionSize' = 65536 * Pow(index' + 1) /\ RunSize' = 4194304
      BY <3>1, Constants, SMT DEF RegionSize, RunSize, Pow
    <3>3. /\ index' \in 0 .. 5 /\ size <= RegionSize' /\ 2 * size > RegionSize'
          /\ RegionSize' <= RunSize'
      BY <1>2, <3>1, <3>2, LargeSmallest, SMT
    <3> QED
      BY <1>2, <3>1, <3>3, SMT DEF ClassFits
  <2>3. CASE AcquireNull
    BY <1>2, <2>3, SMT DEF AcquireNull, ClassFits
  <2>4. CASE SmallCount \/ MediumCount
    <3>1. /\ pc = "count" /\ type # "kLarge" /\ UNCHANGED <<size, type, index>>
      BY <2>4, Zenon DEF SmallCount, MediumCount
    <3>2. RegionSize' = RegionSize /\ RunSize' = RunSize
      BY <3>1, Zenon DEF RegionSize, RunSize
    <3> QED
      BY <1>2, <3>1, <3>2, Zenon DEF ClassFits
  <2>5. CASE UNCHANGED vars
    BY <1>2, <2>5, Zenon DEF vars, ClassFits, RegionSize, RunSize
  <2> QED
    BY <1>2, <2>1, <2>2, <2>3, <2>4, <2>5 DEF Next
<1> QED
  BY <1>1, <1>2, PTL DEF Spec

-----------------------------------------------------------------------------
(* Division. *)

(* What integer division computes. *)
LEMMA DivFact ==
    ASSUME NEW x \in Nat, NEW n \in Nat \ {0}
    PROVE  x \div n \in Nat /\ n * (x \div n) <= x /\ x < n * (x \div n) + n
  BY SMT

(* Products are monotonic. *)
LEMMA MulMono ==
    ASSUME NEW a \in Nat, NEW b \in Nat, NEW c \in Nat, a <= b
    PROVE  a * c <= b * c /\ c * a <= c * b /\ a * c \in Nat
  BY SMT

(* A quotient is determined by its remainder. *)
LEMMA DivUnique ==
    ASSUME NEW n \in Nat \ {0}, NEW q \in Nat, NEW o \in Nat, o < n
    PROVE  (q * n + o) \div n = q
<1> DEFINE d == (q * n + o) \div n
<1>1. q * n \in Nat /\ q * n + o \in Nat
  BY MulMono, SMT
<1>2. d \in Nat /\ n * d <= q * n + o /\ q * n + o < n * d + n
  BY <1>1, DivFact, SMT
<1> HIDE DEF d
<1>3. ASSUME d < q PROVE FALSE
  <2>1. (d + 1) * n <= q * n
    BY <1>2, <1>3, MulMono, SMT
  <2> QED BY <1>1, <1>2, <2>1, SMT
<1>4. ASSUME d > q PROVE FALSE
  <2>1. (q + 1) * n <= d * n
    BY <1>2, <1>4, MulMono, SMT
  <2> QED BY <1>1, <1>2, <2>1, SMT
<1>5. d = q
  BY <1>2, <1>3, <1>4, SMT
<1> QED BY <1>5 DEF d

(* The run size of a size class. *)
RunOf(i) == kRunSizeTab[kCBin2RBin[i \div kNSlabsPerGrp]]

(* The sizes of small regions and of their runs. *)
LEMMA SmallClass ==
    ASSUME NEW i \in 0 .. 19
    PROVE  /\ index2size(i) \in Nat /\ 32 <= index2size(i) /\ index2size(i) <= 2048
           /\ RunOf(i) \in {16384, 32768, 65536}
<1>1. /\ kRunSizeTab[0] = 16384 /\ kRunSizeTab[1] = 32768 /\ kRunSizeTab[2] = 65536
  BY Constants, SMT DEF kRunSizeTab
<1>2. /\ kCBin2RBin[0] = 0 /\ kCBin2RBin[1] = 0 /\ kCBin2RBin[2] = 1
      /\ kCBin2RBin[3] = 1 /\ kCBin2RBin[4] = 2
  BY SMT DEF kCBin2RBin
<1>3. index2size(i) = index2size_compute(i)
  BY SizeTable, SMT
<1>4. CASE i < 4
  <2>1. index2size_compute(i) = 32 * i + 32 /\ i \div kNSlabsPerGrp = 0
    BY <1>4, FirstGroup, Constants, SMT
  <2> QED BY <1>1, <1>2, <1>3, <1>4, <2>1, SMT DEF RunOf
<1>5. CASE i >= 4
  <2>1. PICK g \in 1 .. 4, k \in 0 .. 3 : i = 4 * g + k
    BY <1>5, SMT
  <2>2. i \div kNSlabsPerGrp = g
    BY <2>1, Constants, SMT
  <2>3. index2size_compute(i) = Low(g, k) + 32 * Unit(g)
    BY <2>1, CellSize, SMT
  <2>4. /\ Low(g, k) \in Nat /\ Low(g, k) + 32 * Unit(g) <= 256 * Unit(g)
        /\ Unit(g) \in Nat /\ Unit(g) > 0
    <3>1. g \in 1 .. 9
      BY SMT
    <3> QED BY <3>1, Lows, Units, Zenon
  <2>5. Unit(1) = 1 /\ Unit(2) = 2 /\ Unit(3) = 4 /\ Unit(4) = 8
    BY SMT DEF Unit
  <2>6. Unit(g) <= 8
    BY <2>5, SMT
  <2>7. RunOf(i) \in {16384, 32768, 65536}
    BY <1>1, <1>2, <2>2, SMT DEF RunOf
  <2> QED BY <1>3, <2>3, <2>4, <2>6, <2>7, SMT
<1> QED BY <1>4, <1>5, SMT

(* Medium regions are multiples of 512 bytes, so that eight of them are pages, *)
(* and eight to fifty-one of them fill a run.                                  *)
LEMMA MediumClass ==
    ASSUME NEW i \in 20 .. 39
    PROVE  /\ \E u \in Nat \ {0} : index2size(i) = 512 * u
           /\ 8 * index2size(i) <= RunOf(i) /\ RunOf(i) < 52 * index2size(i)
           /\ RunOf(i) \in {131072, 262144, 524288}
<1>1. kRunSizeTab[3] = 131072 /\ kRunSizeTab[4] = 262144 /\ kRunSizeTab[5] = 524288
  BY Constants, SMT DEF kRunSizeTab
<1>2. /\ kCBin2RBin[5] = 3 /\ kCBin2RBin[6] = 3 /\ kCBin2RBin[7] = 4
      /\ kCBin2RBin[8] = 4 /\ kCBin2RBin[9] = 5
  BY SMT DEF kCBin2RBin
<1>3. PICK g \in 5 .. 9, k \in 0 .. 3 : i = 4 * g + k
  BY SMT
<1>4. i \div kNSlabsPerGrp = g
  BY <1>3, Constants, SMT
<1>5. index2size(i) = Low(g, k) + 32 * Unit(g)
  BY <1>3, CellSize, SizeTable, SMT
<1>6. Low(g, k) = 128 * Unit(g) + 32 * (Unit(g) * k)
  BY Zenon DEF Low
<1>7. Unit(5) = 16 /\ Unit(6) = 32 /\ Unit(7) = 64 /\ Unit(8) = 128 /\ Unit(9) = 256
  BY SMT DEF Unit
<1>8. PICK v \in {1, 2, 4, 8, 16} : Unit(g) = 16 * v
  BY <1>7, SMT
<1>9. index2size(i) = 512 * (v * (5 + k)) /\ v * (5 + k) \in Nat \ {0}
  BY <1>5, <1>6, <1>8, SMT
<1>10. RunOf(i) = kRunSizeTab[kCBin2RBin[g]]
  BY <1>4, Zenon DEF RunOf
<1>11. /\ RunOf(i) \in {131072, 262144, 524288}
       /\ 8 * index2size(i) <= RunOf(i) /\ RunOf(i) < 52 * index2size(i)
  <2>1. index2size(i) = 32 * Unit(g) * (5 + k)
    BY <1>5, <1>6, <1>8, SMT
  <2>2. CASE g = 5
    BY <2>1, <2>2, <1>1, <1>2, <1>7, <1>10, SMT
  <2>3. CASE g = 6
    BY <2>1, <2>3, <1>1, <1>2, <1>7, <1>10, SMT
  <2>4. CASE g = 7
    BY <2>1, <2>4, <1>1, <1>2, <1>7, <1>10, SMT
  <2>5. CASE g = 8
    BY <2>1, <2>5, <1>1, <1>2, <1>7, <1>10, SMT
  <2>6. CASE g = 9
    BY <2>1, <2>6, <1>1, <1>2, <1>7, <1>10, SMT
  <2> QED BY <2>2, <2>3, <2>4, <2>5, <2>6, SMT
<1> QED BY <1>9, <1>11, SMT

(* The regions of a large extent. *)
LEMMA LargeClass ==
    ASSUME NEW j \in 0 .. 5
    PROVE  /\ 65536 * Pow(j + 1) \in Nat \ {0}
           /\ 4194304 \div (65536 * Pow(j + 1)) \in 1 .. 32
           /\ (4194304 \div (65536 * Pow(j + 1))) * (65536 * Pow(j + 1)) <= 4194304
<1>1. /\ Pow(1) = 2 /\ Pow(2) = 4 /\ Pow(3) = 8 /\ Pow(4) = 16 /\ Pow(5) = 32 /\ Pow(6) = 64
  BY SMT DEF Pow
<1>2. PICK v \in {2, 4, 8, 16, 32, 64} : Pow(j + 1) = v
  BY <1>1, SMT
<1> QED BY <1>2, SMT

-----------------------------------------------------------------------------
(***************************************************************************)
(* What the loops that count regions keep: the regions counted fit in the  *)
(* run, and a medium run has at least eight, because eight medium regions  *)
(* are whole pages and the loop stops there at the latest.                 *)
(***************************************************************************)
CountInv ==
    /\ size \in Nat
    /\ pc \in {"count", "done"} =>
          /\ type \in {"kSmall", "kMedium", "kLarge"}
          /\ type = "kSmall" =>
                /\ index \in 0 .. 19 /\ count \in Nat /\ count * RegionSize <= RunSize
                /\ pc = "done" => /\ count * RegionSize + (24 + count) <= RunSize
                                  /\ RunSize <= count * RegionSize + (24 + count) + RegionSize
          /\ type = "kMedium" =>
                /\ index \in 20 .. 39 /\ count \in Nat /\ 8 <= count
                /\ count * RegionSize <= RunSize
          /\ type = "kLarge" =>
                /\ pc = "done" /\ index \in 0 .. 5 /\ count = kExtentSize \div RegionSize

(* The bin of a small or medium request. *)
LEMMA CachedBin ==
    ASSUME NEW n \in Nat, 0 < n, n <= 65536, NEW i, i = size2index(n)
    PROVE  /\ i \in 0 .. 39 /\ size2index_compute(kMaxSmallSize) = 19
           /\ index2size(i) \in Nat \ {0} /\ index2size(i) <= RunOf(i) /\ RunOf(i) \in Nat
           /\ i > 19 => 8 * index2size(i) <= RunOf(i)
<1>1. i = size2index_compute(n)
  BY IndexTable, SMT
<1>2. i \in 0 .. 39
  BY <1>1, Smallest, SMT
<1>3. size2index_compute(kMaxSmallSize) = 19
  <2>1. Unit(4) = 8
    BY SMT DEF Unit
  <2>2. Low(4, 3) = 1792
    BY <2>1, SMT DEF Low
  <2>3. InCell(2048, 4, 3)
    BY <2>1, <2>2, SMT DEF InCell
  <2>4. 2048 \in Nat /\ 4 \in 1 .. 9 /\ 3 \in 0 .. 3 /\ 4 * 4 + 3 = 19
    BY SMT
  <2>5. size2index_compute(2048) = 4 * 4 + 3
    BY <2>3, <2>4, CellIndex, SMT
  <2> QED BY <2>4, <2>5, Constants, SMT
<1>4. CASE i <= 19
  <2>1. i \in 0 .. 19
    BY <1>2, <1>4, SMT
  <2> QED BY <2>1, <1>2, <1>3, SmallClass, SMT
<1>5. CASE i > 19
  <2>1. i \in 20 .. 39
    BY <1>2, <1>5, SMT
  <2> QED BY <2>1, <1>2, <1>3, MediumClass, SMT
<1> QED BY <1>2, <1>4, <1>5, SMT

(* A request that is classified starts its count right. *)
LEMMA CountAcquire ==
    ASSUME CountInv, AcquireCached \/ AcquireLarge \/ AcquireNull
    PROVE  CountInv'
<1>1. size \in Nat
  BY Zenon DEF CountInv
<1>2. CASE AcquireCached
  <2> DEFINE i == size2index(size)
             R == index2size(i)
             N == RunOf(i)
  <2>1. /\ 0 < size /\ size <= kMaxMediumSize /\ index' = i /\ pc' = "count" /\ size' = size
        /\ type' = (IF index' <= size2index_compute(kMaxSmallSize) THEN "kSmall" ELSE "kMedium")
        /\ count' = RunSize' \div RegionSize'
    BY <1>2, Zenon DEF AcquireCached
  <2>2. /\ i \in 0 .. 39 /\ size2index_compute(kMaxSmallSize) = 19
        /\ R \in Nat \ {0} /\ R <= N /\ N \in Nat /\ (i > 19 => 8 * R <= N)
    BY <1>1, <2>1, CachedBin, Constants, SMT
  <2>3. type' \in {"kSmall", "kMedium"} /\ (type' = "kSmall" <=> i <= 19)
    BY <2>1, <2>2, SMT
  <2>4. RegionSize' = R /\ RunSize' = N
    BY <2>1, <2>3, SMT DEF RegionSize, RunSize, RunOf
  <2> HIDE DEF i, R, N
  <2>5. /\ count' \in Nat /\ R * count' <= N /\ N < R * count' + R
    BY <2>1, <2>2, <2>4, DivFact, SMT
  <2>6. count' * R = R * count'
    BY <2>2, <2>5, SMT
  <2>7. ASSUME i > 19 PROVE 8 <= count'
    <3>1. PICK c \in Nat : c = count'
      BY <2>5, Zenon
    <3>2. N < R * c + R /\ 8 * R <= N /\ R \in Nat \ {0} /\ N \in Nat
      BY <2>2, <2>5, <2>7, <3>1, Zenon
    <3>3. ASSUME c + 1 <= 8 PROVE FALSE
      <4>1. R * (c + 1) <= R * 8
        BY <3>2, <3>3, MulMono, SMT
      <4> QED BY <3>2, <4>1, SMT
    <3>4. 8 <= c
      BY <3>3, SMT
    <3> QED BY <3>1, <3>4, Zenon
  <2>8. type' = "kSmall" => index' \in 0 .. 19
    BY <2>1, <2>2, <2>3, SMT
  <2>9. type' = "kMedium" => index' \in 20 .. 39 /\ 8 <= count'
    BY <2>1, <2>2, <2>3, <2>7, SMT
  <2>10. count' * RegionSize' <= RunSize'
    BY <2>4, <2>5, <2>6, Zenon
  <2>11. type' # "kLarge" /\ pc' # "done"
    BY <2>1, <2>3
  <2> QED BY <1>1, <2>1, <2>3, <2>5, <2>8, <2>9, <2>10, <2>11, Zenon DEF CountInv
<1>3. CASE AcquireLarge
  <2>1. /\ size' = size /\ pc' = "done" /\ type' = "kLarge"
        /\ count' = kExtentSize \div RegionSize'
    BY <1>3, Zenon DEF AcquireLarge
  <2>2. index' \in 0 .. 5
    <3>1. /\ 65536 < size /\ size <= 4194304 /\ index' = IndexMost1((size - 1) \div 65536)
      BY <1>1, <1>3, Constants, SMT DEF AcquireLarge
    <3> QED BY <1>1, <3>1, LargeSmallest, SMT
  <2>3. type' # "kSmall" /\ type' # "kMedium"
    BY <2>1
  <2> QED BY <1>1, <2>1, <2>2, <2>3, Zenon DEF CountInv
<1>4. CASE AcquireNull
  <2>1. pc' \notin {"count", "done"} /\ size' = size
    BY <1>4 DEF AcquireNull
  <2> QED BY <1>1, <2>1, Zenon DEF CountInv
<1> QED BY <1>2, <1>3, <1>4, Zenon

(* A turn of the loop that counts the regions of a small run. *)
LEMMA CountSmall ==
    ASSUME CountInv, SmallCount
    PROVE  CountInv'
<1> DEFINE R == RegionSize
           N == RunSize
<1>1. /\ pc = "count" /\ type = "kSmall" /\ size' = size /\ type' = type /\ index' = index
      /\ \/ /\ count * R + (24 + count) <= N /\ N - (count * R + (24 + count)) <= R
            /\ pc' = "done" /\ count' = count
         \/ count' = (N - (24 + count)) \div R /\ pc' = pc
  BY Zenon DEF SmallCount, SmallMetaSize
<1>2. size \in Nat /\ index \in 0 .. 19 /\ count \in Nat /\ count * R <= N
  BY <1>1, Zenon DEF CountInv
<1>3. R' = R /\ N' = N
  BY <1>1, Zenon DEF RegionSize, RunSize
<1>4. R = index2size(index) /\ N = RunOf(index)
  BY <1>1 DEF RegionSize, RunSize, RunOf
<1>5. R \in Nat /\ 32 <= R /\ R <= 2048 /\ N \in {16384, 32768, 65536}
  BY <1>2, <1>4, SmallClass, SMT
<1> HIDE DEF R, N
<1>6. CASE /\ count * R + (24 + count) <= N /\ N - (count * R + (24 + count)) <= R
           /\ pc' = "done" /\ count' = count
  <2>1. count * R \in Nat
    BY <1>2, <1>5, SMT
  <2>2. N <= count * R + (24 + count) + R
    BY <1>2, <1>5, <1>6, <2>1, SMT
  <2>3. /\ count' * R' <= N' /\ count' * R' + (24 + count') <= N'
        /\ N' <= count' * R' + (24 + count') + R'
    BY <1>2, <1>3, <1>6, <2>2, Zenon
  <2>4. type' = "kSmall" /\ type' # "kMedium" /\ type' # "kLarge"
    BY <1>1
  <2> QED BY <1>1, <1>2, <1>6, <2>3, <2>4, Zenon DEF CountInv, R, N
<1>7. CASE count' = (N - (24 + count)) \div R /\ pc' = pc
  <2>1. 32 * count <= R * count
    BY <1>2, <1>5, MulMono, SMT
  <2>2. R * count = count * R
    BY <1>2, <1>5, SMT
  <2>3. N - (24 + count) \in Nat /\ N - (24 + count) <= N
    BY <1>2, <1>5, <2>1, <2>2, SMT
  <2>4. count' \in Nat /\ R * count' <= N - (24 + count)
    BY <1>5, <1>7, <2>3, DivFact, SMT
  <2>5. count' * R <= N
    <3>1. PICK c \in Nat : c = count'
      BY <2>4, Zenon
    <3>2. c * R <= N - (24 + count)
      BY <1>5, <2>4, <3>1, SMT
    <3>3. c * R <= N
      BY <1>5, <2>3, <3>2, SMT
    <3> QED BY <3>1, <3>3, Zenon
  <2>6. count' * R' <= N'
    BY <1>3, <2>5, Zenon
  <2>7. type' = "kSmall" /\ type' # "kMedium" /\ type' # "kLarge" /\ pc' # "done"
    BY <1>1, <1>7
  <2> QED BY <1>1, <1>2, <2>4, <2>6, <2>7, Zenon DEF CountInv, R, N
<1> QED BY <1>1, <1>6, <1>7, Zenon

(* A turn of the loop that counts the regions of a medium run. *)
LEMMA CountMedium ==
    ASSUME CountInv, MediumCount
    PROVE  CountInv'
<1> DEFINE R == RegionSize
           N == RunSize
<1>1. /\ pc = "count" /\ type = "kMedium" /\ size' = size /\ type' = type /\ index' = index
      /\ \/ pc' = "done" /\ count' = count
         \/ count * R % kPageSize # 0 /\ count' = count - 1 /\ pc' = pc
  BY Zenon DEF MediumCount
<1>2. size \in Nat /\ index \in 20 .. 39 /\ count \in Nat /\ 8 <= count /\ count * R <= N
  BY <1>1, Zenon DEF CountInv
<1>3. R' = R /\ N' = N
  BY <1>1, Zenon DEF RegionSize, RunSize
<1>4. R = index2size(index) /\ N = RunOf(index)
  BY <1>1 DEF RegionSize, RunSize, RunOf
<1>5. /\ \E u \in Nat \ {0} : R = 512 * u
      /\ N \in {131072, 262144, 524288}
  BY <1>2, <1>4, MediumClass, SMT
<1> HIDE DEF R, N
<1>6. type' = "kMedium" /\ type' # "kSmall" /\ type' # "kLarge" /\ pc' \in {"count", "done"}
  BY <1>1
<1>7. ASSUME count * R % kPageSize # 0 PROVE count # 8
  <2>1. PICK u \in Nat \ {0} : R = 512 * u
    BY <1>5, SMT
  <2>2. 8 * R = kPageSize * u
    BY <2>1, Constants, SMT
  <2>3. (kPageSize * u) % kPageSize = 0
    BY Constants, SMT
  <2> QED BY <1>7, <2>2, <2>3, Zenon
<1>8. count' \in Nat /\ 8 <= count' /\ count' <= count
  BY <1>1, <1>2, <1>7, SMT
<1>9. count' * R <= N
  <2>1. R \in Nat
    BY <1>5, SMT
  <2>2. PICK c \in Nat : c = count' /\ c <= count
    BY <1>8, Zenon
  <2>3. c * R <= count * R /\ c * R \in Nat /\ count * R \in Nat
    <3>1. count \in Nat /\ c <= count
      BY <1>2, <2>2, Zenon
    <3>2. c * R <= count * R /\ c * R \in Nat
      BY <2>1, <3>1, MulMono, Zenon
    <3>3. count * R \in Nat
      BY <2>1, <3>1, SMT
    <3> QED BY <3>2, <3>3, Zenon
  <2>4. c * R <= N
    BY <1>2, <1>5, <2>3, SMT
  <2> QED BY <2>2, <2>4, Zenon
<1>10. count' * R' <= N'
  BY <1>3, <1>9, Zenon
<1> QED BY <1>1, <1>2, <1>6, <1>8, <1>10, Zenon DEF CountInv, R, N

(* From the address of a region back to its run and its index. *)
LEMMA Back ==
    ASSUME NEW N \in Nat \ {0}, NEW R \in Nat \ {0}, NEW c \in Nat, NEW s \in Nat,
           s + c * R <= N, NEW r \in Nat, NEW i \in 0 .. c - 1
    PROVE  /\ ((r * N + s) + i * R) \div N = r
           /\ (((r * N + s) + i * R) - (r * N + s)) \div R = i
<1>1. i \in Nat /\ i + 1 <= c
  BY SMT
<1>2. (i + 1) * R <= c * R /\ i * R \in Nat /\ c * R \in Nat /\ r * N \in Nat
  BY <1>1, MulMono, SMT
<1>3. (i + 1) * R = i * R + R
  BY <1>1, SMT
<1>4. s + i * R \in Nat /\ s + i * R < N
  BY <1>2, <1>3, SMT
<1>5. (r * N + (s + i * R)) \div N = r
  BY <1>4, DivUnique, Zenon
<1>6. (r * N + s) + i * R = r * N + (s + i * R)
  BY <1>2, SMT
<1>7. ((r * N + s) + i * R) - (r * N + s) = i * R + 0
  BY <1>2, SMT
<1>8. (i * R + 0) \div R = i
  BY <1>1, DivUnique, SMT
<1> QED BY <1>5, <1>6, <1>7, <1>8, Zenon

(* Every step keeps CountInv. *)
LEMMA CountStep ==
    ASSUME CountInv, [Next]_vars
    PROVE  CountInv'
<1>1. CASE UNCHANGED vars
  <2>1. size' = size /\ pc' = pc /\ type' = type /\ index' = index /\ count' = count
    BY <1>1, Zenon DEF vars
  <2>2. RegionSize' = RegionSize /\ RunSize' = RunSize
    BY <2>1, Zenon DEF RegionSize, RunSize
  <2> QED BY <2>1, <2>2, Zenon DEF CountInv
<1> QED BY <1>1, CountAcquire, CountSmall, CountMedium, Zenon DEF Next

(* The token that release finds is that of the region, in runs of any type. *)
LEMMA TokenBack ==
    ASSUME NEW s \in Nat, NEW r \in Nat, NEW i \in 0 .. count - 1, count \in Nat,
           RunSize \in Nat \ {0}, RegionSize \in Nat \ {0}, s + count * RegionSize <= RunSize,
           Start(r * RunSize) = r * RunSize + s
    PROVE  TokenOf(Address(r, i)) = <<r, i>>
<1> DEFINE N == RunSize
           R == RegionSize
           p == (r * N + s) + i * R
<1>1. Address(r, i) = p
  BY Zenon DEF Address
<1>2. p \div N = r /\ (p - (r * N + s)) \div R = i
  <2>1. PICK c \in Nat : c = count
    OBVIOUS
  <2>2. s + c * R <= N /\ i \in 0 .. c - 1 /\ N \in Nat \ {0} /\ R \in Nat \ {0}
    BY <2>1, Zenon
  <2> HIDE DEF N, R
  <2>3. PICK n \in Nat \ {0}, q \in Nat \ {0} : n = N /\ q = R
    BY <2>2, Zenon
  <2>4. s + c * q <= n
    BY <2>2, <2>3, Zenon
  <2>5. ((r * n + s) + i * q) \div n = r /\ (((r * n + s) + i * q) - (r * n + s)) \div q = i
    BY <2>2, <2>4, Back
  <2> QED BY <2>3, <2>5, Zenon
<1>3. TokenOf(p) = <<p \div N, (p - Start((p \div N) * N)) \div R>>
  BY Zenon DEF TokenOf
<1> HIDE DEF N, R, p
<1>4. Start((p \div N) * N) = r * N + s
  BY <1>2, Zenon DEF N
<1> QED BY <1>1, <1>2, <1>3, <1>4, Zenon

(* The regions of a counted small run fit. *)
LEMMA RegionsSmall ==
    ASSUME CountInv, pc = "done", type = "kSmall"
    PROVE  RegionsFit
<1> DEFINE R == RegionSize
           N == RunSize
<1>1. /\ index \in 0 .. 19 /\ count \in Nat
      /\ count * R + (24 + count) <= N /\ N <= count * R + (24 + count) + R
  BY Zenon DEF CountInv
<1>2. R = index2size(index) /\ N = RunOf(index)
  BY DEF RegionSize, RunSize, RunOf
<1>3. R \in Nat /\ 32 <= R /\ R <= 2048 /\ N \in {16384, 32768, 65536}
  BY <1>1, <1>2, SmallClass, SMT
<1>4. \A x \in Nat : Start(x) = x + N - count * R
  BY Zenon DEF Start
<1> HIDE DEF R, N
<1>5. count * R \in Nat /\ 32 * count <= count * R
  <2>1. 32 * count <= R * count /\ R * count = count * R /\ R * count \in Nat
    BY <1>1, <1>3, MulMono, SMT
  <2> QED BY <2>1, SMT
<1>6. count > 0 /\ count < 65536
  <2>1. count # 0
    BY <1>1, <1>3, SMT
  <2> QED BY <1>1, <1>3, <1>5, <2>1, SMT
<1>7. 2^16 = 65536
  BY Powers, SMT
<1>8. SmallMetaSize + count <= Start(0)
  BY <1>1, <1>3, <1>4, <1>5, SMT DEF SmallMetaSize
<1>9. SmallMetaSize + (count + 1) * (R + 1) > N
  <2>1. (count + 1) * (R + 1) = count * R + count + R + 1
    BY <1>1, <1>3, SMT
  <2> QED BY <1>1, <1>3, <1>5, <2>1, SMT DEF SmallMetaSize
<1>10. NRuns \in {64, 128, 256}
  BY <1>3, Constants, SMT DEF NRuns, N
<1>11. NRuns <= SmallRunBits /\ NRuns % 64 = 0
  BY <1>10, SMT DEF SmallRunBits
<1>12. ASSUME NEW r \in 0 .. NRuns - 1, NEW i \in 0 .. count - 1
       PROVE  TokenOf(Address(r, i)) = <<r, i>>
  <2>1. r \in Nat
    BY <1>10, SMT
  <2>2. N - count * R \in Nat /\ (N - count * R) + count * R <= N /\ N \in Nat \ {0} /\ R \in Nat \ {0}
    BY <1>1, <1>3, <1>5, SMT
  <2>3. r * N \in Nat
    BY <2>1, <2>2, SMT
  <2>4. Start(r * N) = r * N + (N - count * R)
    BY <1>4, <1>5, <2>2, <2>3, SMT
  <2> QED BY <1>1, <2>1, <2>2, <2>4, TokenBack, Zenon DEF N, R
<1>13. type # "kMedium" /\ type # "kLarge"
  OBVIOUS
<1> QED BY <1>6, <1>7, <1>8, <1>9, <1>11, <1>12, <1>13 DEF RegionsFit, R, N

(* The regions of a counted medium run fit. *)
LEMMA RegionsMedium ==
    ASSUME CountInv, pc = "done", type = "kMedium"
    PROVE  RegionsFit
<1> DEFINE R == RegionSize
           N == RunSize
<1>1. index \in 20 .. 39 /\ count \in Nat /\ 8 <= count /\ count * R <= N
  BY Zenon DEF CountInv
<1>2. R = index2size(index) /\ N = RunOf(index)
  BY DEF RegionSize, RunSize, RunOf
<1>3. /\ R \in Nat \ {0} /\ N < 52 * R
      /\ N \in {131072, 262144, 524288}
  BY <1>1, <1>2, MediumClass, SMT
<1>4. \A x \in Nat : Start(x) = x
  BY DEF Start
<1> HIDE DEF R, N
<1>5. count * R \in Nat
  BY <1>1, <1>3, SMT
<1>6. count <= 51
  <2>1. ASSUME 52 <= count PROVE FALSE
    <3>1. 52 * R <= count * R
      BY <1>1, <1>3, <2>1, MulMono, SMT
    <3> QED BY <1>1, <1>3, <1>5, <3>1, SMT
  <2> QED BY <1>1, <2>1, SMT
<1>7. 2^16 = 65536
  BY Powers, SMT
<1>8. NRuns \in {8, 16, 32}
  BY <1>3, Constants, SMT DEF NRuns, N
<1>9. ASSUME NEW r \in 0 .. NRuns - 1, NEW i \in 0 .. count - 1
      PROVE  TokenOf(Address(r, i)) = <<r, i>>
  <2>1. r \in Nat
    BY <1>8, SMT
  <2>2. 0 + count * R <= N /\ N \in Nat \ {0} /\ R \in Nat \ {0}
    BY <1>1, <1>3, <1>5, SMT
  <2>3. r * N \in Nat
    BY <2>1, <2>2, SMT
  <2>4. Start(r * N) = r * N + 0 /\ 0 \in Nat
    BY <1>4, <2>3, SMT
  <2> QED BY <1>1, <2>1, <2>2, <2>4, TokenBack, Zenon DEF N, R
<1>10. count > 0 /\ count < 2^16
  BY <1>1, <1>6, <1>7, SMT
<1>11. count <= MediumTokens /\ NRuns <= MediumRunBytes
  BY <1>6, <1>8, SMT DEF MediumTokens, MediumRunBytes
<1>12. type # "kSmall" /\ type # "kLarge"
  OBVIOUS
<1> QED BY <1>1, <1>9, <1>10, <1>11, <1>12 DEF RegionsFit, R, N

(* The regions of a large extent fit. *)
LEMMA RegionsLarge ==
    ASSUME CountInv, pc = "done", type = "kLarge"
    PROVE  RegionsFit
<1> DEFINE R == RegionSize
           N == RunSize
<1>1. index \in 0 .. 5 /\ count = kExtentSize \div R
  BY Zenon DEF CountInv
<1>2. R = 65536 * Pow(index + 1) /\ N = kExtentSize
  BY Constants, SMT DEF RegionSize, RunSize, Pow
<1>3. R \in Nat \ {0} /\ count \in 1 .. 32 /\ count * R <= kExtentSize /\ kExtentSize = 4194304
  BY <1>1, <1>2, LargeClass, Constants, SMT
<1>4. \A x \in Nat : Start(x) = x
  BY DEF Start
<1> HIDE DEF R, N
<1>5. 2^16 = 65536
  BY Powers, SMT
<1>6. NRuns = 1
  BY <1>2, <1>3, SMT DEF NRuns, N
<1>7. ASSUME NEW r \in 0 .. NRuns - 1, NEW i \in 0 .. count - 1
      PROVE  TokenOf(Address(r, i)) = <<r, i>>
  <2>1. r \in Nat /\ count \in Nat
    BY <1>3, <1>6, SMT
  <2>2. 0 + count * R <= N /\ N \in Nat \ {0} /\ R \in Nat \ {0}
    BY <1>2, <1>3, SMT
  <2>3. r * N \in Nat
    BY <2>1, <2>2, SMT
  <2>4. Start(r * N) = r * N + 0 /\ 0 \in Nat
    BY <1>4, <2>3, SMT
  <2> QED BY <2>1, <2>2, <2>4, TokenBack, Zenon DEF N, R
<1>8. count > 0 /\ count < 2^16 /\ count <= LargeTokens
  BY <1>3, <1>5, SMT DEF LargeTokens
<1>9. type # "kSmall" /\ type # "kMedium"
  OBVIOUS
<1> QED BY <1>3, <1>7, <1>8, <1>9, SMT DEF RegionsFit, R, N

(***************************************************************************)
(* In runs of every size class the regions lie behind the metadata and     *)
(* within the run, each has its token, none is wasted, and release finds   *)
(* from the address of a region the token that acquire gave it             *)
(* (small_region_count, medium_region_count, construct, small_release,     *)
(* medium_release, LargeBin::release).  CountInv is inductive.             *)
(***************************************************************************)
THEOREM EveryRegionFits == Spec => []RegionsFit
<1>1. Init => CountInv
  BY SizesAssumption DEF Init, CountInv
<1>2. CountInv /\ [Next]_vars => CountInv'
  BY CountStep, Zenon
<1>3. CountInv => RegionsFit
  <2>1. CASE pc = "done"
    BY <2>1, RegionsSmall, RegionsMedium, RegionsLarge, Zenon DEF CountInv
  <2>2. CASE pc # "done"
    BY <2>2, Zenon DEF RegionsFit
  <2> QED BY <2>1, <2>2, Zenon
<1> QED
  BY <1>1, <1>2, <1>3, PTL DEF Spec
=============================================================================
