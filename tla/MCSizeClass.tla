---------------------------- MODULE MCSizeClass ----------------------------
(***************************************************************************)
(* An instance of SizeClass for TLC: every size that the table serves, the *)
(* sizes around each class above, and those around the limits.             *)
(***************************************************************************)
EXTENDS SizeClass

Edges == {index2size_compute(i) : i \in 32 .. kNSlabsCached - 1}
         \union {2^m : m \in 16 .. 22}

MCSizes == 0 .. kMaxLookupSize + 1 \union UNION {{n - 1, n, n + 1} : n \in Edges}
=============================================================================
