---------------------------- MODULE MCHashStore -----------------------------
(***************************************************************************)
(* Small instances of HashStore: every key hashes to one slot of the       *)
(* version table, so that calls on different keys share a counter.         *)
(***************************************************************************)
EXTENDS HashStore, TLC

MCSlotOf == [k \in Key |-> 0]

\* The specification tells the keys apart nowhere, the threads only in a close.
Symmetry == Permutations(Thread) \union Permutations(Key)
KeySymmetry == Permutations(Key)
=============================================================================
