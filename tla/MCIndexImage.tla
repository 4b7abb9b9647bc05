---------------------------- MODULE MCIndexImage ----------------------------
(***************************************************************************)
(* An instance of IndexImage for TLC: tables of four shapes, in which the  *)
(* slot of each of four keys holds a record, a tombstone or a stale one.   *)
(***************************************************************************)
EXTENDS IndexImage

\* The local depth at each entry of a directory.
Shapes == {<<0, 0>>, <<1, 1, 1, 1>>, <<2, 1, 2, 1>>, <<2, 2, 2, 2>>,
           <<1, 1, 1, 1, 1, 1, 1, 1>>}
Contents == [0 .. 3 -> {"record", "tombstone", "stale"}]

\* Keys 0 and 1 are records, to keep the number of tables small.
FewContents == {c \in Contents : c[0] # "stale" /\ c[1] = "record"}

TableOf(shape, c) ==
    LET n == Len(shape)
        depth == CHOOSE d \in 0 .. 3 : 2^d = n
        dir == [i \in 0 .. n - 1 |-> i % 2^shape[i + 1]]
    IN  [depth |-> depth, dir |-> dir,
         seg |-> [s \in {dir[i] : i \in 0 .. n - 1} |->
            [depth |-> shape[s + 1],
             bitmap |-> {k \in Slot : (k - 1) % 2^shape[s + 1] = s /\ c[k - 1] # "stale"},
             kvs |-> [k \in Slot |-> [key |-> k - 1, tombstone |-> c[k - 1] = "tombstone"]]]]]

MCTables == {TableOf(shape, c) : shape \in Shapes, c \in FewContents}
=============================================================================
