---------------------------- MODULE MCHashTable -----------------------------
(* Instances of HashTable: keys are their own hash codes. *)
EXTENDS HashTable, TLC

MCCode == [k \in Key |-> k]
MCOneBucket == [k \in Key |-> 0]

(* A directory of four entries: 1 and 3 share a segment, 0 and 2 do not. *)
MCInitLocal == [i \in 0 .. 3 |-> IF i % 2 = 1 THEN 1 ELSE 2]

(* The upserts of 0 and of 1 split the segments of 4 and of 5. *)
MCCalls == ({"upsert"} \X {0, 1, 5}) \union ({"update"} \X {0, 4}) \union ({"lookup"} \X {1, 4})
=============================================================================
