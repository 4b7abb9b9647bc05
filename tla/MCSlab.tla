------------------------------- MODULE MCSlab -------------------------------
(***************************************************************************)
(* Instances of Slab for TLC: two threads, in two arenas or in one.        *)
(***************************************************************************)
EXTENDS Slab, TLC

CONSTANTS t1, t2, a1, a2

TwoArenas == (t1 :> a1) @@ (t2 :> a2)
OneArena  == (t1 :> a1) @@ (t2 :> a1)
Alone     == t1 :> a1

\* Swapping the threads together with their arenas preserves TwoArenas.
Same == (t1 :> t1) @@ (t2 :> t2) @@ (a1 :> a1) @@ (a2 :> a2)
Swap == {Same, (t1 :> t2) @@ (t2 :> t1) @@ (a1 :> a2) @@ (a2 :> a1)}

\* With one arena the threads are interchangeable.
SwapThreads == {(t1 :> t1) @@ (t2 :> t2), (t1 :> t2) @@ (t2 :> t1)}
=============================================================================
