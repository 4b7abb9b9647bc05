----------------------------- MODULE ExtentPool -----------------------------
(***************************************************************************)
(* What the run cases may rely on when they acquire and release extents    *)
(* (ExtentCase, slab/extent.h): a set from which extents are handed out    *)
(* and to which they come back, and which survives closes and crashes.     *)
(* MetaHead implements it.                                                 *)
(***************************************************************************)
CONSTANT Extent

VARIABLES out,   \* extents that were handed out
          up,    \* the pool is open
          clean  \* the pool is down after a correct close
vars == <<out, up, clean>>

Init == out = {} /\ up = TRUE /\ clean = FALSE

Acquire ==
    /\ up
    /\ \E e \in Extent \ out : out' = out \union {e}
    /\ UNCHANGED <<up, clean>>

Release ==
    /\ up
    /\ \E e \in out : out' = out \ {e}
    /\ UNCHANGED <<up, clean>>

Close == up /\ up' = FALSE /\ clean' = TRUE /\ UNCHANGED out

\* A crash of the open pool, or of a reboot, which the next open then takes for the
\* first kind.
Crash ==
    \/ up /\ up' = FALSE /\ UNCHANGED <<out, clean>>
    \/ ~ up /\ clean /\ clean' = FALSE /\ UNCHANGED <<out, up>>

\* A pool that was closed comes back as it was.
Reboot == ~ up /\ clean /\ up' = TRUE /\ clean' = FALSE /\ UNCHANGED out

\* After a crash no extent is missing, and at most one is back: the one whose release
\* was interrupted.
Recover ==
    /\ ~ up /\ ~ clean /\ up' = TRUE /\ UNCHANGED clean
    /\ \E e \in Extent : out' \in {out, out \union {e}}

Next == Acquire \/ Release \/ Close \/ Crash \/ Reboot \/ Recover

Spec == Init /\ [][Next]_vars
=============================================================================
