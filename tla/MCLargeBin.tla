----------------------------- MODULE MCLargeBin -----------------------------
(***************************************************************************)
(* An instance of LargeBin for TLC: two threads in two RunCases.           *)
(***************************************************************************)
EXTENDS LargeBin, TLC

CONSTANTS t1, t2, c1, c2

TwoCases == (t1 :> c1) @@ (t2 :> c2)

\* One worker whose rebuild also acquires, or two that only release: an acquire
\* beside the scan of another worker is a known disagreement (see README).
MCRecoveries == {[worker |-> {t1}, does |-> {"release", "acquire"}],
                 [worker |-> {t1, t2}, does |-> {"release"}]}
=============================================================================
