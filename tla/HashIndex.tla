----------------------------- MODULE HashIndex ------------------------------
(***************************************************************************)
(* What the hash index promises to its callers (store/hash-table.h,        *)
(* HashTable): upsert, update and lookup behave as if each took effect at  *)
(* one instant between its call and its return, and a key-value pair never *)
(* gives way to one with an older or equal version.                        *)
(***************************************************************************)
EXTENDS Naturals

CONSTANTS Thread, Key,
          MaxOps   \* bound on the calls of a behaviour; the n-th one has version n

VARIABLES map,     \* the version that the index holds for each key, 0 for none
          call,    \* the call each thread is in
          result   \* what the last call of each thread returned

Result == {"none", "kNotFound", "kExpired", "kv"}
NoCall == [op |-> "none", key |-> 0, ver |-> 0]

Init ==
    /\ map \in [Key -> 0 .. MaxOps]
    /\ call = [t \in Thread |-> NoCall]
    /\ result = [t \in Thread |-> [code |-> "none", ver |-> 0]]

Invoke(t) ==
    /\ call[t] = NoCall
    /\ \E o \in {"upsert", "update", "lookup"}, k \in Key, n \in 0 .. MaxOps :
          call' = [call EXCEPT ![t] = [op |-> o, key |-> k, ver |-> n]]
    /\ result' = [result EXCEPT ![t] = [code |-> "none", ver |-> 0]]
    /\ UNCHANGED map

\* The answer to a call on a key for which the index holds version v (0: none).
Answer(c, v) ==
    IF v = 0 THEN [code |-> "kNotFound", ver |-> 0]
    ELSE IF c.op # "lookup" /\ v >= c.ver THEN [code |-> "kExpired", ver |-> 0]
    ELSE [code |-> "kv", ver |-> v]

\* The version that the index holds after the call.
After(c, v) ==
    IF c.op = "lookup" \/ v >= c.ver \/ (c.op = "update" /\ v = 0) THEN v ELSE c.ver

Apply(t) == LET c == call[t] IN
    /\ c # NoCall
    /\ result' = [result EXCEPT ![t] = Answer(c, map[c.key])]
    /\ map' = [map EXCEPT ![c.key] = After(c, @)]
    /\ call' = [call EXCEPT ![t] = NoCall]

Next == \E t \in Thread : Invoke(t) \/ Apply(t)

Spec == Init /\ [][Next]_<<map, call, result>>
=============================================================================
