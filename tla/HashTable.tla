----------------------------- MODULE HashTable ------------------------------
(***************************************************************************)
(* The volatile extendible hash index (store/hash-table.h) in the          *)
(* configuration of HashStore (kOptUpdate and kTimeStamp): lock-free       *)
(* lookup and update validated by versions, upsert under the bucket lock,  *)
(* segment splits and directory doubling, by any number of threads.        *)
(*                                                                         *)
(* A VerLock is its owner, and per thread whether the version it read is   *)
(* still current: dv for the directory, bv for the bucket.  A step makes   *)
(* one access to shared memory, or several that one lock or one            *)
(* validation makes atomic.  Keys of a bucket share their tags, so the key *)
(* comparison decides.  The directory arrays are named by their depth:     *)
(* epochs keep the old ones readable.                                      *)
(***************************************************************************)
EXTENDS Integers, SequencesExt

CONSTANTS Thread, Key, None,
          Code,      \* segment_index bits of hash_code, per key
          BucketOf,  \* bucket_index of hash_code, per key
          NSlot,     \* kNSlotInBucket
          NBucket,   \* kNBucketInSegment
          InitDepth, \* the global depth of the table that the threads find
          InitLocal, \* the local depth of the segment at each of its entries
          Loaded,    \* the keys it holds, as a fast reboot has reloaded them
          MaxDepth,  \* depth at which the bits of the keys tell them apart
          Calls,     \* the calls that the threads make: operation and key
          MaxWrites  \* bound on the upserts and updates of a behaviour

Depth  == 0 .. MaxDepth
Slot   == 0 .. NSlot - 1
Bucket == 0 .. NBucket - 1

ASSUME TableAssumption ==
    /\ NSlot \in Nat \ {0} /\ NBucket \in Nat \ {0} /\ MaxWrites \in Nat
    /\ MaxDepth \in Nat /\ InitDepth \in Depth
    /\ InitLocal \in [0 .. 2^InitDepth - 1 -> 0 .. InitDepth]
    /\ \A i \in DOMAIN InitLocal : InitLocal[i % 2^InitLocal[i]] = InitLocal[i]
    /\ IsFiniteSet(Loaded) /\ Loaded \subseteq Key \intersect Nat
    /\ Calls \subseteq {"upsert", "update", "lookup"} \X Key
    /\ Code \in [Key -> Nat] /\ BucketOf \in [Key -> Bucket]

VARIABLES dlock,   \* lock_ of the table: its owner
          dir,     \* the directory arrays, by depth
          depth,   \* depth_: the depth of the current array
          seg,     \* the segments, in the order they were created
          th,      \* the locals of each thread
          clock,   \* the version of the next write
          call,    \* the call each thread is in
          result   \* what the last call of each thread returned

vars == <<dlock, dir, depth, seg, th, clock, call, result>>

segment_index(k, d) == Code[k] % 2^d

KVPair == [key : Key, ver : 1 .. MaxWrites]
NoCall == [op |-> "none", key |-> 0, ver |-> 0]
Answer(code, v) == [code |-> code, ver |-> v]

HashBucket(d) == [lock |-> None, depth |-> d, used |-> {}, kvs |-> [i \in Slot |-> None]]
HashSegment(d) == [b \in Bucket |-> HashBucket(d)]

(* The table that a fast reboot has reloaded: the first entry of each      *)
(* segment, in order; the n-th loaded key has version n, and the slots of  *)
(* a bucket are filled in that order.                                      *)
LoadedEntry == SetToSortSeq({i \in DOMAIN InitLocal : i < 2^InitLocal[i]}, <)
LoadedVersion(k) == Cardinality({l \in Loaded : l <= k})
LoadedBucket(i, b) ==
    LET order == SetToSortSeq({k \in Loaded : BucketOf[k] = b /\ segment_index(k, InitLocal[i]) = i}, <) IN
    [HashBucket(InitLocal[i]) EXCEPT
        !.used = 0 .. Len(order) - 1,
        !.kvs = [n \in Slot |->
                    IF n >= Len(order) THEN None
                    ELSE [key |-> order[n + 1], ver |-> LoadedVersion(order[n + 1])]]]

Local ==
    [pc |-> "idle", dv |-> FALSE, global |-> 0, seg |-> 0, bv |-> FALSE, mask |-> {},
     old |-> None, local |-> 0, locked |-> 0, bid |-> 0, right |-> 0]

Init ==
    /\ dlock = None /\ depth = InitDepth /\ clock = Cardinality(Loaded) + 1
    /\ dir = [d \in Depth |-> [i \in 0 .. 2^d - 1 |->
                                  IF d # InitDepth THEN 0
                                  ELSE CHOOSE n \in DOMAIN LoadedEntry :
                                          LoadedEntry[n] = i % 2^InitLocal[i]]]
    /\ seg = [n \in DOMAIN LoadedEntry |-> [b \in Bucket |-> LoadedBucket(LoadedEntry[n], b)]]
    /\ th = [t \in Thread |-> Local]
    /\ call = [t \in Thread |-> NoCall]
    /\ result = [t \in Thread |-> Answer("none", 0)]
-----------------------------------------------------------------------------
(* The bucket of the call of t in segment s, and its entry in the directory. *)
key(t) == call[t].key
bucket(t) == seg[th[t].seg][BucketOf[key(t)]]
Entry(t) == dir[th[t].global][segment_index(key(t), th[t].global)]

(* A thread starts its loop over. *)
Restart(t) == [th EXCEPT ![t] = [Local EXCEPT !.pc = "dir"]]

(* lock_exclusive on a bucket: the versions read of it are stale. *)
Stale(ths, s, b) ==
    [u \in Thread |->
        IF ths[u].seg = s /\ BucketOf[key(u)] = b THEN [ths[u] EXCEPT !.bv = FALSE]
        ELSE ths[u]]

Owned(s, b, t) == [seg EXCEPT ![s][b].lock = t]
Unlock(segs, s, b) == [segs EXCEPT ![s][b].lock = None]

(* The call returns; upsert drops the lock on its bucket. *)
Return(t, answer, segs) ==
    /\ result' = [result EXCEPT ![t] = answer]
    /\ call' = [call EXCEPT ![t] = NoCall]
    /\ th' = [th EXCEPT ![t] = Local]
    /\ seg' = IF call[t].op = "upsert" THEN Unlock(segs, th[t].seg, BucketOf[key(t)])
              ELSE segs
    /\ UNCHANGED <<dlock, dir, depth, clock>>

Invoke(t, o, k) ==
    /\ th[t].pc = "idle"
    /\ o # "lookup" => clock <= MaxWrites
    /\ call' = [call EXCEPT ![t] = [op |-> o, key |-> k,
                                    ver |-> IF o = "lookup" THEN 0 ELSE clock]]
    /\ clock' = IF o = "lookup" THEN clock ELSE clock + 1
    /\ result' = [result EXCEPT ![t] = Answer("none", 0)]
    /\ th' = Restart(t)
    /\ UNCHANGED <<dlock, dir, depth, seg>>

(* dir_ and depth_, validated. *)
ReadDir(t) ==
    /\ th[t].pc = "dir" /\ dlock = None
    /\ th' = [th EXCEPT ![t].pc = "seg", ![t].dv = TRUE, ![t].global = depth]
    /\ UNCHANGED <<dlock, dir, depth, seg, clock, call, result>>

ReadSegment(t) ==
    /\ th[t].pc = "seg"
    /\ th' = [th EXCEPT ![t].seg = Entry(t),
                        ![t].pc = IF call[t].op = "upsert" THEN "lock" ELSE "share"]
    /\ UNCHANGED <<dlock, dir, depth, seg, clock, call, result>>

(* lock_shared on the bucket: update and lookup. *)
LockShared(t) ==
    /\ th[t].pc = "share" /\ bucket(t).lock = None
    /\ th' = [th EXCEPT ![t].pc = "valid", ![t].bv = TRUE]
    /\ UNCHANGED <<dlock, dir, depth, seg, clock, call, result>>

(* lock_exclusive on the bucket: upsert. *)
LockExclusive(t) ==
    /\ th[t].pc = "lock" /\ bucket(t).lock = None
    /\ seg' = Owned(th[t].seg, BucketOf[key(t)], t)
    /\ th' = Stale([th EXCEPT ![t].pc = "valid"], th[t].seg, BucketOf[key(t)])
    /\ UNCHANGED <<dlock, dir, depth, clock, call, result>>

\* Mutant of Validate: upsert goes on with a directory that has changed.
ValidateNever(t) ==
    /\ th[t].pc = "valid"
    /\ th' = [th EXCEPT ![t].pc = IF call[t].op = "upsert" THEN "put" ELSE "mask"]
    /\ UNCHANGED <<dlock, dir, depth, seg, clock, call, result>>

(* lock_.unlock_shared(version): the bucket is the right one, or try again. *)
Validate(t) ==
    /\ th[t].pc = "valid"
    /\ th' = IF th[t].dv THEN [th EXCEPT ![t].pc = IF call[t].op = "upsert" THEN "put" ELSE "mask"]
             ELSE Restart(t)
    /\ seg' = IF ~th[t].dv /\ call[t].op = "upsert"
              THEN Unlock(seg, th[t].seg, BucketOf[key(t)]) ELSE seg
    /\ UNCHANGED <<dlock, dir, depth, clock, call, result>>
-----------------------------------------------------------------------------
(* lookup and update without the lock. *)

Mask(t) ==
    /\ th[t].pc = "mask"
    /\ th' = [th EXCEPT ![t].pc = "scan", ![t].mask = bucket(t).used]
    /\ UNCHANGED <<dlock, dir, depth, seg, clock, call, result>>

(* Load one slot: the key is there, or go on with the next. *)
Scan(t) ==
    LET kv == bucket(t).kvs[Min(th[t].mask)]
        hit == kv # None /\ kv.key = key(t) IN
    /\ th[t].pc = "scan" /\ th[t].mask # {}
    /\ \/ /\ hit /\ call[t].op = "lookup"
          /\ Return(t, Answer("kv", kv.ver), seg)
       \/ /\ ~(hit /\ call[t].op = "lookup")
          /\ th' = IF hit THEN [th EXCEPT ![t].pc = "cas", ![t].old = kv]
                   ELSE [th EXCEPT ![t].mask = @ \ {Min(@)}]
          /\ UNCHANGED <<dlock, dir, depth, seg, clock, call, result>>

\* Mutant of NotFound: the version of the bucket is not checked.
NotFoundUnchecked(t) ==
    /\ th[t].pc = "scan" /\ th[t].mask = {}
    /\ Return(t, Answer("kNotFound", 0), seg)

(* No slot has the key: it does not exist, unless the bucket has changed. *)
NotFound(t) ==
    /\ th[t].pc = "scan" /\ th[t].mask = {}
    /\ \/ th[t].bv /\ Return(t, Answer("kNotFound", 0), seg)
       \/ /\ ~th[t].bv /\ th' = Restart(t)
          /\ UNCHANGED <<dlock, dir, depth, seg, clock, call, result>>

(* compare_exchange_strong on the slot that held old. *)
CompareExchange(t) ==
    LET i == Min(th[t].mask)
        b == BucketOf[key(t)]
        old == th[t].old
        now == bucket(t).kvs[i] IN
    /\ th[t].pc = "cas"
    /\ \/ /\ old.ver >= call[t].ver
          /\ Return(t, Answer("kExpired", 0), seg)
       \/ /\ old.ver < call[t].ver /\ now = old
          /\ Return(t, Answer("kv", old.ver),
                    [seg EXCEPT ![th[t].seg][b].kvs[i] = [key |-> key(t), ver |-> call[t].ver]])
       \/ /\ old.ver < call[t].ver /\ now # old
          /\ th' = IF now # None /\ now.key = key(t) THEN [th EXCEPT ![t].old = now]
                   ELSE [th EXCEPT ![t].pc = "scan", ![t].old = None, ![t].mask = @ \ {i}]
          /\ UNCHANGED <<dlock, dir, depth, seg, clock, call, result>>
-----------------------------------------------------------------------------
(* upsert, under the lock of the bucket. *)

Hits(t) == {i \in bucket(t).used : bucket(t).kvs[i].key = key(t)}

(* The key exists: swap its slot. *)
PutOld(t) ==
    /\ th[t].pc = "put" /\ Hits(t) # {}
    /\ th' = [th EXCEPT ![t].pc = "cas", ![t].mask = {Min(Hits(t))},
                        ![t].old = bucket(t).kvs[Min(Hits(t))]]
    /\ UNCHANGED <<dlock, dir, depth, seg, clock, call, result>>

(* A new key: store it in an empty slot, then set its bit. *)
PutNew(t) ==
    /\ th[t].pc = "put" /\ Hits(t) = {} /\ bucket(t).used # Slot
    /\ LET i == Min(Slot \ bucket(t).used) IN
          /\ seg' = [seg EXCEPT ![th[t].seg][BucketOf[key(t)]].kvs[i] =
                                   [key |-> key(t), ver |-> call[t].ver]]
          /\ th' = [th EXCEPT ![t].pc = "bit", ![t].mask = {i}]
    /\ UNCHANGED <<dlock, dir, depth, clock, call, result>>

SetBit(t) ==
    /\ th[t].pc = "bit"
    /\ Return(t, Answer("kNotFound", 0),
              [seg EXCEPT ![th[t].seg][BucketOf[key(t)]].used = @ \union th[t].mask])

(* kNoSpace: remember the local depth and drop the lock. *)
PutFull(t) ==
    /\ th[t].pc = "put" /\ Hits(t) = {} /\ bucket(t).used = Slot
    /\ seg' = Unlock(seg, th[t].seg, BucketOf[key(t)])
    /\ th' = [th EXCEPT ![t].pc = "full", ![t].local = bucket(t).depth]
    /\ UNCHANGED <<dlock, dir, depth, clock, call, result>>

(* segment_guard on dir[index]: all buckets of the segment, in order. *)
SegmentGuard(t) ==
    /\ th[t].pc = "full"
    /\ th' = [th EXCEPT ![t].pc = "slock", ![t].locked = Entry(t), ![t].bid = 0]
    /\ UNCHANGED <<dlock, dir, depth, seg, clock, call, result>>

SegmentLock(t) ==
    LET s == th[t].locked  b == th[t].bid IN
    /\ th[t].pc = "slock" /\ b < NBucket /\ seg[s][b].lock = None
    /\ seg' = Owned(s, b, t)
    /\ th' = Stale([th EXCEPT ![t].bid = b + 1], s, b)
    /\ UNCHANGED <<dlock, dir, depth, clock, call, result>>

\* Mutant of SegmentCheck: the depth after the split is expected before it.
SegmentCheckOffByOne(t) ==
    /\ th[t].pc = "slock" /\ th[t].bid = NBucket
    /\ seg[Entry(t)][0].depth # th[t].local + 1
    /\ th' = [th EXCEPT ![t].pc = "sunlock", ![t].bid = 0]
    /\ UNCHANGED <<dlock, dir, depth, seg, clock, call, result>>

\* Mutant of SegmentCheck: a second thread splits the segment again.
SegmentNotChecked(t) ==
    /\ th[t].pc = "slock" /\ th[t].bid = NBucket
    /\ seg' = Append(seg, HashSegment(th[t].local + 1))
    /\ th' = [th EXCEPT ![t].pc = "split", ![t].bid = 0, ![t].seg = Entry(t),
                        ![t].right = Len(seg) + 1]
    /\ UNCHANGED <<dlock, dir, depth, clock, call, result>>

(* dir[index]->depth() != local: another thread has split the segment. *)
SegmentCheck(t) ==
    /\ th[t].pc = "slock" /\ th[t].bid = NBucket
    /\ \/ /\ seg[Entry(t)][0].depth # th[t].local
          /\ th' = [th EXCEPT ![t].pc = "sunlock", ![t].bid = 0]
          /\ UNCHANGED seg
       \/ /\ seg[Entry(t)][0].depth = th[t].local
          /\ seg' = Append(seg, HashSegment(th[t].local + 1))
          /\ th' = [th EXCEPT ![t].pc = "split", ![t].bid = 0, ![t].seg = Entry(t),
                              ![t].right = Len(seg) + 1]
    /\ UNCHANGED <<dlock, dir, depth, clock, call, result>>

(* The slots of the current bucket that are still to be moved. *)
Moving(t) ==
    LET left == seg[th[t].seg][th[t].bid] IN
    {i \in left.used : left.kvs[i] # None /\ (Code[left.kvs[i].key] \div 2^th[t].local) % 2 = 1}

(* HashBucket(HashBucket&& left): exchange one slot with null ... *)
SplitSlot(t) ==
    LET s == th[t].seg  r == th[t].right  b == th[t].bid  i == Min(Moving(t)) IN
    /\ th[t].pc = "split" /\ b < NBucket /\ Moving(t) # {}
    /\ seg' = [seg EXCEPT ![s][b].kvs[i] = None,
                          ![r][b].kvs[i] = seg[s][b].kvs[i], ![r][b].used = @ \union {i}]
    /\ UNCHANGED <<dlock, dir, depth, th, clock, call, result>>

(* ... then take the moved slots out of the left bucket. *)
SplitBucket(t) ==
    LET s == th[t].seg  b == th[t].bid IN
    /\ th[t].pc = "split" /\ b < NBucket /\ Moving(t) = {}
    /\ seg' = [seg EXCEPT ![s][b].used = @ \ seg[th[t].right][b].used, ![s][b].depth = @ + 1]
    /\ th' = [th EXCEPT ![t].bid = b + 1]
    /\ UNCHANGED <<dlock, dir, depth, clock, call, result>>

DirectoryLock(t) ==
    /\ th[t].pc = "split" /\ th[t].bid = NBucket /\ dlock = None
    /\ dlock' = t
    /\ th' = [u \in Thread |-> IF u = t THEN [th[u] EXCEPT !.pc = "dirw", !.dv = FALSE]
                               ELSE [th[u] EXCEPT !.dv = FALSE]]
    /\ UNCHANGED <<dir, depth, seg, clock, call, result>>

\* Mutant of DirectoryWrite: doubling is decided by the depth read before the locks.
DirectoryWriteStale(t) ==
    LET local == th[t].local
        global == IF local = th[t].global THEN local + 1 ELSE depth
        offset == segment_index(key(t), local) + 2^local IN
    /\ th[t].pc = "dirw"
    /\ depth' = global
    /\ dir' = [dir EXCEPT ![global] =
                  [i \in 0 .. 2^global - 1 |->
                      IF i % 2^(local + 1) = offset THEN th[t].right
                      ELSE dir[th[t].global][i % 2^th[t].global]]]
    /\ dlock' = None
    /\ th' = [th EXCEPT ![t].pc = "sunlock", ![t].bid = 0]
    /\ UNCHANGED <<seg, clock, call, result>>

(* Double the directory if needed, put the right segment into it, unlock. *)
DirectoryWrite(t) ==
    LET local == th[t].local
        global == IF local = depth THEN depth + 1 ELSE depth
        offset == segment_index(key(t), local) + 2^local IN
    /\ th[t].pc = "dirw"
    /\ depth' = global
    /\ dir' = [dir EXCEPT ![global] =
                  [i \in 0 .. 2^global - 1 |->
                      IF i % 2^(local + 1) = offset THEN th[t].right ELSE dir[depth][i % 2^depth]]]
    /\ dlock' = None
    /\ th' = [th EXCEPT ![t].pc = "sunlock", ![t].bid = 0]
    /\ UNCHANGED <<seg, clock, call, result>>

SegmentUnlock(t) ==
    LET b == th[t].bid IN
    /\ th[t].pc = "sunlock"
    /\ seg' = Unlock(seg, th[t].locked, b)
    /\ th' = IF b + 1 < NBucket THEN [th EXCEPT ![t].bid = b + 1] ELSE Restart(t)
    /\ UNCHANGED <<dlock, dir, depth, clock, call, result>>
-----------------------------------------------------------------------------
Step(t) ==
    \/ ReadDir(t) \/ ReadSegment(t) \/ LockShared(t) \/ LockExclusive(t) \/ Validate(t)
    \/ Mask(t) \/ Scan(t) \/ NotFound(t) \/ CompareExchange(t)
    \/ PutOld(t) \/ PutNew(t) \/ SetBit(t) \/ PutFull(t)
    \/ SegmentGuard(t) \/ SegmentLock(t) \/ SegmentCheck(t) \/ SplitSlot(t) \/ SplitBucket(t)
    \/ DirectoryLock(t) \/ DirectoryWrite(t) \/ SegmentUnlock(t)

Next == \E t \in Thread :
    \/ \E c \in Calls : Invoke(t, c[1], c[2])
    \/ Step(t)

Spec == Init /\ [][Next]_vars

(* Every thread in a call is scheduled again and again. *)
FairSpec == Spec /\ \A t \in Thread : WF_vars(Step(t))
-----------------------------------------------------------------------------
Holders(k) ==
    {<<s, b, i>> \in (1 .. Len(seg)) \X Bucket \X Slot :
        /\ seg[s][b].kvs[i] # None /\ seg[s][b].kvs[i].key = k
        /\ \/ i \in seg[s][b].used
           \/ \E t \in Thread : th[t].pc = "bit" /\ th[t].seg = s /\ th[t].mask = {i}
                                /\ BucketOf[key(t)] = b}

(* A key is in one slot of the table at most, and between splits in the    *)
(* segment to which the directory leads: the second of two threads that    *)
(* find the same bucket full never splits or inserts on a stale view.      *)
OneSlot ==
    \A k \in Key :
        /\ Cardinality(Holders(k)) <= 1
        /\ \A h \in Holders(k) :
              \/ h[1] = dir[depth][segment_index(k, depth)]
              \/ \E t \in Thread : th[t].pc \in {"split", "dirw"} /\ th[t].right = h[1]

(* The directory is that of extendible hashing: two entries share a        *)
(* segment exactly when they agree on its local depth of bits, whatever    *)
(* the order in which splits and doublings were done.                      *)
DirectoryShape ==
    (\A t \in Thread : th[t].pc \notin {"split", "dirw"}) =>
        \A i, j \in 0 .. 2^depth - 1 :
            LET d == seg[dir[depth][i]][0].depth IN
            /\ d <= depth
            /\ (dir[depth][i] = dir[depth][j]) <=> (i % 2^d = j % 2^d)

(* assert(left.lock().locked()) (hash-table.h:146): the segment that       *)
(* dir[index]->split() splits, read again from a directory array that may  *)
(* have been replaced, is the one that the thread has locked.              *)
SplitOwnsLeft ==
    \A t \in Thread : th[t].pc \in {"split", "dirw"} =>
        /\ \A b \in Bucket : seg[th[t].seg][b].lock = t
        /\ th[t].local <= depth

(* Every call returns: retries end once the writers have finished.         *)
CallsReturn == \A t \in Thread : call[t] # NoCall ~> call[t] = NoCall

(* The table is an atomic map: upsert takes effect when its slot is        *)
(* stored, update and lookup at the load or exchange that finds the key,   *)
(* or at the validation that no bucket change was missed.                  *)
AbstractMap ==
    [k \in Key |->
        IF Holders(k) = {} THEN 0
        ELSE LET h == CHOOSE x \in Holders(k) : TRUE IN seg[h[1]][h[2]].kvs[h[3]].ver]

Index == INSTANCE HashIndex WITH
    map <- AbstractMap,
    MaxOps <- MaxWrites,
    call <- [t \in Thread |-> IF th[t].pc = "bit" THEN NoCall ELSE call[t]],
    result <- [t \in Thread |-> IF th[t].pc = "bit" THEN Answer("kNotFound", 0) ELSE result[t]]

Linearizable == Index!Spec
=============================================================================
