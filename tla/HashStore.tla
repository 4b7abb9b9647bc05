----------------------------- MODULE HashStore ------------------------------
(***************************************************************************)
(* The life of a record in the key-value store (store/hash-store.h): how   *)
(* upsert, update and remove write it to persistent memory, how the        *)
(* volatile index and the epoch reclaimer hand it on, how garbage records  *)
(* are reused without a log, and what recovery and close make of it.       *)
(*                                                                         *)
(* A record has two cache lines, hdr (ctrl word and key) and body (value), *)
(* or a single one that holds both (OneLine).  phdr and pbody are what the *)
(* lines hold after a crash; a dirty line may be written back at any time. *)
(* A store followed at once by the flush of its only dirty line is a step. *)
(*                                                                         *)
(* The index is used through its atomic operations, the slab allocator as  *)
(* a set of free regions with a persistent token each (busy), and the      *)
(* epoch as the rule that a retired closure runs once every guard that was *)
(* active at retire has ended; every call holds a guard while it runs, as  *)
(* in test/libs/libslabstore.cpp.                                          *)
(***************************************************************************)
EXTENDS Integers, Sequences, FiniteSets

CONSTANTS Thread, Key, Record,
          None,          \* no key, no record
          OneLine,       \* the records that fit in one cache line
          SlotOf,        \* code % N: the slot of the version table of a key
          MaxLimbo,      \* kMaxLimboSize
          ReclaimTomb,   \* kReclaimTomb, in tombstones
          Ops,           \* the operations that clients call
          MissingKeys,   \* the operations that clients call on absent keys
          Faults,        \* what may happen: "crash", "close"
          MaxWrites,     \* bound on the writes of a behaviour
          LateWrites     \* the writes of clients after a recovery, see MayWrite

ASSUME RecordAssumption == OneLine \subseteq Record /\ None \notin Record
ASSUME ThreadAssumption == Thread # {}
ASSUME LimitAssumption ==
    MaxLimbo \in Nat /\ ReclaimTomb \in Nat /\ MaxWrites \in Nat
ASSUME OpAssumption ==
    /\ Ops \subseteq {"upsert", "update", "remove"}
    /\ MissingKeys \subseteq {"upsert", "update", "remove"}
    /\ LateWrites \in {"none", "fresh", "any"}
    /\ Faults \subseteq {"crash", "close"}

VARIABLES hdr, body, phdr, pbody, \* the lines of each record, and their durable copies
          busy,      \* records whose persistent token is hired
          free,      \* regions the allocator may hand out
          index,     \* for each key, the records in the slots tagged for it
          version,   \* version_
          limbo,     \* lists_ of each thread's ThreadLimbo
          retired,   \* closures waiting in the epoch
          th,        \* the call each thread is in
          mode,      \* what the process is doing with the store
          todo,      \* records that recovery or close has still to visit
          tomb,      \* tomb_size_, in tombstones
          issued,    \* every write issued; the n-th one writes the value n
          acked,     \* for each key, the newest write that returned
          recovered  \* the store was rebuilt after a crash

vars == <<hdr, body, phdr, pbody, busy, free, index, version, limbo, retired, th,
          mode, todo, tomb, issued, acked, recovered>>
lines == <<hdr, body, phdr, pbody>>
volatile == <<index, version, limbo, retired, tomb>>
ghosts == <<issued, acked, recovered>>

Slot == {SlotOf[k] : k \in Key}
Value == Nat                                   \* 0: the value of a tombstone
Header == [inv : BOOLEAN, tomb : BOOLEAN, ver : Nat, key : Key \union {None}]
Write == [key : Key, ver : Nat, tomb : BOOLEAN, val : Value]
Call == [pc : {"idle", "acquire", "write", "publish", "invalidate", "rewrite", "flush",
               "control", "index", "read", "drop", "retire", "load", "cas"},
         op : {"upsert", "update", "remove", "lookup"}, key : Key \union {None},
         ver : Nat, val : Value, rec : Record \union {None}]
Mode == {"open", "recover", "closing", "clearing", "unload", "closed"}
Closure == [rec : Record, waits : SUBSET Thread, to : {"limbo", "slab"}]

IdleCall == [pc |-> "idle", op |-> "lookup", key |-> None, ver |-> 0, val |-> 0,
             rec |-> None]
Blank == [inv |-> FALSE, tomb |-> FALSE, ver |-> 0, key |-> None]

Active == {t \in Thread : th[t].pc # "idle"}
Running == mode = "open"

\* The write that a record holds.  make_kv leaves the bytes of a tombstone's value.
Content(h, b) == [key |-> h.key, ver |-> h.ver, tomb |-> h.tomb,
                  val |-> IF h.tomb THEN 0 ELSE b]

\* The write that a call makes.
Intent(c) == [key |-> c.key, ver |-> c.ver, tomb |-> c.op = "remove", val |-> c.val]

\* HashBucket compares the tag of the slot and the key of the record it holds.
Found(k) == {r \in index[k] : hdr[r].key = k}

Limboed(t) == {limbo[t][i] : i \in DOMAIN limbo[t]}

Init ==
    /\ hdr = [r \in Record |-> Blank]
    /\ body = [r \in Record |-> 0]
    /\ phdr = hdr /\ pbody = body
    /\ busy = {} /\ free = Record
    /\ index = [k \in Key |-> {}]
    /\ version = [s \in Slot |-> 0]
    /\ limbo = [t \in Thread |-> <<>>]
    /\ retired = {}
    /\ th = [t \in Thread |-> IdleCall]
    /\ mode = "open" /\ todo = {} /\ tomb = 0
    /\ issued = {} /\ acked = [k \in Key |-> {}] /\ recovered = FALSE
-----------------------------------------------------------------------------
(***************************************************************************)
(* A call of upsert, update or remove up to the index.                     *)
(***************************************************************************)

\* The writes of clients to key k after a recovery: "fresh" ones get a version above
\* that of every write that returned; of the others README.md says that they are lost.
MayWrite(k) ==
    \/ ~recovered \/ LateWrites = "any"
    \/ LateWrites = "fresh" /\ \A a \in acked[k] : a.ver < version[SlotOf[k]]

\* The client takes an epoch guard; the call fetches a version.
Begin(t, o, k) ==
    /\ Running /\ th[t].pc = "idle" /\ o \in Ops
    /\ Cardinality(issued) < MaxWrites
    /\ MayWrite(k)
    /\ o \in {"update", "remove"} \ MissingKeys => Found(k) # {}
    /\ LET c == [pc |-> "acquire", op |-> o, key |-> k, ver |-> version[SlotOf[k]],
                 val |-> IF o = "remove" THEN 0 ELSE Cardinality(issued) + 1, rec |-> None]
       IN  th' = [th EXCEPT ![t] = c] /\ issued' = issued \union {Intent(c)}
    /\ version' = [version EXCEPT ![SlotOf[k]] = @ + 1]
    /\ UNCHANGED <<lines, busy, free, index, limbo, retired, mode, todo, tomb, acked, recovered>>

\* thread_limbo().acquire(kv_len), else slab_.acquire(kv_len).
Acquired(t) ==
    IF limbo[t] # <<>> THEN {[rec |-> Head(limbo[t]), pc |-> "invalidate"]}
                       ELSE {[rec |-> r, pc |-> "write"] : r \in free}

\* Mutant of Acquire: ThreadLimbo::acquire returns the front without popping it.
AcquireNoPop(t) ==
    /\ Running /\ th[t].pc = "acquire"
    /\ \E a \in Acquired(t) :
          /\ th' = [th EXCEPT ![t].pc = a.pc, ![t].rec = a.rec]
          /\ free' = free \ {a.rec}
    /\ UNCHANGED <<lines, busy, volatile, mode, todo, ghosts>>

\* ... and a record.  When the pool is full the call writes through a null pointer: a Crash.
Acquire(t) ==
    /\ Running /\ th[t].pc = "acquire"
    /\ \E a \in Acquired(t) :
          /\ th' = [th EXCEPT ![t].pc = a.pc, ![t].rec = a.rec]
          /\ limbo' = IF a.pc = "write" THEN limbo ELSE [limbo EXCEPT ![t] = Tail(@)]
          /\ free' = free \ {a.rec}
    /\ UNCHANGED <<lines, busy, index, version, retired, tomb, mode, todo, ghosts>>

Step(t, from, to) ==
    /\ Running /\ th[t].pc = from
    /\ th' = [th EXCEPT ![t].pc = to]
    /\ UNCHANGED <<busy, free, volatile, mode, todo, ghosts>>

FlushHeader(r) == phdr' = [phdr EXCEPT ![r] = hdr'[r]]
FlushBody(r) == pbody' = [pbody EXCEPT ![r] = body'[r]]
StoredValue(c) == IF c.op = "remove" THEN body[c.rec] ELSE c.val

\* A new region: make_kv, set_control, one wait_write_back of the whole record.
WriteNew(t) == LET c == th[t] r == th[t].rec IN
    /\ Step(t, "write", "publish")
    /\ hdr' = [hdr EXCEPT ![r] = [inv |-> FALSE, tomb |-> c.op = "remove",
                                  ver |-> c.ver, key |-> c.key]]
    /\ body' = [body EXCEPT ![r] = StoredValue(c)]
    /\ FlushHeader(r) /\ FlushBody(r)

\* Mutant of Publish: the token is hired but not written back.
PublishNoFlush(t) == Step(t, "publish", "index") /\ UNCHANGED lines

\* obj.publish(true, 0, true): the token is hired and written back.
Publish(t) ==
    /\ Running /\ th[t].pc = "publish"
    /\ th' = [th EXCEPT ![t].pc = "index"]
    /\ busy' = busy \union {th[t].rec}
    /\ UNCHANGED <<lines, free, volatile, mode, todo, ghosts>>

\* A garbage record: invalidate(), written back unless the record is one line.
Invalidate(t) == LET r == th[t].rec IN
    /\ Step(t, "invalidate", "rewrite")
    /\ hdr' = [hdr EXCEPT ![r].inv = TRUE, ![r].tomb = FALSE, ![r].ver = 0]
    /\ IF r \in OneLine THEN UNCHANGED phdr ELSE FlushHeader(r)
    /\ UNCHANGED <<body, pbody>>

\* Mutant of Rewrite: set_control follows at once, without the write-back between.
RewriteNoFlush(t) == LET c == th[t] r == th[t].rec IN
    /\ Step(t, "rewrite", "control")
    /\ hdr' = [hdr EXCEPT ![r].key = c.key]
    /\ body' = [body EXCEPT ![r] = StoredValue(c)]
    /\ UNCHANGED <<phdr, pbody>>

\* make_kv into the invalid record.
Rewrite(t) == LET c == th[t] r == th[t].rec IN
    /\ Step(t, "rewrite", IF r \in OneLine THEN "control" ELSE "flush")
    /\ hdr' = [hdr EXCEPT ![r].key = c.key]
    /\ body' = [body EXCEPT ![r] = StoredValue(c)]
    /\ UNCHANGED <<phdr, pbody>>

\* if(!same) wait_write_back(kv, kv_len).
FlushRecord(t) == LET r == th[t].rec IN
    /\ Step(t, "flush", "control")
    /\ UNCHANGED <<hdr, body>>
    /\ FlushHeader(r) /\ FlushBody(r)

\* set_control, then the write-back of the line or lines it makes valid.
SetControl(t) == LET c == th[t] r == th[t].rec IN
    /\ Step(t, "control", "index")
    /\ hdr' = [hdr EXCEPT ![r].inv = FALSE, ![r].tomb = c.op = "remove", ![r].ver = c.ver]
    /\ UNCHANGED body
    /\ FlushHeader(r)
    /\ IF r \in OneLine THEN FlushBody(r) ELSE UNCHANGED pbody
-----------------------------------------------------------------------------
(***************************************************************************)
(* The index operation of a call, what becomes of the records, the return. *)
(* The client drops its epoch guard with the call.                         *)
(***************************************************************************)

\* slab_.release: the token is fired and written back, the region is free.
SlabRelease(rs) == busy' = busy \ rs /\ free' = free \union rs

\* ThreadLimbo::release.
LimboRelease(t, r) ==
    IF Len(limbo[t]) < MaxLimbo
    THEN limbo' = [limbo EXCEPT ![t] = Append(@, r)] /\ UNCHANGED <<busy, free>>
    ELSE SlabRelease({r}) /\ UNCHANGED limbo

\* The closures of the epoch once thread t has left it.
Left(t) == {[x EXCEPT !.waits = @ \ {t}] : x \in retired}

\* Mutant of Closures: the closure waits for no guard.
ClosuresAtOnce(t, r) ==
    Left(t) \union {[rec |-> r, waits |-> {}, to |-> "limbo"]}

\* get_epoch().retire: the closure waits for the other guards that are active.
Closures(t, r) ==
    Left(t) \union {[rec |-> r, waits |-> Active \ {t}, to |-> "limbo"]}

\* The newest write to its key that returned.
Acknowledged(w) ==
    IF \E a \in acked[w.key] : a.ver > w.ver THEN acked
    ELSE [acked EXCEPT ![w.key] = {w}]

Return(t) ==
    /\ Running /\ th[t].pc = "index"
    /\ th' = [th EXCEPT ![t] = IdleCall]
    /\ tomb' = IF th[t].op = "remove" THEN tomb + 1 ELSE tomb
    /\ UNCHANGED <<lines, version, mode, todo, issued, recovered>>

\* kNotFound of HashBucket::upsert: the record takes a slot of the index.
Insert(t) == LET c == th[t] IN
    /\ Return(t) /\ c.op # "update" /\ Found(c.key) = {}
    /\ index' = [index EXCEPT ![c.key] = @ \union {c.rec}]
    /\ retired' = Left(t)
    /\ IF c.op = "remove"
       THEN LimboRelease(t, c.rec) /\ UNCHANGED acked
       ELSE acked' = Acknowledged(Intent(c)) /\ UNCHANGED <<limbo, busy, free>>

\* kNotFound of HashBucket::update: the call returns false.
UpdateMissing(t) == LET c == th[t] IN
    /\ Return(t) /\ c.op = "update" /\ Found(c.key) = {}
    /\ retired' = Left(t)
    /\ LimboRelease(t, c.rec)
    /\ UNCHANGED <<index, acked>>

\* Mutant of Expire: the expired record is forgotten.
ExpireDropped(t) == LET c == th[t] IN
    /\ Return(t)
    /\ \E old \in Found(c.key) : hdr[old].ver >= hdr[c.rec].ver
    /\ retired' = Left(t)
    /\ acked' = Acknowledged(Intent(c))
    /\ UNCHANGED <<index, limbo, busy, free>>

\* kExpired: the index has this version or a newer one; the new record is retired.
Expire(t) == LET c == th[t] IN
    /\ Return(t)
    /\ \E old \in Found(c.key) : hdr[old].ver >= hdr[c.rec].ver
    /\ retired' = Closures(t, c.rec)
    /\ acked' = Acknowledged(Intent(c))
    /\ UNCHANGED <<index, limbo, busy, free>>

\* Mutant of Replace: the slot is swung whatever the versions are.
ReplaceAlways(t) == LET c == th[t] IN
    /\ Return(t)
    /\ \E old \in Found(c.key) :
          /\ index' = [index EXCEPT ![c.key] = (@ \ {old}) \union {c.rec}]
          /\ retired' = Closures(t, old)
    /\ acked' = Acknowledged(Intent(c))
    /\ UNCHANGED <<limbo, busy, free>>

\* The slot is swung to the new record and the old one is retired.
Replace(t) == LET c == th[t] IN
    /\ Return(t)
    /\ \E old \in Found(c.key) :
          /\ hdr[old].ver < hdr[c.rec].ver
          /\ index' = [index EXCEPT ![c.key] = (@ \ {old}) \union {c.rec}]
          /\ retired' = Closures(t, old)
    /\ acked' = Acknowledged(Intent(c))
    /\ UNCHANGED <<limbo, busy, free>>

\* lookup returns a record, which its caller reads under the guard.
Lookup(t, k) ==
    /\ Running /\ th[t].pc = "idle"
    /\ \E r \in Found(k) :
          /\ ~hdr[r].tomb
          /\ th' = [th EXCEPT ![t] = [IdleCall EXCEPT !.pc = "read", !.key = k,
                                         !.rec = r, !.ver = hdr[r].ver, !.val = body[r]]]
    /\ UNCHANGED <<lines, busy, free, volatile, mode, todo, ghosts>>

ReadDone(t) ==
    /\ Running /\ th[t].pc = "read"
    /\ th' = [th EXCEPT ![t] = IdleCall]
    /\ retired' = Left(t)
    /\ UNCHANGED <<lines, busy, free, index, version, limbo, tomb, mode, todo, ghosts>>

\* The epoch runs a closure in thread t, between two calls or two records of a scan.
Reclaim(t, x) ==
    /\ mode \in {"open", "recover"} /\ th[t].pc = "idle" /\ x.waits = {}
    /\ retired' = retired \ {x}
    /\ IF x.to = "limbo" THEN LimboRelease(t, x.rec)
                         ELSE SlabRelease({x.rec}) /\ UNCHANGED limbo
    /\ UNCHANGED <<lines, index, version, tomb, th, mode, todo, ghosts>>
-----------------------------------------------------------------------------
(***************************************************************************)
(* Cache-line write-back, crash and recovery.                              *)
(***************************************************************************)

\* A dirty line reaches the medium.
Evict(r) ==
    /\ \/ phdr' = [phdr EXCEPT ![r] = hdr[r]] /\ r \notin OneLine /\ UNCHANGED pbody
       \/ pbody' = [pbody EXCEPT ![r] = body[r]] /\ r \notin OneLine /\ UNCHANGED phdr
       \/ /\ r \in OneLine
          /\ phdr' = [phdr EXCEPT ![r] = hdr[r]]
          /\ pbody' = [pbody EXCEPT ![r] = body[r]]
    /\ <<phdr, pbody>>' # <<phdr, pbody>>
    /\ UNCHANGED <<hdr, body, busy, free, volatile, th, mode, todo, ghosts>>

\* Power failure, and the start of the next open(): slab_.good() is false.
Crash ==
    /\ "crash" \in Faults /\ mode # "closed"
    /\ mode' = "recover"
    /\ hdr' = phdr /\ body' = pbody
    /\ index' = [k \in Key |-> {}]
    /\ version' = [s \in Slot |-> 0]
    /\ limbo' = [t \in Thread |-> <<>>]
    /\ retired' = {} /\ tomb' = 0 /\ free' = {}
    /\ th' = [t \in Thread |-> IdleCall]
    /\ todo' = busy /\ recovered' = TRUE
    /\ UNCHANGED <<phdr, pbody, busy, issued, acked>>

\* A worker of recover() goes on with its record, which is r from now on.
Rebuild(t, pc, r, c) ==
    th' = [th EXCEPT ![t] = [IdleCall EXCEPT !.pc = pc, !.rec = r, !.key = c.key, !.ver = c.ver]]

\* Mutant of RecoverRecord: the scan keeps the first version it meets.
RecoverFirst(t, r) == LET k == hdr[r].key IN
    /\ mode = "recover" /\ th[t].pc = "idle" /\ r \in todo
    /\ todo' = todo \ {r}
    /\ IF hdr[r].inv \/ Found(k) # {}
       THEN Rebuild(t, "drop", r, hdr[r]) /\ UNCHANGED index
       ELSE Rebuild(t, "load", None, hdr[r]) /\ index' = [index EXCEPT ![k] = @ \union {r}]
    /\ UNCHANGED <<lines, busy, free, version, limbo, retired, tomb, mode, ghosts>>

\* The rebuild functor of open(), run by a worker on a region: an invalid record and
\* an expired one are dropped, another takes the slot of its key in the index.
RecoverRecord(t, r) == LET k == hdr[r].key IN
    /\ mode = "recover" /\ th[t].pc = "idle" /\ r \in todo
    /\ todo' = todo \ {r}
    /\ tomb' = IF ~hdr[r].inv /\ hdr[r].tomb THEN tomb + 1 ELSE tomb
    /\ \/ /\ hdr[r].inv \/ \E old \in Found(k) : hdr[old].ver >= hdr[r].ver
          /\ Rebuild(t, "drop", r, hdr[r])
          /\ UNCHANGED index
       \/ /\ ~hdr[r].inv /\ \A old \in Found(k) : hdr[old].ver < hdr[r].ver
          /\ index' = [index EXCEPT ![k] = (@ \ Found(k)) \union {r}]
          /\ \/ Found(k) = {} /\ Rebuild(t, "load", None, hdr[r])
             \/ \E old \in Found(k) : Rebuild(t, "retire", old, hdr[r])
    /\ UNCHANGED <<lines, busy, free, version, limbo, retired, mode, ghosts>>

RecoverDrop(t) ==
    /\ mode = "recover" /\ th[t].pc = "drop"
    /\ th' = [th EXCEPT ![t] = IdleCall]
    /\ SlabRelease({th[t].rec})
    /\ UNCHANGED <<lines, volatile, mode, todo, ghosts>>

\* retire, outside of any guard: the closure may run at once.
RecoverRetire(t) ==
    /\ mode = "recover" /\ th[t].pc = "retire"
    /\ th' = [th EXCEPT ![t].pc = "load", ![t].rec = None]
    /\ retired' = retired \union {[rec |-> th[t].rec, waits |-> {}, to |-> "slab"]}
    /\ UNCHANGED <<lines, busy, free, index, version, limbo, tomb, mode, todo, ghosts>>

\* origin = version_[code % N].
RecoverLoad(t) ==
    /\ mode = "recover" /\ th[t].pc = "load"
    /\ th' = [th EXCEPT ![t].pc = "cas", ![t].val = version[SlotOf[th[t].key]]]
    /\ UNCHANGED <<lines, busy, free, volatile, mode, todo, ghosts>>

\* Mutant of RecoverVersion: a store where the code compares and exchanges.
RecoverStore(t) == LET s == SlotOf[th[t].key] IN
    /\ mode = "recover" /\ th[t].pc = "cas"
    /\ th' = [th EXCEPT ![t] = IdleCall]
    /\ version' = IF th[t].ver > th[t].val THEN [version EXCEPT ![s] = th[t].ver] ELSE version
    /\ UNCHANGED <<lines, busy, free, index, limbo, retired, tomb, mode, todo, ghosts>>

\* while(latest > origin && !compare_exchange_strong(origin, latest)).
RecoverVersion(t) == LET s == SlotOf[th[t].key] IN
    /\ mode = "recover" /\ th[t].pc = "cas"
    /\ IF th[t].ver > th[t].val /\ version[s] # th[t].val
       THEN th' = [th EXCEPT ![t].val = version[s]] /\ UNCHANGED version
       ELSE /\ th' = [th EXCEPT ![t] = IdleCall]
            /\ version' = [version EXCEPT ![s] = IF th[t].ver > @ THEN th[t].ver ELSE @]
    /\ UNCHANGED <<lines, busy, free, index, limbo, retired, tomb, mode, todo, ghosts>>

\* finish_recover: regions without a hired token are free; the store is what was found.
RecoverDone ==
    /\ mode = "recover" /\ todo = {} /\ Active = {}
    /\ mode' = "open" /\ free' = Record \ busy
    /\ acked' = [k \in Key |-> {Content(hdr[r], body[r]) : r \in index[k]}]
    /\ UNCHANGED <<lines, busy, volatile, th, todo, issued, recovered>>
-----------------------------------------------------------------------------
(***************************************************************************)
(* ~HashStore and the fast reboot.  In mode "closed" the variables index,  *)
(* version and tomb are what the destructor unloaded.                      *)
(***************************************************************************)

\* The thread that runs the destructor.
Closer == CHOOSE t \in Thread : TRUE

CloseBegin ==
    /\ "close" \in Faults /\ Running /\ Active = {}
    /\ mode' = "closing"
    /\ UNCHANGED <<lines, busy, free, volatile, th, todo, ghosts>>

\* delete accessor.second: ~ThreadLimbo releases each record of its lists.
CloseLimbo(t) ==
    /\ mode = "closing" /\ limbo[t] # <<>>
    /\ limbo' = [limbo EXCEPT ![t] = Tail(@)]
    /\ SlabRelease({Head(limbo[t])})
    /\ UNCHANGED <<lines, index, version, retired, tomb, th, mode, todo, ghosts>>

CloseLimboDone ==
    /\ mode = "closing" /\ \A t \in Thread : limbo[t] = <<>>
    /\ mode' = "clearing"
    /\ UNCHANGED <<lines, busy, free, volatile, th, todo, ghosts>>

\* get_epoch().clear() runs the closures.  The limbo lists are gone: a closing thread
\* that never wrote makes a new one that nobody will destroy, another uses the one that
\* was deleted, which keeps the record, gives it to slab_.release or faults: a Crash.
EpochClear(x) ==
    /\ mode = "clearing" /\ x \in retired
    /\ retired' = retired \ {x}
    /\ \/ x.to = "limbo" /\ LimboRelease(Closer, x.rec)
       \/ SlabRelease({x.rec}) /\ UNCHANGED limbo
    /\ UNCHANGED <<lines, index, version, tomb, th, mode, todo, ghosts>>

\* Mutant of EpochClearDone: tombstones are reclaimed before the closures have run.
EpochNotCleared ==
    /\ mode = "clearing"
    /\ mode' = "unload"
    /\ IF tomb > ReclaimTomb
       THEN todo' = {r \in UNION {index[k] : k \in Key} : hdr[r].tomb} /\ tomb' = 0
       ELSE UNCHANGED <<todo, tomb>>
    /\ UNCHANGED <<lines, busy, free, index, version, limbo, retired, th, ghosts>>

\* The tombstones to reclaim while the index is unloaded.
EpochClearDone ==
    /\ mode = "clearing" /\ retired = {}
    /\ mode' = "unload"
    /\ IF tomb > ReclaimTomb
       THEN todo' = {r \in UNION {index[k] : k \in Key} : hdr[r].tomb} /\ tomb' = 0
       ELSE UNCHANGED <<todo, tomb>>
    /\ UNCHANGED <<lines, busy, free, index, version, limbo, retired, th, ghosts>>

UnloadTombstone(r) ==
    /\ mode = "unload" /\ r \in todo
    /\ todo' = todo \ {r}
    /\ index' = [k \in Key |-> index[k] \ {r}]
    /\ SlabRelease({r})
    /\ UNCHANGED <<lines, version, limbo, retired, tomb, th, mode, ghosts>>

\* The allocator is closed last and marks the pool consistent.
CloseDone ==
    /\ mode = "unload" /\ todo = {}
    /\ mode' = "closed"
    /\ limbo' = [t \in Thread |-> <<>>]
    /\ UNCHANGED <<lines, busy, free, index, version, retired, tomb, th, todo, ghosts>>

\* open() after a normal shutdown.
Reboot ==
    /\ mode = "closed"
    /\ mode' = "open" /\ free' = Record \ busy
    /\ UNCHANGED <<lines, busy, volatile, th, todo, ghosts>>

Next ==
    \/ \E t \in Thread, o \in Ops, k \in Key : Begin(t, o, k)
    \/ \E t \in Thread : Acquire(t)
    \/ \E t \in Thread : WriteNew(t)
    \/ \E t \in Thread : Publish(t)
    \/ \E t \in Thread : Invalidate(t)
    \/ \E t \in Thread : Rewrite(t)
    \/ \E t \in Thread : FlushRecord(t)
    \/ \E t \in Thread : SetControl(t)
    \/ \E t \in Thread : Insert(t)
    \/ \E t \in Thread : UpdateMissing(t)
    \/ \E t \in Thread : Expire(t)
    \/ \E t \in Thread : Replace(t)
    \/ \E t \in Thread, k \in Key : Lookup(t, k)
    \/ \E t \in Thread : ReadDone(t)
    \/ \E t \in Thread : \E x \in retired : Reclaim(t, x)
    \/ \E r \in Record : Evict(r)
    \/ Crash
    \/ \E t \in Thread, r \in Record : RecoverRecord(t, r)
    \/ \E t \in Thread : RecoverDrop(t)
    \/ \E t \in Thread : RecoverRetire(t)
    \/ \E t \in Thread : RecoverLoad(t)
    \/ \E t \in Thread : RecoverVersion(t)
    \/ RecoverDone
    \/ CloseBegin
    \/ \E t \in Thread : CloseLimbo(t)
    \/ CloseLimboDone
    \/ \E x \in retired : EpochClear(x)
    \/ EpochClearDone
    \/ \E r \in Record : UnloadTombstone(r)
    \/ CloseDone
    \/ Reboot

Spec == Init /\ [][Next]_vars
-----------------------------------------------------------------------------
\* What a crash at this moment would leave for the recovery scan.
Surviving == {r \in busy : ~phdr[r].inv}
Survivor(k) == {r \in Surviving : phdr[r].key = k}
Durable(r) == Content(phdr[r], pbody[r])

(***************************************************************************)
(* Whatever the moment of the crash, and whichever dirty lines had been    *)
(* written back, a record that recovery accepts (token hired, ctrl not     *)
(* invalid) is exactly one write that some call made: the log-free reuse   *)
(* of garbage records never exposes a mix of two writes.                   *)
(***************************************************************************)
NoTornRecord == \A r \in Surviving : Durable(r) \in issued

(***************************************************************************)
(* A write that returned survives: the scan would find it, or a newer      *)
(* write to the same key, or, for a remove, no record of the key at all.   *)
(***************************************************************************)
AckedDurable ==
    \A k \in Key : \A a \in acked[k] :
        \/ \E r \in Survivor(k) : phdr[r].ver > a.ver \/ Durable(r) = a
        \/ a.tomb /\ Survivor(k) = {}

(***************************************************************************)
(* A write that returned is what the index of the open store shows, or a   *)
(* newer write is; a crash with its recovery, or a close with its reboot,  *)
(* keeps that.                                                             *)
(***************************************************************************)
AckedVisible ==
    Running \/ (mode = "recover" /\ todo = {}) =>
        \A k \in Key : \A a \in acked[k] :
            \/ \E r \in Found(k) : hdr[r].ver > a.ver \/ Content(hdr[r], body[r]) = a
            \/ a.tomb /\ Found(k) = {}

(***************************************************************************)
(* What recovery would choose is what the open store shows: apart from the *)
(* record of a call still running, every record the scan would accept is   *)
(* the indexed one of its key or an older version of it.                   *)
(***************************************************************************)
NewestIndexed ==
    Running =>
        \A r \in Surviving \ {th[t].rec : t \in Active} :
            \E i \in Found(phdr[r].key) : i = r \/ hdr[i].ver > phdr[r].ver

(***************************************************************************)
(* The version table is never behind the index: the counter of a slot is   *)
(* at least the version of every record that the open store shows, also    *)
(* after recovery workers have raised it in any order.                     *)
(***************************************************************************)
VersionCovers ==
    Running => \A k \in Key : \A r \in Found(k) : hdr[r].ver <= version[SlotOf[k]]

\* The places that hold a record and may hand it on.
FreeOwner(r) == {<<"free">> : x \in free \intersect {r}}
IndexOwner(r) == {<<"index", k>> : k \in {k \in Key : r \in index[k]}}
LimboOwner(r) ==
    UNION {{<<"limbo", t, i>> : i \in {i \in DOMAIN limbo[t] : limbo[t][i] = r}} : t \in Thread}
EpochOwner(r) == {<<"epoch", x>> : x \in {x \in retired : x.rec = r}}
CallOwner(r) == {<<"call", t>> : t \in {t \in Active : th[t].rec = r /\ th[t].pc # "read"}}

Owners(r) ==
    FreeOwner(r) \union IndexOwner(r) \union LimboOwner(r) \union EpochOwner(r)
    \union CallOwner(r)

(***************************************************************************)
(* A record is never in two hands: of the allocator, a call, the index,    *)
(* the epoch and the limbo lists, at most one has it.                      *)
(***************************************************************************)
ExclusiveRecord == \A r \in Record : \A x, y \in Owners(r) : x = y

(***************************************************************************)
(* No record is lost while the store is open: one of them has it.          *)
(***************************************************************************)
NoLostRecord == Running => \A r \in Record : Owners(r) # {}

(***************************************************************************)
(* A record that lookup returned keeps its key and its value, and stays    *)
(* valid, for as long as the reader holds its epoch guard.                 *)
(***************************************************************************)
StableRead ==
    \A t \in Thread : th[t].pc = "read" =>
        LET r == th[t].rec
        IN  hdr[r] = [inv |-> FALSE, tomb |-> FALSE, ver |-> th[t].ver, key |-> th[t].key]
            /\ body[r] = th[t].val

(***************************************************************************)
(* The limbo lists hold "kv pairs whose version is expired": none of them  *)
(* is still in the index.                                                  *)
(***************************************************************************)
LimboExpired ==
    \A t \in Thread, k \in Key : index[k] \intersect Limboed(t) = {}

(***************************************************************************)
(* "release all older kvs before reclaim tombstone": once the destructor   *)
(* reclaims tombstones, only indexed records still have a hired token.     *)
(***************************************************************************)
OlderReleased ==
    mode = "unload" /\ todo # {} => busy = UNION {index[k] : k \in Key}
=============================================================================
