----------------------------- MODULE IndexImage -----------------------------
(***************************************************************************)
(* The image of the volatile index on persistent memory: ~HashStore writes *)
(* the directory and the segments of the hash table into regions of the    *)
(* allocator, and open reloads them after a clean close, by several        *)
(* workers, and releases the regions (store/hash-store.h).  After a crash  *)
(* the image is not used, and recovery releases what is left of it.  The   *)
(* module includes ~HashTable (store/hash-table.h), which runs in between. *)
(*                                                                         *)
(* A segment is one bucket.  A region of the image is a member of img while *)
(* its token is busy.  The image is written back before the last fence of  *)
(* ~HashStore, which precedes the kConsistent of the allocator, so it has  *)
(* one copy; a crash only finds some of its regions published.             *)
(***************************************************************************)
EXTENDS Integers, FiniteSets, SequencesExt

CONSTANTS Worker, None,
          NSlot,        \* kNSlot
          Tables,       \* the tables that the application may build
          MaxEntries,   \* a directory has fewer entries, for 4 MiB
          ReclaimTomb,  \* kReclaimTomb, in tombstones
          MaxCrash      \* bound on the crashes

Slot   == 1 .. NSlot
Entry  == 0 .. MaxEntries - 1
Record == [key : Nat, tombstone : BOOLEAN]

ASSUME ImageAssumption ==
    /\ NSlot \in Nat \ {0} /\ MaxEntries \in Nat \ {0}
    /\ ReclaimTomb \in Nat /\ MaxCrash \in Nat
    /\ \A tab \in Tables : \A i \in DOMAIN tab.dir :
          LET s == tab.seg[tab.dir[i]]
          IN  /\ tab.dir[i] = i % 2^s.depth /\ s.depth <= tab.depth
              /\ DOMAIN tab.dir = 0 .. 2^tab.depth - 1
              /\ s.bitmap \subseteq Slot /\ s.kvs \in [Slot -> Record]

VARIABLES mode,        \* what the store is doing
          tab,         \* index_: depth, directory, and the segment of each directory value
          tomb_size,   \* in tombstones
          version,     \* the version table, as one value
          live,        \* records whose token is busy
          img,         \* busy regions of the image
          root,        \* root()[0]: whether it points to the head
          head,        \* PersistHead, with the version table
          pdir, pseg,  \* the persistent directory and segments
          reclaim, sid,  \* local to ~HashStore, sid to ~HashTable as well
          freed,       \* segments that ~HashTable has deleted
          consistent,  \* the allocator was closed
          loaded, finished, vdir, vseg,  \* of the reload
          th,          \* its workers
          closed,      \* the contents of the table at the last close, until they change
          crashes

store  == <<tab, tomb_size, version>>
image  == <<root, head, pdir, pseg>>
reload == <<loaded, finished, vdir, vseg, th>>
local  == <<reclaim, sid>>
vars   == <<mode, store, live, img, image, local, freed, consistent, reload, closed, crashes>>

\* The regions of the image.
Aux        == {<<"head">>, <<"dir">>, <<"ver">>}
Segment(p) == <<"segment", p>>

\* The orders in which ~HashStore publishes and open releases them.
PublishOrder == <<<<"head">>, <<"dir">>, <<"ver">>>>
ReleaseOrder == <<<<"dir">>, <<"ver">>, <<"head">>>>

Count(t) == 2^t.depth

\* What a table holds, entry by entry: the local depth and the records in use.
Bucket(s) == {s.kvs[i] : i \in s.bitmap}
View(t)   == [i \in DOMAIN t.dir |->
                 [depth |-> t.seg[t.dir[i]].depth, recs |-> Bucket(t.seg[t.dir[i]])]]
Records(t) == UNION {Bucket(t.seg[t.dir[i]]) : i \in DOMAIN t.dir}
Tombs(rs)  == {r \in rs : r.tombstone}

\* A table of global depth 1 and one segment that holds the records rs.
OneSegment(rs) == LET s == SetToSeq(rs) IN
    [depth |-> 1, dir |-> [i \in 0 .. 1 |-> 0],
     seg |-> [i \in {0} |->
                 [depth |-> 0, bitmap |-> 1 .. Len(s),
                  kvs |-> [k \in Slot |-> IF k <= Len(s) THEN s[k]
                                          ELSE [key |-> 0, tombstone |-> FALSE]]]]]

Idle == [pc |-> "claim", sid |-> 0, psegments |-> {}, sharing |-> {}]

\* The image, when there is none; the state of a reload, when it starts or is over.
NoHead == [depth |-> 0, tomb_size |-> 0, version |-> 0]
Empty  == [i \in Entry |-> None]

\* A new pool: the allocator is good, root is null.
Init ==
    /\ mode = "down" /\ tab = OneSegment({}) /\ tomb_size = 0 /\ version = 0
    /\ live = {} /\ img = {} /\ root = FALSE /\ consistent = TRUE
    /\ head = NoHead /\ pdir = Empty /\ pseg = Empty
    /\ reclaim = FALSE /\ sid = 0 /\ freed = {}
    /\ loaded = 0 /\ finished = 0 /\ vdir = Empty /\ vseg = Empty
    /\ th = [t \in Worker |-> Idle] /\ closed = None /\ crashes = 0

\* The application has turned the table into another one.
Use ==
    /\ mode = "open" /\ closed' = None
    /\ tab' \in Tables /\ live' = Records(tab')
    /\ tomb_size' = Cardinality(Tombs(live')) /\ version' = 1 - version
    /\ UNCHANGED <<mode, img, image, local, freed, consistent, reload, crashes>>
-----------------------------------------------------------------------------
(* ~HashStore. *)

\* What is lost with the process.
Lost ==
    /\ tab' = OneSegment({}) /\ tomb_size' = 0 /\ version' = 0
    /\ reclaim' = FALSE /\ sid' = 0 /\ freed' = {} /\ closed' = None
    /\ loaded' = 0 /\ finished' = 0 /\ vdir' = Empty /\ vseg' = Empty
    /\ th' = [t \in Worker |-> Idle]

\* A directory that no region holds: exit, without a close of the allocator.
CloseExit ==
    /\ mode = "open" /\ Count(tab) >= MaxEntries
    /\ mode' = "down" /\ Lost
    /\ UNCHANGED <<live, img, image, consistent, crashes>>

\* The head is written.
CloseHead ==
    /\ mode = "open" /\ Count(tab) < MaxEntries
    /\ reclaim' = (tomb_size > ReclaimTomb)
    /\ tomb_size' = IF reclaim' THEN 0 ELSE tomb_size
    /\ head' = [head EXCEPT !.depth = tab.depth, !.tomb_size = tomb_size']
    /\ closed' = [view |-> [i \in DOMAIN tab.dir |->
                     [View(tab)[i] EXCEPT !.recs = IF reclaim' THEN @ \ Tombs(@) ELSE @]],
                  tomb_size |-> tomb_size', version |-> version]
    /\ mode' = "publish"
    /\ UNCHANGED <<tab, version, live, img, root, pdir, pseg, sid, freed, consistent, reload, crashes>>

\* The next of the head, the directory and the version table is published.
ClosePublish ==
    /\ mode = "publish"
    /\ \E i \in 1 .. 3 :
          /\ PublishOrder[i] \notin img /\ \A j \in 1 .. i - 1 : PublishOrder[j] \in img
          /\ img' = img \union {PublishOrder[i]}
    /\ UNCHANGED <<mode, store, live, image, local, freed, consistent, reload, closed, crashes>>

\* root is set.
CloseRoot ==
    /\ mode = "publish" /\ Aux \subseteq img /\ ~ root
    /\ root' = TRUE
    /\ UNCHANGED <<mode, store, live, img, head, pdir, pseg, local, freed, consistent, reload,
                   closed, crashes>>

\* The version table is copied, and the epoch cleared: no older records are left.
CloseVersion ==
    /\ mode = "publish" /\ root
    /\ head' = [head EXCEPT !.version = version]
    /\ mode' = "unload" /\ sid' = 0 /\ freed' = {}
    /\ UNCHANGED <<store, live, img, root, pdir, pseg, reclaim, consistent, reload, closed, crashes>>

\* Mutant of the next definition: the bit of a released tombstone stays set.
UnloadedAll(s) == s

\* The PersistBucket of segment s: released tombstones leave its bitmap.
Unloaded(s) ==
    [s EXCEPT !.bitmap = {i \in @ : ~ (reclaim /\ s.kvs[i].tombstone)}]

\* A turn of the loop that unloads the segments.
CloseEntry ==
    LET s == tab.seg[tab.dir[sid]] IN
    /\ mode = "unload" /\ sid < Count(tab)
    /\ \/ /\ sid < 2^s.depth
          /\ pseg' = [pseg EXCEPT ![sid] = Unloaded(s)]
          /\ pdir' = [pdir EXCEPT ![sid] = sid]
          /\ live' = IF reclaim THEN live \ Tombs(Bucket(s)) ELSE live
          /\ img' = img \union {Segment(sid)}
       \/ /\ sid >= 2^s.depth
          /\ pdir' = [pdir EXCEPT ![sid] = pdir[sid % 2^s.depth]]
          /\ UNCHANGED <<pseg, live, img>>
    /\ sid' = sid + 1
    /\ UNCHANGED <<mode, store, root, head, reclaim, freed, consistent, reload, closed, crashes>>

\* The last write-back and fence; then ~HashTable.
CloseFence ==
    /\ mode = "unload" /\ sid = Count(tab)
    /\ mode' = "free" /\ sid' = 0
    /\ UNCHANGED <<store, live, img, image, reclaim, freed, consistent, reload, closed, crashes>>

\* Mutant of the next definition: off by one.
PartsButLast(i, depth) == {i + p * 2^depth : p \in 1 .. (Count(tab) \div 2^depth) - 2}

\* The other entries of the segment at entry i.
Parts(i, depth) == {i + p * 2^depth : p \in 1 .. (Count(tab) \div 2^depth) - 1}

\* A turn of the loop of ~HashTable: a segment clears its other entries and goes.
FreeEntry == LET s == tab.dir[sid] IN
    /\ mode = "free" /\ sid < Count(tab)
    /\ \/ s = None /\ UNCHANGED <<tab, freed>>
       \/ /\ s # None /\ freed' = freed \union {s}
          /\ tab' = [tab EXCEPT !.dir = [i \in DOMAIN @ |->
                        IF i \in Parts(sid, tab.seg[s].depth) THEN None ELSE @[i]]]
    /\ sid' = sid + 1
    /\ UNCHANGED <<mode, tomb_size, version, live, img, image, reclaim, consistent, reload,
                   closed, crashes>>

\* ... and the allocator is closed.
CloseDone ==
    /\ mode = "free" /\ sid = Count(tab)
    /\ mode' = "down" /\ consistent' = TRUE
    /\ UNCHANGED <<store, live, img, image, local, freed, reload, closed, crashes>>

Crash ==
    /\ mode # "down" /\ crashes < MaxCrash
    /\ mode' = "down" /\ crashes' = crashes + 1 /\ Lost
    /\ UNCHANGED <<live, img, image, consistent>>
-----------------------------------------------------------------------------
(* open. *)

\* The allocator is open, and the table empty.  recover finds the versions in the
\* records (HashStore).
Open ==
    /\ mode = "down" /\ consistent' = FALSE
    /\ mode' = IF ~ consistent THEN "recover" ELSE IF root THEN "reboot" ELSE "reset"
    /\ tab' = OneSegment({}) /\ freed' = {} /\ reclaim' = FALSE /\ sid' = 0
    /\ tomb_size' = IF consistent THEN head.tomb_size ELSE 0
    /\ version' = IF consistent THEN head.version ELSE 0
    /\ UNCHANGED <<live, img, image, reload, closed, crashes>>

\* recover: a region without the persistent mode is of the image, and released.
RecoverImage ==
    /\ mode = "recover"
    /\ \E r \in img : img' = img \ {r}
    /\ UNCHANGED <<mode, store, live, image, local, freed, consistent, reload, closed, crashes>>

\* ... the others are records, and inserted.
RecoverDone ==
    /\ mode = "recover" /\ img = {}
    /\ tab' = OneSegment(live) /\ tomb_size' = Cardinality(Tombs(live))
    /\ mode' = "reset"
    /\ UNCHANGED <<version, live, img, image, local, freed, consistent, reload, closed, crashes>>

\* Mutant of the next definition: the index is not advanced.
Again(i) == i

\* fetch_add: the next entry after i.
After(i) == i + 1

\* A worker of the reload takes the next entry.
Claim(t) ==
    /\ mode = "reboot" /\ th[t].pc = "claim"
    /\ loaded' = After(loaded)
    /\ \/ /\ loaded < Count(head)
          /\ th' = [th EXCEPT ![t].pc = "load", ![t].sid = loaded]
          /\ UNCHANGED finished
       \/ /\ loaded >= Count(head)
          /\ th' = [th EXCEPT ![t].pc = "wait"] /\ finished' = finished + 1
    /\ UNCHANGED <<mode, store, live, img, image, local, freed, consistent, vdir, vseg,
                   closed, crashes>>

\* ... reloads the segment if it is the first entry of it, else notes the sharing.
Load(t) ==
    LET i == th[t].sid  p == pdir[i]  depth == pseg[p].depth IN
    /\ mode = "reboot" /\ th[t].pc = "load"
    /\ \/ /\ i < 2^depth
          /\ vseg' = [vseg EXCEPT ![i] = pseg[p]] /\ vdir' = [vdir EXCEPT ![i] = i]
          /\ th' = [th EXCEPT ![t].pc = "claim", ![t].psegments = @ \union {p}]
       \/ /\ i >= 2^depth
          /\ th' = [th EXCEPT ![t].pc = "claim", ![t].sharing = @ \union {<<i, i % 2^depth>>}]
          /\ UNCHANGED <<vdir, vseg>>
    /\ UNCHANGED <<mode, store, live, img, image, local, freed, consistent, loaded, finished,
                   closed, crashes>>

\* Mutant of the next definition: no barrier.
BarrierOpen == TRUE

\* Every worker has loaded its segments.
Barrier == finished = Cardinality(Worker)

\* ... past the barrier, copies the shared entries ...
Share(t) ==
    /\ mode = "reboot" /\ th[t].pc = "wait" /\ Barrier
    /\ vdir' = [i \in Entry |-> IF \E q \in th[t].sharing : q[1] = i
                                THEN vdir[(CHOOSE q \in th[t].sharing : q[1] = i)[2]]
                                ELSE vdir[i]]
    /\ th' = [th EXCEPT ![t].pc = "release"]
    /\ UNCHANGED <<mode, store, live, img, image, local, freed, consistent, loaded, finished,
                   vseg, closed, crashes>>

\* ... and releases the persistent segments it has loaded.
ReleaseSegment(t) ==
    /\ mode = "reboot" /\ th[t].pc = "release"
    /\ \E p \in th[t].psegments :
          img' = img \ {Segment(p)} /\ th' = [th EXCEPT ![t].psegments = @ \ {p}]
    /\ UNCHANGED <<mode, store, live, image, local, freed, consistent, loaded, finished,
                   vdir, vseg, closed, crashes>>

\* The workers have joined: the table is swapped in.
RebootSwap ==
    /\ mode = "reboot"
    /\ \A t \in Worker : th[t].pc = "release" /\ th[t].psegments = {}
    /\ tab' = [depth |-> head.depth,
               dir |-> [i \in 0 .. Count(head) - 1 |-> vdir[i]],
               seg |-> [i \in {i \in Entry : vseg[i] # None} |-> vseg[i]]]
    /\ mode' = "reset"
    /\ loaded' = 0 /\ finished' = 0 /\ vdir' = Empty /\ vseg' = Empty
    /\ th' = [t \in Worker |-> Idle]
    /\ UNCHANGED <<tomb_size, version, live, img, image, local, freed, consistent, closed, crashes>>

\* The next of the directory, the version table and the head is released.
RebootRelease ==
    /\ mode = "reset"
    /\ \E i \in 1 .. 3 :
          /\ ReleaseOrder[i] \in img /\ \A j \in 1 .. i - 1 : ReleaseOrder[j] \notin img
          /\ img' = img \ {ReleaseOrder[i]}
    /\ UNCHANGED <<mode, store, live, image, local, freed, consistent, reload, closed, crashes>>

\* root is reset, on every path of open; the contents of released regions are of no use.
OpenDone ==
    /\ mode = "reset" /\ Aux \intersect img = {}
    /\ mode' = "open" /\ root' = FALSE
    /\ head' = NoHead /\ pdir' = Empty /\ pseg' = Empty
    /\ UNCHANGED <<store, live, img, local, freed, consistent, reload, closed, crashes>>
-----------------------------------------------------------------------------
Reboot(t) == Claim(t) \/ Load(t) \/ Share(t) \/ ReleaseSegment(t)

Next ==
    \/ Use \/ CloseExit \/ CloseHead \/ ClosePublish \/ CloseRoot \/ CloseVersion
    \/ CloseEntry \/ CloseFence \/ FreeEntry \/ CloseDone
    \/ Crash \/ Open \/ RecoverImage \/ RecoverDone \/ RebootSwap \/ RebootRelease \/ OpenDone
    \/ \E t \in Worker : Reboot(t)

Spec == Init /\ [][Next]_vars

\* open runs to its end, and so do its workers: the barrier spins, nothing blocks.
FairSpec ==
    /\ Spec /\ WF_vars(Open) /\ WF_vars(RecoverImage) /\ WF_vars(RecoverDone)
    /\ WF_vars(RebootSwap) /\ WF_vars(RebootRelease) /\ WF_vars(OpenDone)
    /\ \A t \in Worker : WF_vars(Reboot(t))
-----------------------------------------------------------------------------
\* A reload gives back the table that was closed, entry by entry, without the
\* tombstones that the close has released, and its version table; and the records in
\* the open table are exactly those that are allocated (~HashStore and open).
ReloadExact == mode = "open" =>
    /\ closed # None => /\ View(tab) = closed.view
                        /\ tomb_size = closed.tomb_size /\ version = closed.version
    /\ Records(tab) = live

\* A worker reads no persistent segment that was released, no two of them release the
\* same one, and an open store has released all of its image, whatever crashes came
\* before (the barrier in open, and the release of auxiliary regions in recover).
ImageReleasedOnce ==
    /\ \A t \in Worker : mode = "reboot" /\ th[t].pc = "load" => Segment(pdir[th[t].sid]) \in img
    /\ mode = "reboot" => \A t \in Worker : \A p \in th[t].psegments : Segment(p) \in img
    /\ \A s, t \in Worker : s # t => th[s].psegments \intersect th[t].psegments = {}
    /\ mode = "open" => img = {} /\ root = FALSE

\* ~HashTable meets no deleted segment, and deletes them all.
FreedOnce ==
    /\ mode = "free" => \A i \in DOMAIN tab.dir : i >= sid => tab.dir[i] \notin freed
    /\ mode = "down" /\ closed # None => freed = DOMAIN tab.seg

\* A store that is down opens again, after the last crash.
Reopens == mode = "down" ~> mode = "open"
=============================================================================
