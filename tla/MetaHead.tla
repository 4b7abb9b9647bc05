------------------------------ MODULE MetaHead ------------------------------
(***************************************************************************)
(* The persistent extent allocator (slab/meta-file.h, MetaHead) and the    *)
(* descriptors it manages (slab/desc.h, ExtentDesc and MediumMeta).        *)
(*                                                                         *)
(* All of its state lives in persistent memory and is read and written     *)
(* through the CPU cache.  Every cache line therefore has two values: the  *)
(* one the program sees (head, meta, desc, med) and the one that survives  *)
(* a crash (dhead, dmeta, ddesc, dmed).  A clwb followed by a fence copies *)
(* a line to its durable value; a dirty line may also be evicted at any    *)
(* moment (Evict).  Stores to one line become durable in program order, so *)
(* a group of stores to a single line that is flushed at once is one step. *)
(*                                                                         *)
(* ExtentCase calls acquire and release under one mutex (slab/extent.h:    *)
(* 216-239) and record from the single closing thread, so at most one      *)
(* operation is in flight; op holds its local variables.                   *)
(***************************************************************************)
EXTENDS Naturals

CONSTANTS Total,       \* ext_total_, the number of extents of the pool
          Null,        \* the null persistent pointer
          Requests,    \* the region types that run cases ask extents for
          CrashModes   \* the modes in which power may fail

ASSUME TotalAssumption == Total \in Nat \ {0}
ASSUME NullAssumption == Null \notin Nat
ASSUME RequestAssumption == Requests \subseteq {"small", "medium", "large"}
ASSUME CrashAssumption ==
    CrashModes \subseteq {"open", "closing", "down", "reboot", "resume"}

VARIABLES head,   \* first line of MetaHead: stat_, mind_, occupied_
          meta,   \* meta_[2]
          desc,   \* the descriptor of each extent
          med,    \* next_ of the first MediumMeta of each block of kNBaseExtent
          dhead, dmeta, ddesc, dmed,  \* what each line holds after a crash
          mode,   \* "open", "closing", "down", "reboot" or "resume"
          op,     \* the operation in flight: its step and its locals
          cur,    \* desc in the loops of reboot and resume
          loaded, \* the vector that reboot fills
          held,   \* extents handed out by acquire and not yet given to release
          half    \* half-used extents: the ones recorded by the last close

cached == <<head, meta, desc, med>>
durable == <<dhead, dmeta, ddesc, dmed>>
vars == <<cached, durable, mode, op, cur, loaded, held, half>>

Extent == 0 .. Total - 1
Pointer == Extent \union {Null}
Type == {"small", "medium", "large"}     \* kSmall, kMedium, kLarge

\* Blocks of kNBaseExtent MediumMeta are numbered; med_used counts blocks.
Block == Nat \union {Null}
DescMeta == [ext_used : 0 .. Total, ext_free : Pointer,
             med_used : Nat, med_free : Block]
Head == [stat : {"kVolatile", "kConsistent"}, mind : {0, 1}, occupied : Pointer]
ExtentDesc == [type : Type \union {"kInvalid"}, next : Pointer, runs : Block]

(* The locals of the operation in flight and the step it is about to take. *)
Operation == [pc : {"idle", "construct", "commit", "flip", "link", "fence",
                    "unflip", "destruct", "shutdown", "resumed"},
              type : Type, ext : Pointer, next : Pointer, runs : Block,
              fresh : BOOLEAN]
Idle == [pc |-> "idle", type |-> "small", ext |-> Null, next |-> Null,
         runs |-> Null, fresh |-> FALSE]

oid == head.mind
nid == 1 - head.mind
Valid == meta[oid]       \* the copy of DescMeta that mind_ selects

Running == mode = "open" /\ op.pc = "idle"
-----------------------------------------------------------------------------
(* The pool as MetaHead::init leaves it.  A file of zeroes reads as kSmall. *)
Init ==
    /\ head = [stat |-> "kVolatile", mind |-> 0, occupied |-> Null]
    /\ meta = [i \in {0, 1} |-> [ext_used |-> 0, ext_free |-> Null,
                                 med_used |-> 0, med_free |-> Null]]
    /\ desc = [e \in Extent |-> [type |-> "small", next |-> Null, runs |-> Null]]
    /\ med = [b \in Extent |-> Null]
    /\ dhead = head /\ dmeta = meta /\ ddesc = desc /\ dmed = med
    /\ mode = "open" /\ op = Idle /\ cur = Null
    /\ loaded = {} /\ held = {} /\ half = {}

(* allocate_meta: the block a medium extent gets, and the DescMeta left.   *)
(* A block that is not null lies in the segment (MediumBlocks).            *)
HasFreeBlock(m) == m.med_free \in Extent
TakenBlock(m) == IF HasFreeBlock(m) THEN m.med_free ELSE m.med_used
allocate_meta(m) ==
    IF HasFreeBlock(m) THEN [m EXCEPT !.med_free = med[m.med_free]]
                       ELSE [m EXCEPT !.med_used = @ + 1]

(***************************************************************************)
(* acquire: take the head of the free list, else the first unused extent,  *)
(* else return null (no change).  The medium paths first copy the valid    *)
(* DescMeta to the other slot and take a block there.  The last store of   *)
(* this step is the first one of ExtentDesc::construct.                    *)
(***************************************************************************)
Acquire(t) ==
    /\ Running
    /\ \/ /\ Valid.ext_free # Null
          /\ op' = [pc |-> "construct", type |-> t, ext |-> Valid.ext_free,
                    next |-> desc[Valid.ext_free].next,
                    runs |-> IF t = "medium" THEN TakenBlock(Valid) ELSE Null,
                    fresh |-> FALSE]
       \/ /\ Valid.ext_free = Null
          /\ Valid.ext_used < Total
          /\ op' = [pc |-> "construct", type |-> t, ext |-> Valid.ext_used,
                    next |-> Null,
                    runs |-> IF t = "medium" THEN TakenBlock(Valid) ELSE Null,
                    fresh |-> TRUE]
    /\ meta' = IF t = "medium" THEN [meta EXCEPT ![nid] = allocate_meta(Valid)]
                               ELSE meta
    /\ desc' = [desc EXCEPT ![op'.ext].type = t]
    /\ UNCHANGED <<head, med, durable, mode, cur, loaded, held, half>>

(* The rest of construct; only the plain paths wait for the write-back.    *)
Construct ==
    /\ op.pc = "construct"
    /\ desc' = [desc EXCEPT ![op.ext].next = op.next, ![op.ext].runs = op.runs]
    /\ ddesc' = IF op.type = "medium" THEN ddesc
                ELSE [ddesc EXCEPT ![op.ext] = desc'[op.ext]]
    /\ op' = [op EXCEPT !.pc = "commit"]
    /\ UNCHANGED <<head, meta, med, dhead, dmeta, dmed, mode, cur, loaded, held, half>>

(* The DescMeta after the extent is taken off the free list or the tail.   *)
Granted(m) == IF op.fresh THEN [m EXCEPT !.ext_used = @ + 1]
                          ELSE [m EXCEPT !.ext_free = op.next]

(* plain_reclaim, plain_allocate: one store to the valid line, flushed.    *)
PlainCommit ==
    /\ op.pc = "commit" /\ op.type # "medium"
    /\ meta' = [meta EXCEPT ![oid] = Granted(@)]
    /\ dmeta' = [dmeta EXCEPT ![oid] = meta'[oid]]
    /\ held' = held \union {op.ext}
    /\ op' = Idle
    /\ UNCHANGED <<head, desc, med, dhead, ddesc, dmed, mode, cur, loaded, half>>

(* Mutant of ComplexCommit: mind_ is flipped without waiting for meta_[nid]. *)
ComplexCommitNoFence ==
    /\ op.pc = "commit" /\ op.type = "medium"
    /\ meta' = [meta EXCEPT ![nid] = Granted(@)]
    /\ op' = [op EXCEPT !.pc = "flip"]
    /\ UNCHANGED <<head, desc, med, durable, mode, cur, loaded, held, half>>

(* complex_reclaim, complex_allocate: the fence after the write-back of    *)
(* meta_[nid] also completes the one that construct left pending.          *)
ComplexCommit ==
    /\ op.pc = "commit" /\ op.type = "medium"
    /\ meta' = [meta EXCEPT ![nid] = Granted(@)]
    /\ dmeta' = [dmeta EXCEPT ![nid] = meta'[nid]]
    /\ ddesc' = [ddesc EXCEPT ![op.ext] = desc[op.ext]]
    /\ op' = [op EXCEPT !.pc = "flip"]
    /\ UNCHANGED <<head, desc, med, dhead, dmed, mode, cur, loaded, held, half>>

(* mind_ = nid, flushed: the commit point of a medium acquire.             *)
ComplexFlip ==
    /\ op.pc = "flip"
    /\ head' = [head EXCEPT !.mind = nid]
    /\ dhead' = head'
    /\ held' = held \union {op.ext}
    /\ op' = Idle
    /\ UNCHANGED <<meta, desc, med, dmeta, ddesc, dmed, mode, cur, loaded, half>>
-----------------------------------------------------------------------------
(* Mutant of PlainRelease: the link is made before desc->next is durable. *)
PlainReleaseNoFlush(e) ==
    /\ mode \in {"open", "closing"} /\ op.pc = "idle"
    /\ e \in held \ half /\ desc[e].type # "medium"
    /\ desc' = [desc EXCEPT ![e].next = Valid.ext_free]
    /\ held' = held \ {e}
    /\ op' = [Idle EXCEPT !.pc = "link", !.ext = e]
    /\ UNCHANGED <<head, meta, med, durable, mode, cur, loaded, half>>

(***************************************************************************)
(* release.  The run cases release an extent while the pool is in use and, *)
(* when it has no busy run left, while it is being closed.                 *)
(***************************************************************************)
PlainRelease(e) ==
    /\ mode \in {"open", "closing"} /\ op.pc = "idle"
    /\ e \in held \ half /\ desc[e].type # "medium"
    /\ desc' = [desc EXCEPT ![e].next = Valid.ext_free]
    /\ ddesc' = [ddesc EXCEPT ![e] = desc'[e]]
    /\ held' = held \ {e}
    /\ op' = [Idle EXCEPT !.pc = "link", !.ext = e]
    /\ UNCHANGED <<head, meta, med, dhead, dmeta, dmed, mode, cur, loaded, half>>

(* meta.ext_free = desc, flushed. *)
PlainLink ==
    /\ op.pc = "link"
    /\ meta' = [meta EXCEPT ![oid].ext_free = op.ext]
    /\ dmeta' = [dmeta EXCEPT ![oid] = meta'[oid]]
    /\ op' = [op EXCEPT !.pc = "destruct"]
    /\ UNCHANGED <<head, desc, med, dhead, ddesc, dmed, mode, cur, loaded, held, half>>

(* Stores to three lines: the descriptor, its block and meta_[nid]. *)
ComplexRelease(e) ==
    /\ mode \in {"open", "closing"} /\ op.pc = "idle"
    /\ e \in held \ half /\ desc[e].type = "medium"
    /\ desc' = [desc EXCEPT ![e].next = Valid.ext_free]
    /\ med' = [med EXCEPT ![desc[e].runs] = Valid.med_free]
    /\ meta' = [meta EXCEPT ![nid] = [Valid EXCEPT !.ext_free = e,
                                                   !.med_free = desc[e].runs]]
    /\ held' = held \ {e}
    /\ op' = [Idle EXCEPT !.pc = "fence", !.ext = e, !.runs = desc[e].runs]
    /\ UNCHANGED <<head, durable, mode, cur, loaded, half>>

(* Mutant of ReleaseFence: the line of the MediumMeta block is not waited for. *)
ReleaseFenceTwoLines ==
    /\ op.pc = "fence"
    /\ ddesc' = [ddesc EXCEPT ![op.ext] = desc[op.ext]]
    /\ dmeta' = [dmeta EXCEPT ![nid] = meta[nid]]
    /\ op' = [op EXCEPT !.pc = "unflip"]
    /\ UNCHANGED <<cached, dhead, dmed, mode, cur, loaded, held, half>>

(* persist_wait_finish for the three lines. *)
ReleaseFence ==
    /\ op.pc = "fence"
    /\ ddesc' = [ddesc EXCEPT ![op.ext] = desc[op.ext]]
    /\ dmed' = [dmed EXCEPT ![op.runs] = med[op.runs]]
    /\ dmeta' = [dmeta EXCEPT ![nid] = meta[nid]]
    /\ op' = [op EXCEPT !.pc = "unflip"]
    /\ UNCHANGED <<cached, dhead, mode, cur, loaded, held, half>>

(* mind_ = nid, flushed: the commit point of a medium release.             *)
ReleaseFlip ==
    /\ op.pc = "unflip"
    /\ head' = [head EXCEPT !.mind = nid]
    /\ dhead' = head'
    /\ op' = [op EXCEPT !.pc = "destruct"]
    /\ UNCHANGED <<meta, desc, med, dmeta, ddesc, dmed, mode, cur, loaded, held, half>>

(* The last step of both: desc->type() = kInvalid, flushed. *)
Destruct ==
    /\ op.pc = "destruct"
    /\ desc' = [desc EXCEPT ![op.ext].type = "kInvalid"]
    /\ ddesc' = [ddesc EXCEPT ![op.ext] = desc'[op.ext]]
    /\ op' = Idle
    /\ UNCHANGED <<head, meta, med, dhead, dmeta, dmed, mode, cur, loaded, held, half>>
-----------------------------------------------------------------------------
(***************************************************************************)
(* Closing the pool.  The destructors of the run and large bins call       *)
(* record for each extent with free regions (half) and release for each    *)
(* extent without busy ones; full extents are left alone.                  *)
(***************************************************************************)
CloseBegin ==
    /\ Running
    /\ half' \in SUBSET held
    /\ mode' = "closing"
    /\ UNCHANGED <<cached, durable, op, cur, loaded, held>>

(* record: two lines are stored, one clwb is issued, nothing is fenced.    *)
(* loaded collects the recorded extents, to record each one once.          *)
record(e) ==
    /\ mode = "closing" /\ op.pc = "idle"
    /\ e \in half \ loaded
    /\ desc' = [desc EXCEPT ![e].next = head.occupied]
    /\ head' = [head EXCEPT !.occupied = e]
    /\ loaded' = loaded \union {e}
    /\ UNCHANGED <<meta, med, durable, mode, op, cur, held, half>>

(* Mutant of ShutdownFlush: the write-backs of record are not waited for. *)
ShutdownNoFence ==
    /\ mode = "closing" /\ op.pc = "idle"
    /\ loaded = half
    /\ dhead' = head /\ dmeta' = meta
    /\ op' = [op EXCEPT !.pc = "shutdown"]
    /\ UNCHANGED <<cached, ddesc, dmed, mode, cur, loaded, held, half>>

(* shutdown, first fence: it also completes the write-backs of record.     *)
ShutdownFlush ==
    /\ mode = "closing" /\ op.pc = "idle"
    /\ loaded = half
    /\ dhead' = head /\ dmeta' = meta /\ ddesc' = desc /\ dmed' = med
    /\ op' = [op EXCEPT !.pc = "shutdown"]
    /\ UNCHANGED <<cached, mode, cur, loaded, held, half>>

(* stat_ = kConsistent, flushed; the process ends. *)
ShutdownCommit ==
    /\ op.pc = "shutdown"
    /\ head' = [head EXCEPT !.stat = "kConsistent"]
    /\ dhead' = head'
    /\ mode' = "down" /\ op' = Idle /\ loaded' = {}
    /\ UNCHANGED <<meta, desc, med, dmeta, ddesc, dmed, cur, held, half>>
-----------------------------------------------------------------------------
(* Opening an existing pool: reboot is always called, and resume after it  *)
(* when the pool was not closed correctly.                                 *)
Open ==
    /\ mode = "down"
    /\ mode' = IF head.stat = "kConsistent" THEN "reboot" ELSE "resume"
    /\ cur' = head.occupied
    /\ UNCHANGED <<cached, durable, op, loaded, held, half>>

(* Mutant of Unlink: next_ is left as it is ("it can be left out"). *)
UnlinkKeepsNext ==
    /\ cur # Null
    /\ cur' = desc[cur].next
    /\ UNCHANGED <<cached, durable, mode, op, held, half>>

(* One iteration of the loop of reboot or resume. *)
Unlink ==
    /\ cur # Null
    /\ cur' = desc[cur].next
    /\ desc' = [desc EXCEPT ![cur].next = Null]
    /\ UNCHANGED <<head, meta, med, durable, mode, op, held, half>>

RebootLoop ==
    /\ mode = "reboot"
    /\ Unlink
    /\ loaded' = loaded \union {cur}

(* The extents in use according to one copy of the metadata. *)
Allocated(h, m, d) ==
    {e \in 0 .. m[h.mind].ext_used - 1 :
        d[e].type # "kInvalid" /\ e # m[h.mind].ext_free}

(* stat_ and occupied_ share a line; the fence completes the loop's clwbs. *)
RebootFinish ==
    /\ mode = "reboot" /\ cur = Null
    /\ head' = [head EXCEPT !.stat = "kVolatile", !.occupied = Null]
    /\ dhead' = head' /\ ddesc' = desc
    /\ mode' = "open"
    /\ held' = Allocated(head, meta, desc)
    /\ half' = {} /\ loaded' = {}
    /\ UNCHANGED <<meta, desc, med, dmeta, dmed, op, cur>>

(* Power fails between the two stores of RebootFinish, and after the cache *)
(* has written their line back: resume will walk what is left of the list. *)
RebootTorn ==
    /\ mode = "reboot" /\ cur = Null /\ "reboot" \in CrashModes
    /\ head' = [head EXCEPT !.stat = "kVolatile"] /\ dhead' = head'
    /\ meta' = dmeta /\ desc' = ddesc /\ med' = dmed
    /\ mode' = "down" /\ op' = Idle /\ loaded' = {}
    /\ UNCHANGED <<dmeta, ddesc, dmed, cur, held, half>>

ResumeLoop ==
    /\ mode = "resume" /\ op.pc = "idle"
    /\ Unlink
    /\ UNCHANGED loaded

(* Mutant of ResumeHead: the head of the free list keeps its type. *)
ResumeKeepsHead ==
    /\ mode = "resume" /\ op.pc = "idle" /\ cur = Null
    /\ head' = [head EXCEPT !.occupied = Null]
    /\ op' = [op EXCEPT !.pc = "resumed"]
    /\ UNCHANGED <<meta, desc, med, durable, mode, cur, loaded, held, half>>

(* occupied_ = nullptr; the head of the free list becomes kInvalid. *)
ResumeHead ==
    /\ mode = "resume" /\ op.pc = "idle" /\ cur = Null
    /\ head' = [head EXCEPT !.occupied = Null]
    /\ desc' = IF Valid.ext_free = Null THEN desc
               ELSE [desc EXCEPT ![Valid.ext_free].type = "kInvalid"]
    /\ op' = [op EXCEPT !.pc = "resumed"]
    /\ UNCHANGED <<meta, med, durable, mode, cur, loaded, held, half>>

(* The fence of resume.  The scan that follows puts every descriptor that  *)
(* is not kInvalid back under the control of a run case.                   *)
ResumeFinish ==
    /\ op.pc = "resumed"
    /\ dhead' = head /\ ddesc' = desc
    /\ mode' = "open" /\ op' = Idle
    /\ held' = Allocated(head, meta, desc)
    /\ half' = {}
    /\ UNCHANGED <<cached, dmeta, dmed, cur, loaded>>
-----------------------------------------------------------------------------
(* The cache may write any dirty line back at any moment. *)
Evict ==
    /\ \/ dhead # head /\ dhead' = head /\ UNCHANGED <<dmeta, ddesc, dmed>>
       \/ \E i \in {0, 1} :
             /\ dmeta[i] # meta[i]
             /\ dmeta' = [dmeta EXCEPT ![i] = meta[i]]
             /\ UNCHANGED <<dhead, ddesc, dmed>>
       \/ \E e \in Extent :
             /\ ddesc[e] # desc[e]
             /\ ddesc' = [ddesc EXCEPT ![e] = desc[e]]
             /\ UNCHANGED <<dhead, dmeta, dmed>>
       \/ \E b \in Extent :
             /\ dmed[b] # med[b]
             /\ dmed' = [dmed EXCEPT ![b] = med[b]]
             /\ UNCHANGED <<dhead, dmeta, ddesc>>
    /\ UNCHANGED <<cached, mode, op, cur, loaded, held, half>>

(* Power fails: the cache and the locals are lost. *)
Crash ==
    /\ mode \in CrashModes
    /\ head' = dhead /\ meta' = dmeta /\ desc' = ddesc /\ med' = dmed
    /\ mode' = "down" /\ op' = Idle /\ cur' = Null /\ loaded' = {}
    /\ UNCHANGED <<durable, held, half>>

Next ==
    \/ \E t \in Requests : Acquire(t)
    \/ Construct \/ PlainCommit \/ ComplexCommit \/ ComplexFlip
    \/ \E e \in Extent : PlainRelease(e) \/ ComplexRelease(e) \/ record(e)
    \/ PlainLink \/ ReleaseFence \/ ReleaseFlip \/ Destruct
    \/ CloseBegin \/ ShutdownFlush \/ ShutdownCommit
    \/ Open \/ RebootLoop \/ RebootFinish \/ RebootTorn
    \/ ResumeLoop \/ ResumeHead \/ ResumeFinish
    \/ Evict \/ Crash

Spec == Init /\ [][Next]_vars

(* The loops of reboot and resume run to completion unless power fails. *)
FairSpec == Spec /\ WF_vars(RebootLoop \/ RebootFinish)
                 /\ WF_vars(ResumeLoop \/ ResumeHead \/ ResumeFinish)
-----------------------------------------------------------------------------
(* Every variable, every durable copy and every local has its type. *)
TypeOK ==
    /\ head \in Head /\ dhead \in Head
    /\ meta \in [{0, 1} -> DescMeta] /\ dmeta \in [{0, 1} -> DescMeta]
    /\ desc \in [Extent -> ExtentDesc] /\ ddesc \in [Extent -> ExtentDesc]
    /\ med \in [Extent -> Block] /\ dmed \in [Extent -> Block]
    /\ mode \in {"open", "closing", "down", "reboot", "resume"}
    /\ op \in Operation
    /\ cur \in Pointer
    /\ loaded \in SUBSET Extent /\ held \in SUBSET Extent /\ half \in SUBSET Extent

(***************************************************************************)
(* An extent that acquire returned and that nobody released is in use in   *)
(* the cached metadata and in the durable metadata: neither later calls    *)
(* nor a crash at any point of any operation can put it back on the free   *)
(* list or beyond ext_used, and acquire never works on it again.  This is  *)
(* the failure atomicity that meta-file.h claims for ext_free, ext_used    *)
(* and mind_ ("failure atomic").                                           *)
(***************************************************************************)
HeldIsAllocated ==
    /\ held \subseteq Allocated(head, meta, desc)
    /\ held \subseteq Allocated(dhead, dmeta, ddesc)
    /\ op.pc \in {"construct", "commit", "flip"} => op.ext \notin held

(* What a list of descriptors or blocks holds: the least set that has its  *)
(* first element and the next one of each of its elements.                 *)
HasNext(S, next) == \A x \in S : next[x] # Null => next[x] \in S
ListFrom(first, next) ==
    {e \in Extent : \A S \in SUBSET Extent :
        (first # Null => first \in S) /\ HasNext(S, next) => e \in S}

EndsInNull(list, next) == list # {} => \E e \in list : next[e] = Null

FreeList(h, m, d) ==
    ListFrom(m[h.mind].ext_free, [e \in Extent |-> d[e].next])

(***************************************************************************)
(* No extent leaks.  Whenever no operation is in flight, each extent below *)
(* ext_used is either held or on the free list, which is acyclic: no       *)
(* sequence of acquires, releases, closes, reboots and crashes strands one.*)
(***************************************************************************)
NoExtentLeak ==
    Running =>
        LET free == FreeList(head, meta, desc)
        IN /\ free \union held = 0 .. Valid.ext_used - 1
           /\ free \intersect held = {}
           /\ EndsInNull(free, [e \in Extent |-> desc[e].next])

(***************************************************************************)
(* What resume relies on ("at most one extent was being reclaimed or       *)
(* released"): in the state a crash would leave now, the free list holds   *)
(* exactly the kInvalid descriptors and, at its head, at most one other.   *)
(***************************************************************************)
OneOutstanding ==
    LET m == dmeta[dhead.mind]
        invalid == {e \in 0 .. m.ext_used - 1 : ddesc[e].type = "kInvalid"}
    IN FreeList(dhead, dmeta, ddesc) = invalid \union ({m.ext_free} \ {Null})

(***************************************************************************)
(* MediumMeta blocks, in the state a crash would leave now: no two medium  *)
(* extents share a block, no block in use is on med_free, none is lost,    *)
(* and med_used never passes the end of the MedMeta segment.               *)
(***************************************************************************)
MediumBlocks ==
    LET m == dmeta[dhead.mind]
        medium == {e \in Allocated(dhead, dmeta, ddesc) : ddesc[e].type = "medium"}
        free == ListFrom(m.med_free, dmed)
        used == {ddesc[e].runs : e \in medium}
    IN /\ \A e, f \in medium : ddesc[e].runs = ddesc[f].runs => e = f
       /\ used \intersect free = {}
       /\ used \union free = 0 .. m.med_used - 1
       /\ m.med_used <= Total
       /\ EndsInNull(free, dmed)

(* reboot: "@param extents all half-used extents if the pool is correctly  *)
(* closed" (meta-file.h:290): the loop ends with every extent that the     *)
(* close recorded.                                                         *)
RebootReadsAll == mode = "reboot" /\ cur = Null => loaded = half

(* assert(desc->type() != kInvalid) in the loops of reboot and resume      *)
(* (meta-file.h:302, 332): the occupied_ list never leads to a free extent.*)
NoFreeOccupied ==
    mode \in {"reboot", "resume"} /\ cur # Null => desc[cur].type # "kInvalid"

(* Opening a pool terminates, whatever a crash left in the next_ fields    *)
(* that the occupied_ list runs through.                                   *)
OpenTerminates == mode \in {"reboot", "resume"} ~> mode \in {"open", "down"}

(***************************************************************************)
(* MetaHead implements ExtentPool.  Whatever the state of the four kinds of*)
(* lines, the run cases see a set of extents: acquire hands out one that   *)
(* is not out, release takes it back, a close and a reboot keep the set,   *)
(* and a crash at any point keeps it too, but for the extent whose release *)
(* it interrupted (meta-file.h, acquire, release, shutdown, reboot and     *)
(* resume).                                                                *)
(***************************************************************************)
Up == mode \in {"open", "closing"}
Clean == head.stat = "kConsistent"
Pool == INSTANCE ExtentPool WITH out <- held, up <- Up, clean <- Clean
ImplementsPool == Pool!Spec
-----------------------------------------------------------------------------
(***************************************************************************)
(* The inductive invariant behind HeldIsAllocated.                         *)
(***************************************************************************)
Acquiring == op.pc \in {"construct", "commit", "flip"}
Releasing == op.pc \in {"link", "fence", "unflip", "destruct"}

(* Which operations each mode admits, and the stat_ that goes with it. *)
ModeInv ==
    /\ Acquiring => mode = "open"
    /\ Releasing => mode \in {"open", "closing"}
    /\ op.pc = "shutdown" => mode = "closing"
    /\ op.pc = "resumed" => mode = "resume" /\ cur = Null
    /\ mode \in {"open", "closing", "resume"} => head.stat = "kVolatile"
    /\ mode = "reboot" => head.stat = "kConsistent"
    /\ mode = "closing" => half \subseteq held
    /\ mode = "open" => half = {}

(* Every store to stat_, mind_ and the valid DescMeta is flushed at once. *)
HeadSync ==
    /\ dhead.mind = head.mind
    /\ dhead.stat = head.stat
    /\ dmeta[oid] = meta[oid]

(* Where a descriptor may differ from its durable copy. *)
DescSync ==
    \A e \in Extent :
        /\ \/ desc[e].type = ddesc[e].type
           \/ op.pc \in {"construct", "commit"} /\ e = op.ext
           \/ op.pc = "resumed" /\ e = Valid.ext_free
        /\ \/ desc[e].next = ddesc[e].next
           \/ op.pc \in {"commit", "fence"} /\ e = op.ext
           \/ mode = "closing" /\ op.pc # "shutdown" /\ e \in half
           \/ mode \in {"reboot", "resume"} /\ desc[e].next = Null

(* A free list m.ext_free in the descriptors d: every free descriptor      *)
(* points to a kInvalid one, none to the head, and no two to the same.     *)
IsFree(m, d, e) == d[e].type = "kInvalid" \/ e = m.ext_free
FreeInv(m, d) ==
    /\ m.ext_free # Null => m.ext_free < m.ext_used
    /\ \A e \in 0 .. m.ext_used - 1 :
          IsFree(m, d, e) /\ d[e].next # Null =>
              /\ d[e].next < m.ext_used
              /\ d[e].next # m.ext_free
              /\ d[d[e].next].type = "kInvalid"
              /\ \A f \in 0 .. m.ext_used - 1 :
                    IsFree(m, d, f) /\ d[f].next = d[e].next => f = e

(* The head of the free list is kInvalid but during an acquire, at the end *)
(* of a release and after a crash in either.                               *)
HeadInvalid ==
    \/ Valid.ext_free = Null
    \/ desc[Valid.ext_free].type = "kInvalid"
    \/ Acquiring \/ op.pc = "destruct"
    \/ mode \in {"down", "resume"} /\ head.stat = "kVolatile" /\ op.pc # "resumed"

(* The locals of an acquire and the slot it prepares. *)
AcquireInv ==
    Acquiring =>
        /\ op.ext \in Extent
        /\ desc[op.ext].type = op.type
        /\ \/ /\ op.fresh
              /\ op.ext = Valid.ext_used /\ op.next = Null /\ Valid.ext_free = Null
           \/ /\ ~op.fresh
              /\ op.ext = Valid.ext_free
              /\ op.next = desc[op.ext].next /\ op.next = ddesc[op.ext].next
        /\ op.pc = "commit" /\ op.type # "medium" => ddesc[op.ext] = desc[op.ext]
        /\ op.pc \in {"construct", "commit"} /\ op.type = "medium" =>
              /\ meta[nid].ext_used = Valid.ext_used
              /\ meta[nid].ext_free = Valid.ext_free
        /\ op.pc = "flip" =>
              /\ op.type = "medium"
              /\ ddesc[op.ext] = desc[op.ext]
              /\ dmeta[nid] = meta[nid]
              /\ meta[nid].ext_used = Granted(Valid).ext_used
              /\ meta[nid].ext_free = Granted(Valid).ext_free

(* The locals of a release and the slot it prepares. *)
ReleaseInv ==
    Releasing =>
        /\ op.ext \in 0 .. Valid.ext_used - 1
        /\ op.ext \notin held
        /\ op.pc = "destruct" => op.ext = Valid.ext_free
        /\ op.pc # "destruct" =>
              /\ op.ext # Valid.ext_free
              /\ desc[op.ext].type # "kInvalid"
              /\ desc[op.ext].next = Valid.ext_free
        /\ op.pc \in {"link", "unflip"} => ddesc[op.ext] = desc[op.ext]
        /\ op.pc \in {"fence", "unflip"} =>
              /\ meta[nid].ext_used = Valid.ext_used
              /\ meta[nid].ext_free = op.ext
        /\ op.pc = "unflip" => dmeta[nid] = meta[nid]

IInv ==
    /\ TypeOK /\ ModeInv /\ HeadSync /\ DescSync
    /\ FreeInv(meta[oid], desc) /\ FreeInv(meta[oid], ddesc)
    /\ HeadInvalid /\ AcquireInv /\ ReleaseInv
    /\ HeldIsAllocated

(* What ImplementsPool needs besides IInv: the extents in use that are not *)
(* held are the one whose release is in flight or was cut by a crash.      *)
InUse == Allocated(head, meta, desc)
Doubt == IF Releasing THEN {op.ext} ELSE {}
PoolInv ==
    IF Up \/ Clean THEN InUse \subseteq held \union Doubt
    ELSE \E x \in Extent : InUse \subseteq held \union {x}
=============================================================================
