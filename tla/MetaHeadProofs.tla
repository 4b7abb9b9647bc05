--------------------------- MODULE MetaHeadProofs ---------------------------
(***************************************************************************)
(* The theorems about MetaHead, for any number of extents and with power   *)
(* failures in any mode.  An extent in use is never handed out again       *)
(* (HeldIsAllocated): the argument is the inductive invariant IInv of      *)
(* MetaHead, and one lemma per action shows that it is preserved.  The     *)
(* second part maps MetaHead to ExtentPool, the pool of extents that the   *)
(* slab allocator relies on: every step is a step of the pool or a         *)
(* stutter.  The third part follows the linked lists: no extent leaks, a   *)
(* reboot reads what the close recorded, and MediumMeta blocks are neither *)
(* shared nor lost.                                                        *)
(***************************************************************************)
EXTENDS MetaHead, TLAPS

-----------------------------------------------------------------------------
(* Updates of the records keep their types. *)

(* A step of the operation in flight keeps its locals typed. *)
LEMMA OpStep ==
    ASSUME NEW o \in Operation,
           NEW p \in {"commit", "flip", "unflip", "destruct", "shutdown", "resumed"}
    PROVE  [o EXCEPT !.pc = p] \in Operation
  BY Zenon DEF Operation

(* An acquire that begins, on an extent of the pool, has typed locals. *)
LEMMA OpStart ==
    ASSUME NEW t \in Type, NEW e \in Pointer, NEW n \in Pointer,
           NEW b \in Block, NEW f \in BOOLEAN
    PROVE  [pc |-> "construct", type |-> t, ext |-> e, next |-> n, runs |-> b,
            fresh |-> f] \in Operation
  BY Zenon DEF Operation

(* The operation that has ended is typed. *)
LEMMA IdleTyped == Idle \in Operation
  BY Zenon DEF Idle, Operation, Pointer, Block, Type

(* Stores to the head line: mind_, occupied_, stat_. *)
LEMMA HeadStores ==
    ASSUME NEW h \in Head
    PROVE  /\ \A i \in {0, 1} : [h EXCEPT !.mind = i] \in Head
           /\ \A p \in Pointer : [h EXCEPT !.occupied = p] \in Head
           /\ [h EXCEPT !.stat = "kConsistent"] \in Head
           /\ [h EXCEPT !.stat = "kVolatile"] \in Head
           /\ [h EXCEPT !.stat = "kVolatile", !.occupied = Null] \in Head
  BY Zenon DEF Head, Pointer

(* Stores to a descriptor: type_, next_, runs_. *)
LEMMA DescStores ==
    ASSUME NEW d \in [Extent -> ExtentDesc], NEW e \in Extent
    PROVE  /\ \A t \in Type \union {"kInvalid"} :
                 [d EXCEPT ![e].type = t] \in [Extent -> ExtentDesc]
           /\ \A p \in Pointer : [d EXCEPT ![e].next = p] \in [Extent -> ExtentDesc]
           /\ \A p \in Pointer, b \in Block :
                 [d EXCEPT ![e].next = p, ![e].runs = b] \in [Extent -> ExtentDesc]
  BY Zenon DEF ExtentDesc

(* Stores to a DescMeta. *)
LEMMA MetaStores ==
    ASSUME NEW m \in DescMeta
    PROVE  /\ \A n \in 0 .. Total : [m EXCEPT !.ext_used = n] \in DescMeta
           /\ \A p \in Pointer : [m EXCEPT !.ext_free = p] \in DescMeta
           /\ \A b \in Block : [m EXCEPT !.med_free = b] \in DescMeta
           /\ [m EXCEPT !.med_used = m.med_used + 1] \in DescMeta
           /\ \A p \in Pointer, b \in Block :
                 [m EXCEPT !.ext_free = p, !.med_free = b] \in DescMeta
<1>1. /\ \A n \in 0 .. Total : [m EXCEPT !.ext_used = n] \in DescMeta
      /\ [m EXCEPT !.med_used = m.med_used + 1] \in DescMeta
  BY DEF DescMeta
<1>2. \A p \in Pointer : [m EXCEPT !.ext_free = p] \in DescMeta
  BY Zenon DEF DescMeta
<1>3. \A b \in Block : [m EXCEPT !.med_free = b] \in DescMeta
  BY Zenon DEF DescMeta
<1>4. ASSUME NEW p \in Pointer, NEW b \in Block
      PROVE  [m EXCEPT !.ext_free = p, !.med_free = b] \in DescMeta
  BY Zenon DEF DescMeta
<1> QED  BY <1>1, <1>2, <1>3, <1>4, Zenon

(* The two slots of meta_ and the fields of the valid one. *)
LEMMA Slots ==
    ASSUME TypeOK
    PROVE  /\ oid \in {0, 1} /\ nid \in {0, 1} /\ nid # oid
           /\ Valid \in DescMeta
           /\ Valid.ext_used \in 0 .. Total
           /\ Valid.ext_free \in Pointer
  BY DEF TypeOK, Head, DescMeta, oid, nid, Valid

-----------------------------------------------------------------------------
(* The free list under the changes that the actions make to it. *)

(* Stores that free no descriptor, and that change the link of a free one  *)
(* only to null, keep the free list well formed.                           *)
LEMMA FreeStable ==
    ASSUME NEW m \in DescMeta,
           NEW d \in [Extent -> ExtentDesc], NEW d2 \in [Extent -> ExtentDesc],
           FreeInv(m, d),
           \A e \in 0 .. m.ext_used - 1 :
              /\ IsFree(m, d2, e) =>
                    IsFree(m, d, e) /\ (d2[e].next = d[e].next \/ d2[e].next = Null)
              /\ d[e].type = "kInvalid" /\ e # m.ext_free => d2[e].type = "kInvalid"
    PROVE  FreeInv(m, d2)
  BY TotalAssumption, NullAssumption DEF FreeInv, IsFree, DescMeta, ExtentDesc,
     Pointer, Extent

(* Taking the head of the list, once its descriptor is constructed. *)
LEMMA FreePop ==
    ASSUME NEW m \in DescMeta, NEW m2 \in DescMeta, NEW d \in [Extent -> ExtentDesc],
           FreeInv(m, d), m.ext_free # Null, d[m.ext_free].type # "kInvalid",
           m2.ext_used = m.ext_used, m2.ext_free = d[m.ext_free].next
    PROVE  FreeInv(m2, d)
  BY TotalAssumption, NullAssumption, SMTT(30) DEF FreeInv, IsFree, DescMeta,
     ExtentDesc, Pointer, Extent

(* Taking the first unused extent, once its descriptor is constructed. *)
LEMMA FreeGrow ==
    ASSUME NEW m \in DescMeta, NEW m2 \in DescMeta, NEW d \in [Extent -> ExtentDesc],
           FreeInv(m, d), m.ext_free = Null, m.ext_used \in Extent,
           d[m.ext_used].type # "kInvalid",
           m2.ext_used = m.ext_used + 1, m2.ext_free = Null
    PROVE  FreeInv(m2, d)
  BY TotalAssumption, NullAssumption, SMTT(30) DEF FreeInv, IsFree, DescMeta, ExtentDesc,
     Pointer, Extent

(* Putting an extent that is in use in front of the list. *)
LEMMA FreePush ==
    ASSUME NEW m \in DescMeta, NEW m2 \in DescMeta, NEW d \in [Extent -> ExtentDesc],
           NEW e \in 0 .. m.ext_used - 1,
           FreeInv(m, d), ~IsFree(m, d, e), d[e].next = m.ext_free,
           m.ext_free # Null => d[m.ext_free].type = "kInvalid",
           m2.ext_used = m.ext_used, m2.ext_free = e
    PROVE  FreeInv(m2, d)
  BY TotalAssumption, NullAssumption, SMTT(30) DEF FreeInv, IsFree, DescMeta, ExtentDesc,
     Pointer, Extent

(* Writing a descriptor back never disturbs the durable free list: what    *)
(* the cached copy frees, the durable one has freed, with the same link or *)
(* a null one.                                                             *)
LEMMA WriteBack ==
    ASSUME IInv, NEW x \in 0 .. Valid.ext_used - 1
    PROVE  /\ IsFree(Valid, desc, x) =>
                 /\ IsFree(Valid, ddesc, x)
                 /\ desc[x].next = ddesc[x].next \/ desc[x].next = Null
           /\ ddesc[x].type = "kInvalid" /\ x # Valid.ext_free =>
                 desc[x].type = "kInvalid"
<1>1. x \in Extent /\ x # Valid.ext_used
  BY Slots, TotalAssumption DEF IInv, Extent
<1>2. op.pc \in {"construct", "commit"} /\ x = op.ext =>
         /\ x = Valid.ext_free /\ desc[x].next = ddesc[x].next
         /\ desc[x].type # "kInvalid"
  BY <1>1, Zenon DEF IInv, TypeOK, AcquireInv, Acquiring, Operation, Type
<1>3. op.pc = "fence" /\ x = op.ext => ~IsFree(Valid, desc, x)
  BY Zenon DEF IInv, ReleaseInv, Releasing, IsFree
<1>4. mode = "closing" /\ x \in half => ~IsFree(Valid, desc, x)
  BY Zenon DEF IInv, ModeInv, HeldIsAllocated, Allocated, IsFree, Valid, oid
<1> QED
  BY <1>1, <1>2, <1>3, <1>4, Zenon DEF IInv, DescSync, IsFree

(* An extent in use is on neither copy of the free list. *)
LEMMA HeldNotFree ==
    ASSUME IInv, NEW e \in held
    PROVE  /\ e \in Extent /\ e \in 0 .. Valid.ext_used - 1 /\ e # Valid.ext_free
           /\ desc[e].type # "kInvalid" /\ ddesc[e].type # "kInvalid"
  BY Zenon DEF IInv, TypeOK, HeldIsAllocated, Allocated, HeadSync, Valid, oid

-----------------------------------------------------------------------------
(* Every action preserves IInv. *)

(* acquire, up to the first store of construct. *)
LEMMA AcquireStep ==
    ASSUME IInv, NEW t \in Requests, Acquire(t)
    PROVE  IInv'
<1> USE TotalAssumption, NullAssumption DEF IInv, cached, durable
<1>1. TakenBlock(Valid) \in Block /\ Null \in Block
  BY Slots, Zenon DEF TypeOK, Acquire, Running, TakenBlock, DescMeta, Block
<1>2. op' \in Operation /\ op'.ext \in Extent
  <2>1. Valid.ext_free # Null =>
           Valid.ext_free \in Extent /\ desc[Valid.ext_free].next \in Pointer
    BY Slots, Zenon DEF TypeOK, ExtentDesc, Pointer
  <2>2. Valid.ext_used < Total => Valid.ext_used \in Extent
    BY Slots DEF Extent
  <2>3. t \in Type
    BY RequestAssumption, Zenon DEF Type
  <2> DEFINE b == IF t = "medium" THEN TakenBlock(Valid) ELSE Null
  <2>4. b \in Block
    BY <1>1, Zenon
  <2>5. CASE Valid.ext_free # Null
    <3>1. op' = [pc |-> "construct", type |-> t, ext |-> Valid.ext_free,
                 next |-> desc[Valid.ext_free].next, runs |-> b, fresh |-> FALSE]
      BY <2>5, Zenon DEF Acquire
    <3> HIDE DEF b
    <3> QED  BY <2>1, <2>3, <2>4, <2>5, <3>1, OpStart, Zenon DEF Pointer
  <2>6. CASE Valid.ext_free = Null
    <3>1. /\ op' = [pc |-> "construct", type |-> t, ext |-> Valid.ext_used,
                    next |-> Null, runs |-> b, fresh |-> TRUE]
          /\ Valid.ext_used < Total
      BY <2>6, Zenon DEF Acquire
    <3> HIDE DEF b
    <3> QED  BY <2>2, <2>3, <2>4, <3>1, OpStart, Zenon DEF Pointer
  <2> QED
    BY <2>5, <2>6, Zenon
<1>3. meta' \in [{0, 1} -> DescMeta]
  BY Slots, MetaStores, Zenon DEF TypeOK, Acquire, Running, allocate_meta,
     HasFreeBlock
<1>4. desc' \in [Extent -> ExtentDesc]
  BY <1>2, DescStores, RequestAssumption, Zenon DEF TypeOK, Acquire, Running, Type
<1>5. TypeOK'
  BY <1>1, <1>2, <1>3, <1>4, Zenon DEF TypeOK, Acquire, Running
<1>6. ModeInv'
  BY DEF Acquire, Running, ModeInv, Acquiring, Releasing, Idle
<1>7. HeadSync'
  BY <1>5, Slots, Zenon DEF Acquire, Running, TypeOK, Head, HeadSync, oid, nid
<1>8. DescSync'
  BY DEF Acquire, Running, DescSync, Valid, oid
<1>9. FreeInv(meta[oid], desc)'
  <2>1. meta'[oid'] = Valid
    BY Slots, Zenon DEF Acquire, Running, TypeOK, Valid, oid, nid
  <2>2. \A x \in 0 .. Valid.ext_used - 1 :
           /\ IsFree(Valid, desc', x) =>
                 /\ IsFree(Valid, desc, x)
                 /\ desc'[x].next = desc[x].next \/ desc'[x].next = Null
           /\ desc[x].type = "kInvalid" /\ x # Valid.ext_free =>
                 desc'[x].type = "kInvalid"
    BY Slots, SMTT(30) DEF Acquire, Running, TypeOK, Extent, DescSync, AcquireInv,
       ReleaseInv, Acquiring, Releasing, IsFree, Valid, oid
  <2> QED
    BY <2>1, <2>2, <1>5, Slots, FreeStable, SMTT(30) DEF TypeOK, Valid
<1>10. FreeInv(meta[oid], ddesc)'
  BY Slots DEF Acquire, Running, FreeInv, IsFree, oid, nid, TypeOK
<1>11. HeadInvalid'
  BY DEF Acquire, Running, HeadInvalid, Acquiring, Valid, oid
<1>12. AcquireInv'
  <2>1. /\ desc'[op'.ext].type = t /\ op'.type = t /\ op'.pc = "construct"
        /\ desc'[op'.ext].next = desc[op'.ext].next
    BY <1>2 DEF Acquire, TypeOK, ExtentDesc
  <2>2. meta'[oid'] = Valid
    BY Slots, Zenon DEF Acquire, TypeOK, Valid, oid, nid
  <2>3. \/ /\ op'.fresh
           /\ op'.ext = Valid.ext_used /\ op'.next = Null /\ Valid.ext_free = Null
        \/ /\ ~op'.fresh
           /\ op'.ext = Valid.ext_free
           /\ op'.next = desc[op'.ext].next
    BY DEF Acquire
  <2>4. desc[op'.ext].next = ddesc[op'.ext].next
    BY <1>2, Zenon DEF Acquire, Running, DescSync
  <2>5. t = "medium" => /\ meta'[nid'].ext_used = Valid.ext_used
                        /\ meta'[nid'].ext_free = Valid.ext_free
    BY Slots, Zenon DEF Acquire, TypeOK, DescMeta, allocate_meta, nid
  <2> QED
    BY <1>2, <2>1, <2>2, <2>3, <2>4, <2>5, Zenon DEF Acquire, AcquireInv, Valid
<1>13. ReleaseInv'
  BY DEF Acquire, Running, ReleaseInv, Releasing, Idle
<1>14. HeldIsAllocated'
  BY <1>5, Slots DEF Acquire, Running, HeldIsAllocated, Allocated, HeadSync,
     Valid, oid, Idle, ModeInv, Acquiring, Releasing
<1> QED
  BY <1>5, <1>6, <1>7, <1>8, <1>9, <1>10, <1>11, <1>12, <1>13, <1>14, Zenon

(* The rest of construct. *)
LEMMA ConstructStep ==
    ASSUME IInv, Construct
    PROVE  IInv'
<1> USE TotalAssumption, NullAssumption DEF IInv, cached, durable
<1>1. op' \in Operation
  BY OpStep, Zenon DEF TypeOK, Construct
<1>2. desc' \in [Extent -> ExtentDesc]
  BY DescStores, ZenonT(30) DEF TypeOK, Construct, AcquireInv, Acquiring, Operation
<1>3. ddesc' \in [Extent -> ExtentDesc]
  BY <1>2, Zenon DEF TypeOK, Construct, AcquireInv, Acquiring
<1>4. TypeOK'
  BY <1>1, <1>2, <1>3, Zenon DEF TypeOK, Construct
<1>Op. /\ op.ext \in Extent /\ desc[op.ext].type # "kInvalid"
       /\ op.ext = Valid.ext_free \/ op.ext = Valid.ext_used
       /\ \/ op.next = Null
          \/ op.next = desc[op.ext].next /\ op.next = ddesc[op.ext].next
  BY Zenon DEF Construct, TypeOK, AcquireInv, Acquiring, Operation, Type
<1>Cached. \A x \in Extent :
              /\ desc'[x].type = desc[x].type
              /\ desc'[x].next = IF x = op.ext THEN op.next ELSE desc[x].next
  <2>1. desc \in [Extent -> ExtentDesc]
    BY Zenon DEF TypeOK
  <2> HIDE DEF IInv
  <2> QED  BY <2>1, <1>Op, Zenon DEF Construct, ExtentDesc
<1>Durable. \A x \in Extent :
               ddesc'[x] = ddesc[x] \/ (x = op.ext /\ ddesc'[x] = desc'[x])
  <2>1. ddesc \in [Extent -> ExtentDesc]
    BY Zenon DEF TypeOK
  <2> HIDE DEF IInv
  <2> QED  BY <2>1, <1>Op, Zenon DEF Construct
<1>5. ModeInv'
  BY DEF Construct, ModeInv, Acquiring, Releasing, Idle
<1>6. HeadSync'
  BY Zenon DEF Construct, HeadSync, oid
<1>7. DescSync'
  BY <1>4, Slots DEF Construct, TypeOK, DescSync, ModeInv, Valid, oid
<1>8. FreeInv(meta[oid], desc)'
  <2>1. meta'[oid'] = Valid
    BY Slots, Zenon DEF Construct, TypeOK, Valid, oid, nid
  <2>2. \A x \in 0 .. Valid.ext_used - 1 :
           /\ IsFree(Valid, desc', x) =>
                 /\ IsFree(Valid, desc, x)
                 /\ desc'[x].next = desc[x].next \/ desc'[x].next = Null
           /\ desc[x].type = "kInvalid" /\ x # Valid.ext_free =>
                 desc'[x].type = "kInvalid"
    BY <1>Op, <1>Cached, Slots DEF IsFree, Extent
  <2> QED
    BY <2>1, <2>2, <1>4, Slots, FreeStable, SMTT(30) DEF TypeOK, Valid
<1>9. FreeInv(meta[oid], ddesc)'
  <2>1. meta'[oid'] = Valid
    BY Slots, Zenon DEF Construct, TypeOK, Valid, oid, nid
  <2>2. \A x \in 0 .. Valid.ext_used - 1 :
           /\ IsFree(Valid, ddesc', x) =>
                 /\ IsFree(Valid, ddesc, x)
                 /\ ddesc'[x].next = ddesc[x].next \/ ddesc'[x].next = Null
           /\ ddesc[x].type = "kInvalid" /\ x # Valid.ext_free =>
                 ddesc'[x].type = "kInvalid"
    BY <1>Op, <1>Cached, <1>Durable, Slots DEF IsFree, Extent
  <2> QED
    BY <2>1, <2>2, <1>4, Slots, FreeStable, SMTT(30) DEF TypeOK, Valid
<1>10. HeadInvalid'
  BY DEF Construct, HeadInvalid, Acquiring, Valid, oid
<1>11. AcquireInv'
  BY <1>4, Slots DEF Construct, TypeOK, AcquireInv, Acquiring, Releasing,
     ModeInv, Idle, Operation, ExtentDesc, Valid, oid, nid, Granted
<1>12. ReleaseInv'
  BY SMTT(30) DEF Construct, ReleaseInv, Releasing, Idle
<1>13. HeldIsAllocated'
  BY <1>4, Slots DEF Construct, TypeOK, HeldIsAllocated, Allocated, HeadSync,
     DescSync, ModeInv, Idle, Operation, Acquiring, Releasing, AcquireInv,
     ReleaseInv, Valid, oid, nid
<1> QED
  BY <1>4, <1>5, <1>6, <1>7, <1>8, <1>9, <1>10, <1>11, <1>12, <1>13, Zenon

(* The commit of plain_reclaim and plain_allocate. *)
LEMMA PlainCommitStep ==
    ASSUME IInv, PlainCommit
    PROVE  IInv'
<1> USE TotalAssumption, NullAssumption DEF IInv, cached, durable
<1>1. op.next \in Pointer /\ (op.fresh => Valid.ext_used + 1 \in 0 .. Total)
  BY Slots DEF TypeOK, PlainCommit, AcquireInv, Acquiring, Extent, Operation
<1>2. Granted(Valid) \in DescMeta
  BY <1>1, Slots, MetaStores, Zenon DEF TypeOK, PlainCommit, Granted
<1>3. /\ op' \in Operation
      /\ meta' \in [{0, 1} -> DescMeta]
      /\ dmeta' \in [{0, 1} -> DescMeta]
      /\ held' \in SUBSET Extent
  BY <1>2, Slots, IdleTyped, Zenon DEF TypeOK, PlainCommit, AcquireInv, Acquiring,
     Valid
<1>4. TypeOK'
  BY <1>1, <1>2, <1>3, Zenon DEF TypeOK, PlainCommit
<1>5. ModeInv'
  BY Zenon DEF PlainCommit, ModeInv, Acquiring, Releasing, Idle
<1>6. HeadSync'
  BY <1>4, Slots, SMTT(30) DEF PlainCommit, TypeOK, Head, HeadSync, oid, nid
<1>7. DescSync'
  BY <1>4, Slots DEF PlainCommit, TypeOK, DescSync, ModeInv, Valid, oid,
     Idle, Operation, ExtentDesc, AcquireInv, ReleaseInv, Acquiring,
     Releasing
<1>Taken. /\ op.ext \in Extent /\ op.ext # Null /\ op.ext \notin held
          /\ desc[op.ext].type # "kInvalid" /\ ddesc[op.ext] = desc[op.ext]
  BY Slots DEF PlainCommit, TypeOK, AcquireInv, Acquiring, HeldIsAllocated,
     Operation,
     Type, Extent
<1>Head. /\ op.fresh => /\ Valid.ext_free = Null /\ Valid.ext_used = op.ext
                        /\ meta'[oid'].ext_used = Valid.ext_used + 1
                        /\ meta'[oid'].ext_free = Null
         /\ ~op.fresh => /\ Valid.ext_free = op.ext
                         /\ meta'[oid'].ext_used = Valid.ext_used
                         /\ meta'[oid'].ext_free = desc[op.ext].next
  BY Slots, SMTT(30) DEF PlainCommit, TypeOK, AcquireInv, Acquiring, Granted,
     Valid, oid, nid,
     DescMeta
<1>Next. /\ meta'[oid'] \in DescMeta
         /\ meta'[oid'].ext_free # Null =>
               /\ meta'[oid'].ext_free # op.ext
               /\ desc[meta'[oid'].ext_free].type = "kInvalid"
               /\ ddesc[meta'[oid'].ext_free].type = "kInvalid"
  <2>1. meta'[oid'] \in DescMeta
    BY <1>4, Zenon DEF TypeOK, Head, oid
  <2>2. ~op.fresh => op.ext \in 0 .. Valid.ext_used - 1
    BY <1>Taken, <1>Head, Slots DEF FreeInv, Valid, Extent
  <2> QED
    BY <2>1, <2>2, <1>Taken, <1>Head DEF FreeInv, IsFree, Valid
<1>8. FreeInv(meta[oid], desc)'
  <2>1. FreeInv(meta'[oid'], desc)
    <3>1. CASE op.fresh
      BY <3>1, <1>Taken, <1>Head, <1>Next, Slots, FreeGrow, Zenon DEF TypeOK, Valid
    <3>2. CASE ~op.fresh
      BY <3>2, <1>Taken, <1>Head, <1>Next, Slots, FreePop, Zenon DEF TypeOK, Valid
    <3> QED  BY <3>1, <3>2, Zenon
  <2> QED  BY <2>1, Zenon DEF PlainCommit
<1>9. FreeInv(meta[oid], ddesc)'
  <2>1. FreeInv(meta'[oid'], ddesc)
    <3>1. CASE op.fresh
      BY <3>1, <1>Taken, <1>Head, <1>Next, Slots, FreeGrow DEF TypeOK, Valid
    <3>2. CASE ~op.fresh
      BY <3>2, <1>Taken, <1>Head, <1>Next, Slots, FreePop, SMTT(30) DEF TypeOK, Valid
    <3> QED  BY <3>1, <3>2, Zenon
  <2> QED  BY <2>1, Zenon DEF PlainCommit
<1>10. HeadInvalid'
  BY <1>Next, SMTT(30) DEF PlainCommit, HeadInvalid, Valid
<1>11. AcquireInv'
  BY Zenon DEF PlainCommit, AcquireInv, Acquiring, Idle
<1>12. ReleaseInv'
  BY Zenon DEF PlainCommit, ReleaseInv, Releasing, Idle
<1>13. HeldIsAllocated'
  <2>1. \A e \in held' : /\ e \in 0 .. meta'[oid'].ext_used - 1
                         /\ e # meta'[oid'].ext_free
                         /\ desc[e].type # "kInvalid" /\ ddesc[e].type # "kInvalid"
    BY <1>Taken, <1>Head, <1>Next, Slots DEF PlainCommit, HeldIsAllocated, Allocated,
       HeadSync, Valid, oid, Extent, FreeInv
  <2> QED
    BY <2>1, <1>6, ZenonT(30) DEF PlainCommit, HeldIsAllocated, Allocated,
       HeadSync, oid, Idle
<1> QED
  BY <1>4, <1>5, <1>6, <1>7, <1>8, <1>9, <1>10, <1>11, <1>12, <1>13, Zenon

(* The fence of complex_reclaim and complex_allocate. *)
LEMMA ComplexCommitStep ==
    ASSUME IInv, ComplexCommit
    PROVE  IInv'
<1> USE TotalAssumption, NullAssumption DEF IInv, cached, durable
<1>1. op.next \in Pointer /\ (op.fresh => meta[nid].ext_used + 1 \in 0 .. Total)
  BY Slots DEF TypeOK, ComplexCommit, AcquireInv, Acquiring, Extent,
     Operation
<1>2. Granted(meta[nid]) \in DescMeta
  BY <1>1, Slots, MetaStores, Zenon DEF TypeOK, ComplexCommit, Granted
<1>3. /\ op' \in Operation
      /\ meta' \in [{0, 1} -> DescMeta]
      /\ dmeta' \in [{0, 1} -> DescMeta]
      /\ ddesc' \in [Extent -> ExtentDesc]
  BY <1>2, Slots, OpStep, Zenon DEF TypeOK, ComplexCommit, AcquireInv, Acquiring
<1>4. TypeOK'
  BY <1>1, <1>2, <1>3, Zenon DEF TypeOK, ComplexCommit
<1>5. ModeInv'
  BY DEF ComplexCommit, ModeInv, Acquiring, Releasing, Idle
<1>6. HeadSync'
  BY <1>4, Slots, Zenon DEF ComplexCommit, TypeOK, Head, HeadSync, oid, nid
<1>7. DescSync'
  <2>1. Valid' = Valid
    BY Slots, Zenon DEF ComplexCommit, TypeOK, Valid, oid
  <2>2. \A x \in Extent : ddesc'[x] = IF x = op.ext THEN desc[x] ELSE ddesc[x]
    <3>1. ddesc \in [Extent -> ExtentDesc]
      BY Zenon DEF TypeOK
    <3> HIDE DEF IInv
    <3> QED  BY <3>1, Zenon DEF ComplexCommit
  <2>3. op.pc = "commit" /\ op'.pc = "flip" /\ op'.ext = op.ext
    BY Zenon DEF ComplexCommit, TypeOK, Operation
  <2> QED  BY <2>1, <2>2, <2>3 DEF ComplexCommit, DescSync
<1>8. FreeInv(meta[oid], desc)'
  BY Slots DEF ComplexCommit, FreeInv, IsFree, oid, nid, TypeOK
<1>9. FreeInv(meta[oid], ddesc)'
  <2>1. meta'[oid'] = Valid
    BY Slots, Zenon DEF ComplexCommit, TypeOK, Valid, oid, nid
  <2>2. \A x \in 0 .. Valid.ext_used - 1 :
           /\ IsFree(Valid, ddesc', x) =>
                 /\ IsFree(Valid, ddesc, x)
                 /\ ddesc'[x].next = ddesc[x].next \/ ddesc'[x].next = Null
           /\ ddesc[x].type = "kInvalid" /\ x # Valid.ext_free =>
                 ddesc'[x].type = "kInvalid"
    BY Slots DEF ComplexCommit, TypeOK, Extent, DescSync, AcquireInv,
       ReleaseInv, Acquiring, Releasing, IsFree, Valid, oid
  <2> QED
    BY <2>1, <2>2, <1>4, Slots, FreeStable, Zenon DEF TypeOK, Valid
<1>10. HeadInvalid'
  BY SMTT(30) DEF ComplexCommit, HeadInvalid, Acquiring, Valid, oid
<1>11. AcquireInv'
  BY <1>4, Slots, SMTT(30) DEF ComplexCommit, TypeOK, AcquireInv, Acquiring,
     Releasing, ModeInv, Idle, Operation, ExtentDesc, Valid, oid, nid, Granted
<1>12. ReleaseInv'
  BY DEF ComplexCommit, ReleaseInv, Releasing, Idle
<1>13. HeldIsAllocated'
  BY <1>4, Slots DEF ComplexCommit, HeldIsAllocated, Allocated, HeadSync,
     Valid, oid, Idle, ModeInv, Acquiring, Releasing
<1> QED
  BY <1>4, <1>5, <1>6, <1>7, <1>8, <1>9, <1>10, <1>11, <1>12, <1>13, Zenon

(* The flip of mind_ that commits a medium acquire. *)
LEMMA ComplexFlipStep ==
    ASSUME IInv, ComplexFlip
    PROVE  IInv'
<1> USE TotalAssumption, NullAssumption DEF IInv, cached, durable
<1>1. /\ head' \in Head /\ dhead' \in Head
      /\ op' \in Operation /\ held' \in SUBSET Extent
  BY Slots, HeadStores, IdleTyped, Zenon DEF TypeOK, ComplexFlip, AcquireInv,
     Acquiring
<1>2. TypeOK'
  BY <1>1, Zenon DEF TypeOK, ComplexFlip
<1>3. ModeInv'
  BY DEF ComplexFlip, ModeInv, Acquiring, Releasing, Idle
<1>4. HeadSync'
  BY <1>2, Slots, Zenon DEF ComplexFlip, TypeOK, Head, HeadSync, oid, nid,
     AcquireInv, ReleaseInv, Acquiring, Releasing
<1>5. DescSync'
  BY <1>2, Slots DEF ComplexFlip, TypeOK, DescSync, ModeInv, Valid, oid,
     Idle, Operation, ExtentDesc, AcquireInv, ReleaseInv, Acquiring,
     Releasing
<1>Taken. /\ op.ext \in Extent /\ op.ext # Null /\ op.ext \notin held
          /\ desc[op.ext].type # "kInvalid" /\ ddesc[op.ext] = desc[op.ext]
  BY Slots DEF ComplexFlip, TypeOK, AcquireInv, Acquiring, HeldIsAllocated,
     Operation,
     Type, Extent
<1>Head. /\ op.fresh => /\ Valid.ext_free = Null /\ Valid.ext_used = op.ext
                        /\ meta'[oid'].ext_used = Valid.ext_used + 1
                        /\ meta'[oid'].ext_free = Null
         /\ ~op.fresh => /\ Valid.ext_free = op.ext
                         /\ meta'[oid'].ext_used = Valid.ext_used
                         /\ meta'[oid'].ext_free = desc[op.ext].next
  BY Slots DEF ComplexFlip, TypeOK, AcquireInv, Acquiring, Granted, Valid, oid, nid,
     DescMeta
<1>Next. /\ meta'[oid'] \in DescMeta
         /\ meta'[oid'].ext_free # Null =>
               /\ meta'[oid'].ext_free # op.ext
               /\ desc[meta'[oid'].ext_free].type = "kInvalid"
               /\ ddesc[meta'[oid'].ext_free].type = "kInvalid"
  <2>1. meta'[oid'] \in DescMeta
    BY <1>2, Zenon DEF TypeOK, Head, oid
  <2>2. ~op.fresh => op.ext \in 0 .. Valid.ext_used - 1
    BY <1>Taken, <1>Head, Slots DEF FreeInv, Valid, Extent
  <2> QED
    BY <2>1, <2>2, <1>Taken, <1>Head DEF FreeInv, IsFree, Valid
<1>6. FreeInv(meta[oid], desc)'
  <2>1. FreeInv(meta'[oid'], desc)
    BY <1>Taken, <1>Head, <1>Next, Slots, FreeGrow, FreePop DEF TypeOK, Valid
  <2> QED  BY <2>1, Zenon DEF ComplexFlip
<1>7. FreeInv(meta[oid], ddesc)'
  <2>1. FreeInv(meta'[oid'], ddesc)
    BY <1>Taken, <1>Head, <1>Next, Slots, FreeGrow, FreePop DEF TypeOK, Valid
  <2> QED  BY <2>1, Zenon DEF ComplexFlip
<1>8. HeadInvalid'
  BY <1>Next, Zenon DEF ComplexFlip, HeadInvalid, Valid
<1>9. AcquireInv'
  BY Zenon DEF ComplexFlip, AcquireInv, Acquiring, Idle
<1>10. ReleaseInv'
  BY Zenon DEF ComplexFlip, ReleaseInv, Releasing, Idle
<1>11. HeldIsAllocated'
  <2>1. \A e \in held' : /\ e \in 0 .. meta'[oid'].ext_used - 1
                         /\ e # meta'[oid'].ext_free
                         /\ desc[e].type # "kInvalid" /\ ddesc[e].type # "kInvalid"
    BY <1>Taken, <1>Head, <1>Next, Slots DEF ComplexFlip, HeldIsAllocated, Allocated,
       HeadSync, Valid, oid, Extent, FreeInv
  <2> QED
    BY <2>1, <1>4 DEF ComplexFlip, HeldIsAllocated, Allocated, HeadSync, oid, Idle
<1> QED
  BY <1>2, <1>3, <1>4, <1>5, <1>6, <1>7, <1>8, <1>9, <1>10, <1>11, Zenon

(* plain_release, up to the flush of the descriptor. *)
LEMMA PlainReleaseStep ==
    ASSUME IInv, NEW e \in Extent, PlainRelease(e)
    PROVE  IInv'
<1> USE TotalAssumption, NullAssumption DEF IInv, cached, durable
<1>1. desc' \in [Extent -> ExtentDesc]
  BY Slots, DescStores, SMTT(30) DEF TypeOK, PlainRelease
<1>2. /\ ddesc' \in [Extent -> ExtentDesc]
      /\ held' \in SUBSET Extent
  BY <1>1, Zenon DEF TypeOK, PlainRelease
<1>3. op' \in Operation
  BY Zenon DEF TypeOK, PlainRelease, Operation, Idle, Pointer, Block, Type
<1>4. TypeOK'
  BY <1>1, <1>2, <1>3, Zenon DEF TypeOK, PlainRelease
<1>5. ModeInv'
  BY Zenon DEF PlainRelease, ModeInv, Acquiring, Releasing, Idle
<1>6. HeadSync'
  BY Zenon DEF PlainRelease, HeadSync, oid
<1>7. DescSync'
  BY <1>4, Slots DEF PlainRelease, TypeOK, DescSync, ModeInv, Valid, oid
<1>8. FreeInv(meta[oid], desc)'
  <2>1. meta'[oid'] = Valid
    BY Slots, Zenon DEF PlainRelease, TypeOK, Valid, oid, nid
  <2>2. \A x \in 0 .. Valid.ext_used - 1 :
           /\ IsFree(Valid, desc', x) =>
                 /\ IsFree(Valid, desc, x)
                 /\ desc'[x].next = desc[x].next \/ desc'[x].next = Null
           /\ desc[x].type = "kInvalid" /\ x # Valid.ext_free =>
                 desc'[x].type = "kInvalid"
    BY HeldNotFree, Slots, SMTT(30) DEF PlainRelease, TypeOK, ExtentDesc, IsFree, Extent
  <2> QED
    BY <2>1, <2>2, <1>4, Slots, FreeStable, SMTT(30) DEF TypeOK, Valid
<1>9. FreeInv(meta[oid], ddesc)'
  <2>1. meta'[oid'] = Valid
    BY Slots, Zenon DEF PlainRelease, TypeOK, Valid, oid, nid
  <2>2. \A x \in 0 .. Valid.ext_used - 1 :
           /\ IsFree(Valid, ddesc', x) =>
                 /\ IsFree(Valid, ddesc, x)
                 /\ ddesc'[x].next = ddesc[x].next \/ ddesc'[x].next = Null
           /\ ddesc[x].type = "kInvalid" /\ x # Valid.ext_free =>
                 ddesc'[x].type = "kInvalid"
    BY HeldNotFree, Slots, SMTT(30) DEF PlainRelease, TypeOK, ExtentDesc, IsFree, Extent
  <2> QED
    BY <2>1, <2>2, <1>4, Slots, FreeStable, SMTT(30) DEF TypeOK, Valid
<1>10. HeadInvalid'
  BY DEF PlainRelease, HeadInvalid, Acquiring, Valid, oid
<1>11. AcquireInv'
  BY Zenon DEF PlainRelease, AcquireInv, Acquiring, Idle
<1>12. ReleaseInv'
  BY <1>4, Slots DEF PlainRelease, TypeOK, ReleaseInv, Acquiring, Releasing,
     ModeInv, Idle, Operation, ExtentDesc, Valid, oid, nid, HeldIsAllocated,
     Allocated
<1>13. HeldIsAllocated'
  BY DEF PlainRelease, HeldIsAllocated, Allocated
<1> QED
  BY <1>4, <1>5, <1>6, <1>7, <1>8, <1>9, <1>10, <1>11, <1>12, <1>13, Zenon

(* complex_release, up to its fence. *)
LEMMA ComplexReleaseStep ==
    ASSUME IInv, NEW e \in Extent, ComplexRelease(e)
    PROVE  IInv'
<1> USE TotalAssumption, NullAssumption DEF IInv, cached, durable
<1>1. desc' \in [Extent -> ExtentDesc]
  BY Slots, DescStores DEF TypeOK, ComplexRelease
<1>2. /\ med' \in [Extent -> Block]
      /\ desc[e].runs \in Block
  BY Slots, Zenon DEF TypeOK, ComplexRelease, DescMeta, ExtentDesc
<1>3. meta' \in [{0, 1} -> DescMeta]
  BY <1>2, Slots, MetaStores, Zenon DEF TypeOK, ComplexRelease, Pointer
<1>4. op' \in Operation /\ held' \in SUBSET Extent
  BY <1>2, Zenon DEF TypeOK, ComplexRelease, Operation, Idle, Pointer, Type, Block
<1>5. TypeOK'
  BY <1>1, <1>2, <1>3, <1>4, Zenon DEF TypeOK, ComplexRelease
<1>6. ModeInv'
  BY Zenon DEF ComplexRelease, ModeInv, Acquiring, Releasing, Idle
<1>7. HeadSync'
  BY <1>5, Slots, Zenon DEF ComplexRelease, TypeOK, Head, HeadSync, oid, nid
<1>8. DescSync'
  BY DEF ComplexRelease, DescSync, Valid, oid
<1>9. FreeInv(meta[oid], desc)'
  <2>1. meta'[oid'] = Valid
    BY Slots, Zenon DEF ComplexRelease, TypeOK, Valid, oid, nid
  <2>2. \A x \in 0 .. Valid.ext_used - 1 :
           /\ IsFree(Valid, desc', x) =>
                 /\ IsFree(Valid, desc, x)
                 /\ desc'[x].next = desc[x].next \/ desc'[x].next = Null
           /\ desc[x].type = "kInvalid" /\ x # Valid.ext_free =>
                 desc'[x].type = "kInvalid"
    BY HeldNotFree, Slots, SMTT(30) DEF ComplexRelease, TypeOK, ExtentDesc,
       IsFree, Extent
  <2> QED
    BY <2>1, <2>2, <1>5, Slots, FreeStable, Zenon DEF TypeOK, Valid
<1>10. FreeInv(meta[oid], ddesc)'
  BY Slots, SMTT(30) DEF ComplexRelease, FreeInv, IsFree, oid, nid, TypeOK
<1>11. HeadInvalid'
  BY <1>5, Slots DEF ComplexRelease, TypeOK, HeadInvalid, ModeInv, Acquiring,
     Releasing, Valid, oid, Idle
<1>12. AcquireInv'
  BY SMTT(30) DEF ComplexRelease, AcquireInv, Acquiring, Idle
<1>13. ReleaseInv'
  BY <1>5, Slots DEF ComplexRelease, TypeOK, ReleaseInv, Acquiring,
     Releasing, ModeInv, Idle, Operation, ExtentDesc, Valid, oid, nid,
     HeldIsAllocated, Allocated
<1>14. HeldIsAllocated'
  BY <1>5, Slots DEF ComplexRelease, HeldIsAllocated, Allocated, HeadSync,
     Valid, oid, Idle, ModeInv, Acquiring, Releasing
<1> QED
  BY <1>5, <1>6, <1>7, <1>8, <1>9, <1>10, <1>11, <1>12, <1>13, <1>14, Zenon

(* record. *)
LEMMA recordStep ==
    ASSUME IInv, NEW e \in Extent, record(e)
    PROVE  IInv'
<1> USE TotalAssumption, NullAssumption DEF IInv, cached, durable
<1>1. desc' \in [Extent -> ExtentDesc]
  BY DescStores, Zenon DEF TypeOK, record, Head
<1>2. head' \in Head /\ loaded' \in SUBSET Extent
  BY HeadStores, Zenon DEF TypeOK, record, Pointer
<1>3. TypeOK'
  BY <1>1, <1>2, Zenon DEF TypeOK, record
<1>4. ModeInv'
  BY DEF record, ModeInv, Acquiring, Releasing, Idle
<1>5. HeadSync'
  BY DEF record, HeadSync, oid
<1>6. DescSync'
  BY DEF record, DescSync, Valid, oid
<1>7. FreeInv(meta[oid], desc)'
  <2>1. meta'[oid'] = Valid
    BY Slots DEF record, TypeOK, Valid, oid, nid
  <2>2. \A x \in 0 .. Valid.ext_used - 1 :
           /\ IsFree(Valid, desc', x) =>
                 /\ IsFree(Valid, desc, x)
                 /\ desc'[x].next = desc[x].next \/ desc'[x].next = Null
           /\ desc[x].type = "kInvalid" /\ x # Valid.ext_free =>
                 desc'[x].type = "kInvalid"
    BY HeldNotFree, Slots, SMTT(30) DEF record, ModeInv, TypeOK, ExtentDesc, IsFree, Extent
  <2> QED
    BY <2>1, <2>2, <1>3, Slots, FreeStable, Zenon DEF TypeOK, Valid
<1>8. FreeInv(meta[oid], ddesc)'
  BY DEF record, FreeInv, IsFree, oid
<1>9. HeadInvalid'
  BY DEF record, HeadInvalid, Acquiring, Valid, oid
<1>10. AcquireInv'
  BY Zenon DEF record, AcquireInv, Acquiring, Idle
<1>11. ReleaseInv'
  BY Zenon DEF record, ReleaseInv, Releasing, Idle
<1>12. HeldIsAllocated'
  BY DEF record, HeldIsAllocated, Allocated
<1> QED
  BY <1>3, <1>4, <1>5, <1>6, <1>7, <1>8, <1>9, <1>10, <1>11, <1>12, Zenon

(* The store of ext_free that commits a plain release. *)
LEMMA PlainLinkStep ==
    ASSUME IInv, PlainLink
    PROVE  IInv'
<1> USE TotalAssumption, NullAssumption DEF IInv, cached, durable
<1>1. /\ op' \in Operation
      /\ meta' \in [{0, 1} -> DescMeta]
  <2>1. op' \in Operation
    BY OpStep, Zenon DEF TypeOK, PlainLink
  <2>2. op.ext \in Pointer
    BY Zenon DEF TypeOK, Operation
  <2>3. [meta[oid] EXCEPT !.ext_free = op.ext] \in DescMeta
    BY <2>2, Slots, MetaStores, Zenon DEF Valid
  <2>4. meta' \in [{0, 1} -> DescMeta]
    BY <2>3, Slots, Zenon DEF TypeOK, PlainLink
  <2> QED  BY <2>1, <2>4, Zenon
<1>2. dmeta' \in [{0, 1} -> DescMeta]
  BY <1>1, Slots, Zenon DEF TypeOK, PlainLink
<1>3. TypeOK'
  BY <1>1, <1>2, Zenon DEF TypeOK, PlainLink
<1>4. ModeInv'
  BY DEF PlainLink, ModeInv, Acquiring, Releasing, Idle
<1>5. HeadSync'
  BY <1>3, Slots, Zenon DEF PlainLink, TypeOK, Head, HeadSync, oid, nid
<1>6. DescSync'
  BY SMTT(30) DEF PlainLink, DescSync, Valid, oid
<1>7. FreeInv(meta[oid], desc)'
  BY <1>3, Slots, FreePush, SMTT(30) DEF PlainLink, TypeOK, ReleaseInv, Releasing,
     HeadInvalid, Acquiring, ModeInv, HeadSync, DescSync, IsFree, Valid, oid,
     nid, DescMeta
<1>8. FreeInv(meta[oid], ddesc)'
  <2>1. /\ op.ext \in 0 .. Valid.ext_used - 1 /\ op.ext # Valid.ext_free
        /\ ddesc[op.ext].type # "kInvalid" /\ ddesc[op.ext].next = Valid.ext_free
    BY Zenon DEF PlainLink, ReleaseInv, Releasing
  <2>2. Valid.ext_free # Null => ddesc[Valid.ext_free].type = "kInvalid"
    BY Slots, Zenon DEF PlainLink, HeadInvalid, Acquiring, ModeInv, Releasing,
       DescSync, Pointer
  <2>3. /\ meta'[oid'] \in DescMeta
        /\ meta'[oid'].ext_used = Valid.ext_used /\ meta'[oid'].ext_free = op.ext
    BY <1>3, Slots, Zenon DEF PlainLink, TypeOK, Head, DescMeta, ReleaseInv,
       Releasing, Valid, oid, nid
  <2>4. FreeInv(meta'[oid'], ddesc)
    BY <2>1, <2>2, <2>3, Slots, FreePush, Zenon DEF TypeOK, IsFree, Valid
  <2> QED
    BY <2>4, Zenon DEF PlainLink
<1>9. HeadInvalid'
  BY DEF PlainLink, HeadInvalid, Acquiring, Valid, oid
<1>10. AcquireInv'
  BY SMTT(30) DEF PlainLink, AcquireInv, Acquiring, Idle
<1>11. ReleaseInv'
  BY <1>3, Slots, SMTT(30) DEF PlainLink, TypeOK, ReleaseInv, Acquiring, Releasing,
     ModeInv, Idle, Operation, ExtentDesc, Valid, oid, nid, HeldIsAllocated,
     Allocated
<1>12. HeldIsAllocated'
  BY <1>3, Slots DEF PlainLink, TypeOK, HeldIsAllocated, Allocated, HeadSync,
     DescSync, ModeInv, Idle, Operation, Acquiring, Releasing, AcquireInv,
     ReleaseInv, Valid, oid, nid
<1> QED
  BY <1>3, <1>4, <1>5, <1>6, <1>7, <1>8, <1>9, <1>10, <1>11, <1>12, Zenon

(* The fence of complex_release. *)
LEMMA ReleaseFenceStep ==
    ASSUME IInv, ReleaseFence
    PROVE  IInv'
<1> USE TotalAssumption, NullAssumption DEF IInv, cached, durable
<1>1. /\ op' \in Operation
      /\ ddesc' \in [Extent -> ExtentDesc]
      /\ dmed' \in [Extent -> Block]
      /\ dmeta' \in [{0, 1} -> DescMeta]
  BY Slots, OpStep, Zenon DEF TypeOK, ReleaseFence, ReleaseInv, Releasing, Extent
<1>2. TypeOK'
  BY <1>1, Zenon DEF TypeOK, ReleaseFence
<1>3. ModeInv'
  BY DEF ReleaseFence, ModeInv, Acquiring, Releasing, Idle
<1>4. HeadSync'
  BY DEF ReleaseFence, HeadSync, oid
<1>5. DescSync'
  BY <1>2, Slots DEF ReleaseFence, TypeOK, DescSync, ModeInv, Valid, oid
<1>6. FreeInv(meta[oid], desc)'
  BY DEF ReleaseFence, FreeInv, IsFree, oid
<1>7. FreeInv(meta[oid], ddesc)'
  <2>1. meta'[oid'] = Valid
    BY Slots, Zenon DEF ReleaseFence, TypeOK, Valid, oid, nid
  <2>2. \A x \in 0 .. Valid.ext_used - 1 :
           /\ IsFree(Valid, ddesc', x) =>
                 /\ IsFree(Valid, ddesc, x)
                 /\ ddesc'[x].next = ddesc[x].next \/ ddesc'[x].next = Null
           /\ ddesc[x].type = "kInvalid" /\ x # Valid.ext_free =>
                 ddesc'[x].type = "kInvalid"
    BY Slots DEF ReleaseFence, TypeOK, Extent, DescSync, AcquireInv,
       ReleaseInv, Acquiring, Releasing, IsFree, Valid, oid
  <2> QED
    BY <2>1, <2>2, <1>2, Slots, FreeStable, Zenon DEF TypeOK, Valid
<1>8. HeadInvalid'
  BY DEF ReleaseFence, HeadInvalid, Acquiring, Valid, oid
<1>9. AcquireInv'
  BY SMTT(30) DEF ReleaseFence, AcquireInv, Acquiring, Idle
<1>10. ReleaseInv'
  BY <1>2, Slots DEF ReleaseFence, TypeOK, ReleaseInv, Acquiring, Releasing,
     ModeInv, Idle, Operation, ExtentDesc, Valid, oid, nid, HeldIsAllocated,
     Allocated
<1>11. HeldIsAllocated'
  BY <1>2, Slots DEF ReleaseFence, HeldIsAllocated, Allocated, HeadSync,
     Valid, oid, Idle, ModeInv, Acquiring, Releasing
<1> QED
  BY <1>2, <1>3, <1>4, <1>5, <1>6, <1>7, <1>8, <1>9, <1>10, <1>11, Zenon

(* The flip of mind_ that commits a medium release. *)
LEMMA ReleaseFlipStep ==
    ASSUME IInv, ReleaseFlip
    PROVE  IInv'
<1> USE TotalAssumption, NullAssumption DEF IInv, cached, durable
<1>1. /\ head' \in Head /\ dhead' \in Head
      /\ op' \in Operation
  BY Slots, HeadStores, OpStep, Zenon DEF TypeOK, ReleaseFlip
<1>2. TypeOK'
  BY <1>1, Zenon DEF TypeOK, ReleaseFlip
<1>3. ModeInv'
  BY DEF ReleaseFlip, ModeInv, Acquiring, Releasing, Idle
<1>4. HeadSync'
  BY <1>2, Slots DEF ReleaseFlip, TypeOK, Head, HeadSync, oid, nid,
     AcquireInv, ReleaseInv, Acquiring, Releasing
<1>5. DescSync'
  BY SMTT(30) DEF ReleaseFlip, DescSync, Valid, oid
<1>6. FreeInv(meta[oid], desc)'
  BY <1>2, Slots, FreePush DEF ReleaseFlip, TypeOK, ReleaseInv, Releasing,
     HeadInvalid, Acquiring, ModeInv, HeadSync, DescSync, IsFree, Valid, oid,
     nid, DescMeta
<1>7. FreeInv(meta[oid], ddesc)'
  <2>1. /\ op.ext \in 0 .. Valid.ext_used - 1 /\ op.ext # Valid.ext_free
        /\ ddesc[op.ext].type # "kInvalid" /\ ddesc[op.ext].next = Valid.ext_free
    BY Zenon DEF ReleaseFlip, ReleaseInv, Releasing
  <2>2. Valid.ext_free # Null => ddesc[Valid.ext_free].type = "kInvalid"
    BY Slots, Zenon DEF ReleaseFlip, HeadInvalid, Acquiring, ModeInv, Releasing,
       DescSync, Pointer
  <2>3. /\ meta'[oid'] \in DescMeta
        /\ meta'[oid'].ext_used = Valid.ext_used /\ meta'[oid'].ext_free = op.ext
    BY <1>2, Slots, Zenon DEF ReleaseFlip, TypeOK, Head, DescMeta, ReleaseInv,
       Releasing, Valid, oid, nid
  <2>4. FreeInv(meta'[oid'], ddesc)
    BY <2>1, <2>2, <2>3, Slots, FreePush, Zenon DEF TypeOK, IsFree, Valid
  <2> QED
    BY <2>4, Zenon DEF ReleaseFlip
<1>8. HeadInvalid'
  BY DEF ReleaseFlip, HeadInvalid, Acquiring, Valid, oid
<1>9. AcquireInv'
  BY DEF ReleaseFlip, AcquireInv, Acquiring, Idle
<1>10. ReleaseInv'
  BY <1>2, Slots, SMTT(30) DEF ReleaseFlip, ReleaseInv, Acquiring, Releasing,
     ModeInv,
     Idle, Valid, oid, nid
<1>11. HeldIsAllocated'
  BY <1>2, Slots DEF ReleaseFlip, TypeOK, HeldIsAllocated, Allocated,
     HeadSync, DescSync, ModeInv, Idle, Operation, Acquiring, Releasing,
     AcquireInv, ReleaseInv, Valid, oid, nid
<1> QED
  BY <1>2, <1>3, <1>4, <1>5, <1>6, <1>7, <1>8, <1>9, <1>10, <1>11, Zenon

(* The end of a release: the descriptor becomes kInvalid. *)
LEMMA DestructStep ==
    ASSUME IInv, Destruct
    PROVE  IInv'
<1> USE TotalAssumption, NullAssumption DEF IInv, cached, durable
<1>1. desc' \in [Extent -> ExtentDesc]
  BY DescStores, ZenonT(30) DEF TypeOK, Destruct, Operation, ReleaseInv, Releasing,
     Extent
<1>2. op' \in Operation /\ ddesc' \in [Extent -> ExtentDesc]
  BY <1>1, IdleTyped DEF TypeOK, Destruct, Operation, Pointer
<1>3. TypeOK'
  BY <1>1, <1>2, Zenon DEF TypeOK, Destruct
<1>4. ModeInv'
  BY Zenon DEF Destruct, ModeInv, Acquiring, Releasing, Idle
<1>5. HeadSync'
  BY Zenon DEF Destruct, HeadSync, oid
<1>6. DescSync'
  BY <1>3, Slots DEF Destruct, TypeOK, DescSync, ModeInv, Valid, oid, Idle,
     Operation, ExtentDesc, AcquireInv, ReleaseInv, Acquiring, Releasing
<1>7. FreeInv(meta[oid], desc)'
  <2>1. meta'[oid'] = Valid
    BY Slots, SMTT(30) DEF Destruct, TypeOK, Valid, oid, nid
  <2>2. \A x \in 0 .. Valid.ext_used - 1 :
           /\ IsFree(Valid, desc', x) =>
                 /\ IsFree(Valid, desc, x)
                 /\ desc'[x].next = desc[x].next \/ desc'[x].next = Null
           /\ desc[x].type = "kInvalid" /\ x # Valid.ext_free =>
                 desc'[x].type = "kInvalid"
    BY Slots, SMTT(30) DEF Destruct, TypeOK, Extent, DescSync, AcquireInv,
       ReleaseInv,
       Acquiring, Releasing, IsFree, Valid, oid
  <2> QED
    BY <2>1, <2>2, <1>3, Slots, FreeStable, Zenon DEF TypeOK, Valid
<1>8. FreeInv(meta[oid], ddesc)'
  <2>1. meta'[oid'] = Valid
    BY Slots, Zenon DEF Destruct, TypeOK, Valid, oid, nid
  <2>Freed. op.ext = Valid.ext_free /\ op.ext \in Extent
            /\ desc[op.ext].next = ddesc[op.ext].next
    BY Slots DEF Destruct, ReleaseInv, Releasing, ModeInv, DescSync, TypeOK, Extent
  <2>2. \A x \in 0 .. Valid.ext_used - 1 :
           /\ IsFree(Valid, ddesc', x) =>
                 /\ IsFree(Valid, ddesc, x)
                 /\ ddesc'[x].next = ddesc[x].next \/ ddesc'[x].next = Null
           /\ ddesc[x].type = "kInvalid" /\ x # Valid.ext_free =>
                 ddesc'[x].type = "kInvalid"
    BY <2>Freed, Slots, SMTT(30) DEF Destruct, TypeOK, ExtentDesc, IsFree, Extent
  <2> QED
    BY <2>1, <2>2, <1>3, Slots, FreeStable, Zenon DEF TypeOK, Valid
<1>9. HeadInvalid'
  BY <1>3, Slots, SMTT(30) DEF Destruct, TypeOK, HeadInvalid, ModeInv, Acquiring,
     Releasing, Valid, oid, nid, Idle, Operation, HeadSync, DescSync,
     ReleaseInv, AcquireInv, FreeInv, IsFree, Granted
<1>10. AcquireInv'
  BY Zenon DEF Destruct, AcquireInv, Acquiring, Idle
<1>11. ReleaseInv'
  BY Zenon DEF Destruct, ReleaseInv, Releasing, Idle
<1>12. HeldIsAllocated'
  BY <1>3, Slots, SMTT(30) DEF Destruct, TypeOK, HeldIsAllocated, Allocated,
     HeadSync,
     DescSync, ModeInv, Idle, Operation, Acquiring, Releasing, AcquireInv,
     ReleaseInv, Valid, oid, nid
<1> QED
  BY <1>3, <1>4, <1>5, <1>6, <1>7, <1>8, <1>9, <1>10, <1>11, <1>12, Zenon

(* The start of a close. *)
LEMMA CloseBeginStep ==
    ASSUME IInv, CloseBegin
    PROVE  IInv'
<1> USE TotalAssumption, NullAssumption DEF IInv, cached, durable
<1>1. half' \in SUBSET Extent
  BY Zenon DEF TypeOK, CloseBegin, Running
<1>2. TypeOK'
  BY <1>1, Zenon DEF TypeOK, CloseBegin, Running
<1>3. ModeInv'
  BY Zenon DEF CloseBegin, Running, ModeInv, Acquiring, Releasing, Idle
<1>4. HeadSync'
  BY Zenon DEF CloseBegin, Running, HeadSync, oid
<1>5. DescSync'
  BY Zenon DEF CloseBegin, Running, DescSync, Valid, oid
<1>6. FreeInv(meta[oid], desc)'
  BY DEF CloseBegin, Running, FreeInv, IsFree, oid
<1>7. FreeInv(meta[oid], ddesc)'
  BY DEF CloseBegin, Running, FreeInv, IsFree, oid
<1>8. HeadInvalid'
  BY Zenon DEF CloseBegin, Running, HeadInvalid, Acquiring, Valid, oid
<1>9. AcquireInv'
  BY Zenon DEF CloseBegin, Running, AcquireInv, Acquiring, Idle
<1>10. ReleaseInv'
  BY Zenon DEF CloseBegin, Running, ReleaseInv, Releasing, Idle
<1>11. HeldIsAllocated'
  BY Zenon DEF CloseBegin, Running, HeldIsAllocated, Allocated
<1> QED
  BY <1>2, <1>3, <1>4, <1>5, <1>6, <1>7, <1>8, <1>9, <1>10, <1>11, Zenon

(* shutdown, up to its first fence. *)
LEMMA ShutdownFlushStep ==
    ASSUME IInv, ShutdownFlush
    PROVE  IInv'
<1> USE TotalAssumption, NullAssumption DEF IInv, cached, durable
<1>1. op' \in Operation
  BY OpStep, Zenon DEF TypeOK, ShutdownFlush
<1>2. TypeOK'
  BY <1>1, Zenon DEF TypeOK, ShutdownFlush
<1>3. ModeInv'
  BY DEF ShutdownFlush, ModeInv, Acquiring, Releasing, Idle
<1>4. HeadSync'
  BY Zenon DEF ShutdownFlush, HeadSync, oid
<1>5. DescSync'
  BY Zenon DEF ShutdownFlush, DescSync, Valid, oid
<1>6. FreeInv(meta[oid], desc)'
  BY DEF ShutdownFlush, FreeInv, IsFree, oid
<1>7. FreeInv(meta[oid], ddesc)'
  BY Zenon DEF ShutdownFlush, oid
<1>8. HeadInvalid'
  BY Zenon DEF ShutdownFlush, HeadInvalid, Acquiring, Valid, oid
<1>9. AcquireInv'
  BY DEF ShutdownFlush, AcquireInv, Acquiring, Idle
<1>10. ReleaseInv'
  BY DEF ShutdownFlush, ReleaseInv, Releasing, Idle
<1>11. HeldIsAllocated'
  BY DEF ShutdownFlush, HeldIsAllocated, Allocated
<1> QED
  BY <1>2, <1>3, <1>4, <1>5, <1>6, <1>7, <1>8, <1>9, <1>10, <1>11, Zenon

(* shutdown: stat_ becomes kConsistent. *)
LEMMA ShutdownCommitStep ==
    ASSUME IInv, ShutdownCommit
    PROVE  IInv'
<1> USE TotalAssumption, NullAssumption DEF IInv, cached, durable
<1>1. /\ op' \in Operation
      /\ head' \in Head /\ dhead' \in Head
  BY HeadStores, IdleTyped, Zenon DEF TypeOK, ShutdownCommit
<1>2. TypeOK'
  BY <1>1, Zenon DEF TypeOK, ShutdownCommit
<1>3. ModeInv'
  BY Zenon DEF ShutdownCommit, ModeInv, Acquiring, Releasing, Idle
<1>4. HeadSync'
  BY DEF ShutdownCommit, HeadSync, oid
<1>5. DescSync'
  BY <1>2, Slots DEF ShutdownCommit, TypeOK, DescSync, ModeInv, Valid, oid
<1>6. FreeInv(meta[oid], desc)'
  BY DEF ShutdownCommit, FreeInv, IsFree, oid
<1>7. FreeInv(meta[oid], ddesc)'
  BY DEF ShutdownCommit, FreeInv, IsFree, oid
<1>8. HeadInvalid'
  BY <1>2, Slots DEF ShutdownCommit, TypeOK, HeadInvalid, ModeInv, Acquiring,
     Releasing, Valid, oid, Idle
<1>9. AcquireInv'
  BY Zenon DEF ShutdownCommit, AcquireInv, Acquiring, Idle
<1>10. ReleaseInv'
  BY Zenon DEF ShutdownCommit, ReleaseInv, Releasing, Idle
<1>11. HeldIsAllocated'
  BY <1>2, Slots DEF ShutdownCommit, HeldIsAllocated, Allocated, HeadSync,
     Valid, oid, Idle, ModeInv, Acquiring, Releasing
<1> QED
  BY <1>2, <1>3, <1>4, <1>5, <1>6, <1>7, <1>8, <1>9, <1>10, <1>11, Zenon

(* The start of reboot or resume. *)
LEMMA OpenStep ==
    ASSUME IInv, Open
    PROVE  IInv'
<1> USE TotalAssumption, NullAssumption DEF IInv, cached, durable
<1>1. cur' \in Pointer
  BY Zenon DEF TypeOK, Open, Head
<1>2. TypeOK'
  BY <1>1, SMTT(30) DEF TypeOK, Open
<1>3. ModeInv'
  <2>1. head.stat \in {"kVolatile", "kConsistent"}
    BY Zenon DEF TypeOK, Head
  <2>2. ~ Acquiring /\ ~ Releasing /\ op.pc # "shutdown" /\ op.pc # "resumed"
    BY Zenon DEF Open, ModeInv
  <2> QED
    BY <2>1, <2>2, Zenon DEF Open, ModeInv, Acquiring, Releasing
<1>4. HeadSync'
  BY Zenon DEF Open, HeadSync, oid
<1>5. DescSync'
  BY Zenon DEF Open, DescSync, Valid, oid
<1>6. FreeInv(meta[oid], desc)'
  BY DEF Open, FreeInv, IsFree, oid
<1>7. FreeInv(meta[oid], ddesc)'
  BY DEF Open, FreeInv, IsFree, oid
<1>8. HeadInvalid'
  BY Zenon DEF Open, HeadInvalid, Acquiring, Valid, oid
<1>9. AcquireInv'
  BY <1>2, Slots, SMTT(30) DEF Open, AcquireInv, Acquiring, Releasing, ModeInv,
     Idle,
     Valid, oid, nid, Granted
<1>10. ReleaseInv'
  BY <1>2, Slots, Zenon DEF Open, ReleaseInv, Acquiring, Releasing, ModeInv, Idle,
     Valid, oid, nid
<1>11. HeldIsAllocated'
  BY Zenon DEF Open, HeldIsAllocated, Allocated
<1> QED
  BY <1>2, <1>3, <1>4, <1>5, <1>6, <1>7, <1>8, <1>9, <1>10, <1>11, Zenon

(* An iteration of reboot. *)
LEMMA RebootLoopStep ==
    ASSUME IInv, RebootLoop
    PROVE  IInv'
<1> USE TotalAssumption, NullAssumption DEF IInv, cached, durable
<1>1. desc' \in [Extent -> ExtentDesc]
  BY DescStores, Zenon DEF TypeOK, RebootLoop, Unlink, Pointer
<1>2. cur' \in Pointer /\ loaded' \in SUBSET Extent
  BY Zenon DEF TypeOK, RebootLoop, Unlink, Pointer, ExtentDesc
<1>3. TypeOK'
  BY <1>1, <1>2, Zenon DEF TypeOK, RebootLoop, Unlink
<1>4. ModeInv'
  BY Zenon DEF RebootLoop, Unlink, ModeInv, Acquiring, Releasing, Idle
<1>5. HeadSync'
  BY Zenon DEF RebootLoop, Unlink, HeadSync, oid
<1>6. DescSync'
  BY DEF RebootLoop, Unlink, DescSync, Valid, oid
<1>7. FreeInv(meta[oid], desc)'
  <2>1. meta'[oid'] = Valid
    BY Slots, SMTT(30) DEF RebootLoop, Unlink, TypeOK, Valid, oid, nid
  <2>2. \A x \in 0 .. Valid.ext_used - 1 :
           /\ IsFree(Valid, desc', x) =>
                 /\ IsFree(Valid, desc, x)
                 /\ desc'[x].next = desc[x].next \/ desc'[x].next = Null
           /\ desc[x].type = "kInvalid" /\ x # Valid.ext_free =>
                 desc'[x].type = "kInvalid"
    BY Slots, SMTT(30) DEF RebootLoop, Unlink, TypeOK, Extent, DescSync, AcquireInv,
       ReleaseInv, Acquiring, Releasing, IsFree, Valid, oid
  <2> QED
    BY <2>1, <2>2, <1>3, Slots, FreeStable, Zenon DEF TypeOK, Valid
<1>8. FreeInv(meta[oid], ddesc)'
  BY DEF RebootLoop, Unlink, FreeInv, IsFree, oid
<1>9. HeadInvalid'
  BY SMTT(30) DEF RebootLoop, Unlink, HeadInvalid, Acquiring, Valid, oid
<1>10. AcquireInv'
  BY <1>3, Slots, SMTT(30) DEF RebootLoop, Unlink, AcquireInv, Acquiring, Releasing,
     ModeInv, Idle, Valid, oid, nid, Granted
<1>11. ReleaseInv'
  BY <1>3, Slots, Zenon DEF RebootLoop, Unlink, ReleaseInv, Acquiring, Releasing,
     ModeInv, Idle, Valid, oid, nid
<1>12. HeldIsAllocated'
  BY DEF RebootLoop, Unlink, HeldIsAllocated, Allocated
<1> QED
  BY <1>3, <1>4, <1>5, <1>6, <1>7, <1>8, <1>9, <1>10, <1>11, <1>12, Zenon

(* The end of reboot. *)
LEMMA RebootFinishStep ==
    ASSUME IInv, RebootFinish
    PROVE  IInv'
<1> USE TotalAssumption, NullAssumption DEF IInv, cached, durable
<1>1. head' \in Head /\ dhead' \in Head
  BY HeadStores, Zenon DEF TypeOK, RebootFinish
<1>2. held' \in SUBSET Extent
  BY Slots DEF TypeOK, RebootFinish, Allocated, Extent, Valid, oid
<1>3. TypeOK'
  BY <1>1, <1>2, Zenon DEF TypeOK, RebootFinish
<1>4. ModeInv'
  BY DEF RebootFinish, ModeInv, Acquiring, Releasing, Idle
<1>5. HeadSync'
  BY DEF RebootFinish, HeadSync, oid
<1>6. DescSync'
  BY Zenon DEF RebootFinish, DescSync, Valid, oid
<1>7. FreeInv(meta[oid], desc)'
  BY DEF RebootFinish, FreeInv, IsFree, oid
<1>8. FreeInv(meta[oid], ddesc)'
  <2>1. meta'[oid'] = Valid
    BY Slots, SMTT(30) DEF RebootFinish, TypeOK, Valid, oid, nid
  <2>2. \A x \in 0 .. Valid.ext_used - 1 :
           /\ IsFree(Valid, ddesc', x) =>
                 /\ IsFree(Valid, ddesc, x)
                 /\ ddesc'[x].next = ddesc[x].next \/ ddesc'[x].next = Null
           /\ ddesc[x].type = "kInvalid" /\ x # Valid.ext_free =>
                 ddesc'[x].type = "kInvalid"
    BY Slots DEF RebootFinish, TypeOK, Extent, DescSync, AcquireInv,
       ReleaseInv, Acquiring, Releasing, IsFree, Valid, oid
  <2> QED
    BY <2>1, <2>2, <1>3, Slots, FreeStable, Zenon DEF TypeOK, Valid
<1>9. HeadInvalid'
  BY DEF RebootFinish, HeadInvalid, Acquiring, Valid, oid
<1>10. AcquireInv'
  BY <1>3, Slots, SMTT(30) DEF RebootFinish, AcquireInv, Acquiring, Releasing,
     ModeInv,
     Idle, Valid, oid, nid, Granted
<1>11. ReleaseInv'
  BY <1>3, Slots, Zenon DEF RebootFinish, ReleaseInv, Acquiring, Releasing, ModeInv,
     Idle, Valid, oid, nid
<1>12. HeldIsAllocated'
  BY <1>3, Slots DEF RebootFinish, HeldIsAllocated, Allocated, HeadSync,
     Valid, oid, Idle, ModeInv, Acquiring, Releasing
<1> QED
  BY <1>3, <1>4, <1>5, <1>6, <1>7, <1>8, <1>9, <1>10, <1>11, <1>12, Zenon

(* An iteration of resume. *)
LEMMA ResumeLoopStep ==
    ASSUME IInv, ResumeLoop
    PROVE  IInv'
<1> USE TotalAssumption, NullAssumption DEF IInv, cached, durable
<1>1. desc' \in [Extent -> ExtentDesc]
  BY DescStores, Zenon DEF TypeOK, ResumeLoop, Unlink, Pointer
<1>2. cur' \in Pointer
  BY Zenon DEF TypeOK, ResumeLoop, Unlink, Pointer, ExtentDesc
<1>3. TypeOK'
  BY <1>1, <1>2, Zenon DEF TypeOK, ResumeLoop, Unlink
<1>4. ModeInv'
  BY Zenon DEF ResumeLoop, Unlink, ModeInv, Acquiring, Releasing, Idle
<1>5. HeadSync'
  BY Zenon DEF ResumeLoop, Unlink, HeadSync, oid
<1>6. DescSync'
  BY DEF ResumeLoop, Unlink, DescSync, Valid, oid
<1>7. FreeInv(meta[oid], desc)'
  <2>1. meta'[oid'] = Valid
    BY Slots, Zenon DEF ResumeLoop, Unlink, TypeOK, Valid, oid, nid
  <2>2. \A x \in 0 .. Valid.ext_used - 1 :
           /\ IsFree(Valid, desc', x) =>
                 /\ IsFree(Valid, desc, x)
                 /\ desc'[x].next = desc[x].next \/ desc'[x].next = Null
           /\ desc[x].type = "kInvalid" /\ x # Valid.ext_free =>
                 desc'[x].type = "kInvalid"
    BY Slots, SMTT(30) DEF ResumeLoop, Unlink, TypeOK, Extent, DescSync, AcquireInv,
       ReleaseInv, Acquiring, Releasing, IsFree, Valid, oid
  <2> QED
    BY <2>1, <2>2, <1>3, Slots, FreeStable, Zenon DEF TypeOK, Valid
<1>8. FreeInv(meta[oid], ddesc)'
  BY DEF ResumeLoop, Unlink, FreeInv, IsFree, oid
<1>9. HeadInvalid'
  BY DEF ResumeLoop, Unlink, HeadInvalid, Acquiring, Valid, oid
<1>10. AcquireInv'
  BY Zenon DEF ResumeLoop, Unlink, AcquireInv, Acquiring, Idle
<1>11. ReleaseInv'
  BY Zenon DEF ResumeLoop, Unlink, ReleaseInv, Releasing, Idle
<1>12. HeldIsAllocated'
  BY DEF ResumeLoop, Unlink, HeldIsAllocated, Allocated
<1> QED
  BY <1>3, <1>4, <1>5, <1>6, <1>7, <1>8, <1>9, <1>10, <1>11, <1>12, Zenon

(* resume, up to its fence. *)
LEMMA ResumeHeadStep ==
    ASSUME IInv, ResumeHead
    PROVE  IInv'
<1> USE TotalAssumption, NullAssumption DEF IInv, cached, durable
<1>1. head' \in Head /\ op' \in Operation
  BY HeadStores, OpStep, Zenon DEF TypeOK, ResumeHead, Pointer
<1>2. desc' \in [Extent -> ExtentDesc]
  BY Slots, DescStores, Zenon DEF TypeOK, ResumeHead, Pointer
<1>3. TypeOK'
  BY <1>1, <1>2, Zenon DEF TypeOK, ResumeHead
<1>4. ModeInv'
  BY DEF ResumeHead, ModeInv, Acquiring, Releasing, Idle
<1>5. HeadSync'
  BY DEF ResumeHead, HeadSync, oid
<1>6. DescSync'
  BY SMTT(30) DEF ResumeHead, DescSync, Valid, oid
<1>7. FreeInv(meta[oid], desc)'
  <2>1. meta'[oid'] = Valid
    BY Slots, SMTT(30) DEF ResumeHead, TypeOK, Valid, oid, nid
  <2>2. \A x \in 0 .. Valid.ext_used - 1 :
           /\ IsFree(Valid, desc', x) =>
                 /\ IsFree(Valid, desc, x)
                 /\ desc'[x].next = desc[x].next \/ desc'[x].next = Null
           /\ desc[x].type = "kInvalid" /\ x # Valid.ext_free =>
                 desc'[x].type = "kInvalid"
    <3>1. \A x \in Extent : /\ desc'[x].next = desc[x].next
                            /\ \/ desc'[x].type = desc[x].type
                               \/ x = Valid.ext_free /\ desc'[x].type = "kInvalid"
      BY Slots, SMTT(30) DEF ResumeHead, TypeOK, ExtentDesc, Pointer
    <3> QED  BY <3>1, Slots DEF IsFree, Extent
  <2> QED
    BY <2>1, <2>2, <1>3, Slots, FreeStable, Zenon DEF TypeOK, Valid
<1>8. FreeInv(meta[oid], ddesc)'
  BY SMTT(30) DEF ResumeHead, FreeInv, IsFree, oid
<1>9. HeadInvalid'
  BY <1>3, Slots DEF ResumeHead, TypeOK, HeadInvalid, ModeInv, Acquiring,
     Releasing, Valid, oid, Idle
<1>10. AcquireInv'
  BY DEF ResumeHead, AcquireInv, Acquiring, Idle
<1>11. ReleaseInv'
  BY DEF ResumeHead, ReleaseInv, Releasing, Idle
<1>12. HeldIsAllocated'
  BY <1>3, Slots, SMTT(30) DEF ResumeHead, HeldIsAllocated, Allocated,
     HeadSync, Valid,
     oid, Idle, ModeInv, Acquiring, Releasing
<1> QED
  BY <1>3, <1>4, <1>5, <1>6, <1>7, <1>8, <1>9, <1>10, <1>11, <1>12, Zenon

(* The end of resume. *)
LEMMA ResumeFinishStep ==
    ASSUME IInv, ResumeFinish
    PROVE  IInv'
<1> USE TotalAssumption, NullAssumption DEF IInv, cached, durable
<1>1. op' \in Operation
  BY IdleTyped, Zenon DEF TypeOK, ResumeFinish
<1>2. held' \in SUBSET Extent
  BY Slots DEF TypeOK, ResumeFinish, Allocated, Extent, Valid, oid
<1>3. TypeOK'
  BY <1>1, <1>2, Zenon DEF TypeOK, ResumeFinish
<1>4. ModeInv'
  BY Zenon DEF ResumeFinish, ModeInv, Acquiring, Releasing, Idle
<1>5. HeadSync'
  BY Zenon DEF ResumeFinish, HeadSync, oid
<1>6. DescSync'
  BY SMTT(30) DEF ResumeFinish, DescSync, Valid, oid
<1>7. FreeInv(meta[oid], desc)'
  BY DEF ResumeFinish, FreeInv, IsFree, oid
<1>8. FreeInv(meta[oid], ddesc)'
  BY Zenon DEF ResumeFinish, oid
<1>9. HeadInvalid'
  BY SMTT(30) DEF ResumeFinish, HeadInvalid, Acquiring, Valid, oid
<1>10. AcquireInv'
  BY Zenon DEF ResumeFinish, AcquireInv, Acquiring, Idle
<1>11. ReleaseInv'
  BY SMTT(30) DEF ResumeFinish, ReleaseInv, Releasing, Idle
<1>12. HeldIsAllocated'
  BY <1>3, Slots, SMTT(30) DEF ResumeFinish, HeldIsAllocated, Allocated, HeadSync,
     Valid, oid, Idle, ModeInv, Acquiring, Releasing
<1> QED
  BY <1>3, <1>4, <1>5, <1>6, <1>7, <1>8, <1>9, <1>10, <1>11, <1>12, Zenon

(* A dirty line reaches persistent memory. *)
LEMMA EvictStep ==
    ASSUME IInv, Evict
    PROVE  IInv'
<1> USE TotalAssumption, NullAssumption DEF IInv, cached, durable
<1>1. /\ dhead' \in Head /\ dmeta' \in [{0, 1} -> DescMeta]
      /\ ddesc' \in [Extent -> ExtentDesc]
      /\ dmed' \in [Extent -> Block]
  BY Zenon DEF TypeOK, Evict
<1>2. TypeOK'
  BY <1>1, Zenon DEF TypeOK, Evict
<1>3. ModeInv'
  BY Zenon DEF Evict, ModeInv, Acquiring, Releasing, Idle
<1>4. HeadSync'
  BY <1>2, Slots, SMTT(30) DEF Evict, TypeOK, Head, HeadSync, oid, nid
<1>5. DescSync'
  BY <1>2, Slots DEF Evict, TypeOK, DescSync, ModeInv, Valid, oid
<1>6. FreeInv(meta[oid], desc)'
  BY Zenon DEF Evict, oid
<1>7. FreeInv(meta[oid], ddesc)'
  <2>1. meta'[oid'] = Valid
    BY Zenon DEF Evict, Valid, oid
  <2>2. CASE ddesc' = ddesc
    BY <2>1, <2>2, Zenon DEF Valid, oid
  <2>3. ASSUME NEW e \in Extent, ddesc' = [ddesc EXCEPT ![e] = desc[e]]
        PROVE  FreeInv(Valid, ddesc')
    <3>1. \A x \in 0 .. Valid.ext_used - 1 :
             /\ IsFree(Valid, ddesc', x) =>
                   /\ IsFree(Valid, ddesc, x)
                   /\ ddesc'[x].next = ddesc[x].next \/ ddesc'[x].next = Null
             /\ ddesc[x].type = "kInvalid" /\ x # Valid.ext_free =>
                   ddesc'[x].type = "kInvalid"
      BY <2>3, WriteBack, Slots, SMTT(30) DEF TypeOK, IsFree, Extent
    <3> QED
      BY <3>1, <1>2, Slots, FreeStable, SMTT(30) DEF TypeOK, Valid, oid
  <2> QED
    BY <2>1, <2>2, <2>3, Zenon DEF Evict
<1>8. HeadInvalid'
  BY Zenon DEF Evict, HeadInvalid, Acquiring, Valid, oid
<1>9. AcquireInv'
  BY <1>2, Slots, SMTT(30) DEF Evict, TypeOK, AcquireInv, Acquiring, Releasing,
     ModeInv, Idle, Operation, ExtentDesc, Valid, oid, nid, Granted
<1>10. ReleaseInv'
  <2>1. \A e \in Extent : ddesc'[e] \in {ddesc[e], desc[e]}
    BY Zenon DEF Evict, TypeOK
  <2>2. \A i \in {0, 1} : dmeta'[i] \in {dmeta[i], meta[i]}
    BY Zenon DEF Evict, TypeOK
  <2>3. Releasing => op.ext \in Extent
    BY Slots DEF ReleaseInv, Extent
  <2>4. op.pc \in {"link", "unflip"} => ddesc'[op.ext] = desc[op.ext]
    BY <2>1, <2>3 DEF ReleaseInv, Releasing
  <2>5. op.pc = "unflip" => dmeta'[nid] = meta[nid]
    BY <2>2, Slots DEF ReleaseInv, Releasing
  <2> QED
    BY <2>4, <2>5, Zenon DEF Evict, ReleaseInv, Releasing, Valid, oid, nid
<1>11. HeldIsAllocated'
  <2>1. \A e \in Extent : ddesc'[e] \in {ddesc[e], desc[e]}
    BY Zenon DEF Evict, TypeOK
  <2>2. \A e \in held : ddesc'[e].type # "kInvalid"
    BY <2>1, HeldNotFree, Zenon
  <2>3. dhead'.mind = oid /\ dmeta'[oid] = Valid
    BY <1>4, Zenon DEF Evict, HeadSync, Valid, oid
  <2> QED
    BY <2>2, <2>3, HeldNotFree, Zenon DEF Evict, HeldIsAllocated, Allocated
<1> QED
  BY <1>2, <1>3, <1>4, <1>5, <1>6, <1>7, <1>8, <1>9, <1>10, <1>11, Zenon

(* Power fails. *)
LEMMA CrashStep ==
    ASSUME IInv, Crash
    PROVE  IInv'
<1> USE TotalAssumption, NullAssumption DEF IInv, cached, durable
<1>1. op' \in Operation /\ cur' \in Pointer
  BY IdleTyped, Zenon DEF TypeOK, Crash, Pointer
<1>2. TypeOK'
  BY <1>1, Zenon DEF TypeOK, Crash
<1>3. ModeInv'
  BY Zenon DEF Crash, ModeInv, Acquiring, Releasing, Idle
<1>4. HeadSync'
  BY Zenon DEF Crash, HeadSync, oid
<1>5. DescSync'
  BY Zenon DEF Crash, DescSync, Valid, oid
<1>6. FreeInv(meta[oid], desc)'
  <2>1. meta'[oid'] = meta[oid] /\ desc' = ddesc
    BY Zenon DEF Crash, HeadSync, oid
  <2> QED  BY <2>1, Zenon
<1>7. FreeInv(meta[oid], ddesc)'
  BY DEF Crash, FreeInv, IsFree, oid, HeadSync
<1>8. HeadInvalid'
  <2>1. head'.stat = head.stat /\ mode' = "down" /\ op'.pc = "idle" /\ Valid' = Valid
    BY Zenon DEF Crash, HeadSync, Idle, Valid, oid
  <2>2. CASE head.stat = "kVolatile"
    BY <2>1, <2>2, Zenon DEF HeadInvalid
  <2>3. CASE head.stat = "kConsistent"
    <3>1. /\ mode \notin {"open", "closing", "resume"}
          /\ ~Acquiring /\ ~Releasing /\ op.pc # "resumed"
      BY <2>3, Zenon DEF ModeInv
    <3>2. Valid.ext_free = Null \/ desc[Valid.ext_free].type = "kInvalid"
      BY <2>3, <3>1, Zenon DEF HeadInvalid, Releasing
    <3>3. Valid.ext_free # Null => ddesc[Valid.ext_free].type = desc[Valid.ext_free].type
      BY <3>1, Slots, SMTT(30) DEF DescSync, Acquiring, Pointer
    <3> QED
      BY <2>1, <3>2, <3>3, Zenon DEF Crash, HeadInvalid
  <2> QED
    BY <2>2, <2>3, SMTT(30) DEF TypeOK, Head
<1>9. AcquireInv'
  BY SMTT(30) DEF Crash, AcquireInv, Acquiring, Idle
<1>10. ReleaseInv'
  BY SMTT(30) DEF Crash, ReleaseInv, Releasing, Idle
<1>11. HeldIsAllocated'
  BY <1>2, Slots, Zenon DEF Crash, HeldIsAllocated, Allocated, HeadSync, Valid, oid,
     Idle, ModeInv, Acquiring, Releasing
<1> QED
  BY <1>2, <1>3, <1>4, <1>5, <1>6, <1>7, <1>8, <1>9, <1>10, <1>11, Zenon

(* Power fails between the stores that end a reboot. *)
LEMMA RebootTornStep ==
    ASSUME IInv, RebootTorn
    PROVE  IInv'
<1> USE TotalAssumption, NullAssumption DEF IInv, cached, durable
<1>0. /\ head' \in Head /\ head'.mind = head.mind /\ head'.stat = "kVolatile"
      /\ dhead' = head' /\ mode = "reboot" /\ mode' = "down" /\ op' = Idle
  BY HeadStores, Zenon DEF TypeOK, Head, RebootTorn
<1>1. op' \in Operation
  BY IdleTyped, Zenon DEF RebootTorn
<1>2. TypeOK'
  BY <1>0, <1>1, Zenon DEF TypeOK, RebootTorn
<1>3. ModeInv'
  BY <1>0, Zenon DEF ModeInv, Acquiring, Releasing, Idle
<1>4. oid' = oid /\ meta'[oid'] = meta[oid] /\ dmeta' = dmeta /\ desc' = ddesc /\ ddesc' = ddesc
  BY <1>0, Zenon DEF RebootTorn, HeadSync, oid
<1>5. HeadSync'
  BY <1>0, <1>4, Zenon DEF HeadSync, RebootTorn
<1>6. DescSync'
  BY <1>4, Zenon DEF DescSync
<1>7. FreeInv(meta[oid], desc)' /\ FreeInv(meta[oid], ddesc)'
  BY <1>4, Zenon
<1>8. HeadInvalid' /\ AcquireInv' /\ ReleaseInv'
  BY <1>0, SMTT(30) DEF HeadInvalid, AcquireInv, ReleaseInv, Acquiring, Releasing, Idle
<1>9. HeldIsAllocated'
  <2>1. /\ head'.mind = dhead.mind /\ dhead'.mind = dhead.mind
        /\ meta' = dmeta /\ dmeta' = dmeta /\ held' = held
    BY <1>0, Zenon DEF HeadSync, RebootTorn
  <2>2. /\ Allocated(head, meta, desc)' = Allocated(dhead, dmeta, ddesc)
        /\ Allocated(dhead, dmeta, ddesc)' = Allocated(dhead, dmeta, ddesc)
    BY <1>4, <2>1, Zenon DEF Allocated
  <2>3. op'.pc = "idle"
    BY <1>0, Zenon DEF Idle
  <2> QED
    BY <2>1, <2>2, <2>3 DEF HeldIsAllocated
<1> QED
  BY <1>2, <1>3, <1>5, <1>6, <1>7, <1>8, <1>9, Zenon

-----------------------------------------------------------------------------
(* The state that init leaves satisfies IInv. *)
LEMMA InitStep == Init => IInv
<1> SUFFICES ASSUME Init PROVE IInv
  BY Zenon
<1> USE TotalAssumption, NullAssumption
<1>1. TypeOK
  <2>1. head \in Head /\ op \in Operation
    BY IdleTyped, Zenon DEF Init, Head, Pointer
  <2>2. meta \in [{0, 1} -> DescMeta]
    BY DEF Init, DescMeta, Pointer, Block
  <2>3. desc \in [Extent -> ExtentDesc] /\ med \in [Extent -> Block]
    BY Zenon DEF Init, ExtentDesc, Type, Pointer, Block
  <2> QED
    BY <2>1, <2>2, <2>3, Zenon DEF Init, TypeOK, Pointer
<1>2. ModeInv /\ HeadSync /\ AcquireInv /\ ReleaseInv
  BY Zenon DEF Init, Idle, ModeInv, HeadSync, AcquireInv, ReleaseInv, Acquiring, Releasing
<1>3. DescSync /\ HeldIsAllocated
  BY Zenon DEF Init, Idle, DescSync, HeldIsAllocated
<1>4. Valid.ext_used = 0 /\ Valid.ext_free = Null
  BY Zenon DEF Init, Valid, oid
<1>5. FreeInv(meta[oid], desc) /\ FreeInv(meta[oid], ddesc) /\ HeadInvalid
  BY <1>4 DEF FreeInv, HeadInvalid, Valid
<1> QED
  BY <1>1, <1>2, <1>3, <1>5, Zenon DEF IInv

(* A step that changes nothing preserves IInv. *)
LEMMA Stutter ==
    ASSUME IInv, UNCHANGED vars
    PROVE  IInv'
<1> USE DEF vars, cached, durable
<1>1. TypeOK' /\ ModeInv' /\ HeadSync'
  BY SMTT(30) DEF IInv, TypeOK, ModeInv, HeadSync, Valid, oid, nid, Acquiring,
     Releasing
<1>2. DescSync' /\ HeldIsAllocated'
  BY SMTT(30) DEF IInv, DescSync, HeldIsAllocated, Allocated, Acquiring,
     Releasing, Granted,
     Valid, oid, nid
<1>3. FreeInv(meta[oid], desc)' /\ FreeInv(meta[oid], ddesc)'
  BY Zenon DEF IInv, oid
<1>4. HeadInvalid'
  BY SMTT(30) DEF IInv, HeadInvalid, Acquiring, Valid, oid
<1>5. AcquireInv' /\ ReleaseInv'
  BY Zenon DEF IInv, AcquireInv, ReleaseInv, Acquiring, Releasing, Granted, Valid,
     oid, nid
<1> QED
  BY <1>1, <1>2, <1>3, <1>4, <1>5, Zenon DEF IInv

-----------------------------------------------------------------------------
(* IInv is an invariant of MetaHead: it holds in every reachable state of  *)
(* a pool of any size, whatever the calls, the write-backs and the crashes.*)
THEOREM Inductive == Spec => []IInv
<1>1. ASSUME IInv, [Next]_vars PROVE IInv'
  <2>1. ASSUME NEW t \in Requests, Acquire(t) PROVE IInv'
    BY <1>1, <2>1, AcquireStep, Zenon
  <2>2. CASE Construct \/ PlainCommit \/ ComplexCommit \/ ComplexFlip
    BY <1>1, <2>2, ConstructStep, PlainCommitStep, ComplexCommitStep, ComplexFlipStep, Zenon
  <2>3. ASSUME NEW e \in Extent, PlainRelease(e) \/ ComplexRelease(e) \/ record(e)
        PROVE  IInv'
    BY <1>1, <2>3, PlainReleaseStep, ComplexReleaseStep, recordStep, Zenon
  <2>4. CASE PlainLink \/ ReleaseFence \/ ReleaseFlip \/ Destruct
    BY <1>1, <2>4, PlainLinkStep, ReleaseFenceStep, ReleaseFlipStep, DestructStep, Zenon
  <2>5. CASE CloseBegin \/ ShutdownFlush \/ ShutdownCommit
    BY <1>1, <2>5, CloseBeginStep, ShutdownFlushStep, ShutdownCommitStep, Zenon
  <2>6. CASE Open \/ RebootLoop \/ RebootFinish \/ RebootTorn
    BY <1>1, <2>6, OpenStep, RebootLoopStep, RebootFinishStep, RebootTornStep, Zenon
  <2>7. CASE ResumeLoop \/ ResumeHead \/ ResumeFinish
    BY <1>1, <2>7, ResumeLoopStep, ResumeHeadStep, ResumeFinishStep, Zenon
  <2>8. CASE Evict \/ Crash
    BY <1>1, <2>8, EvictStep, CrashStep, Zenon
  <2>9. CASE UNCHANGED vars
    BY <1>1, <2>9, Stutter, Zenon
  <2> QED
    BY <1>1, <2>1, <2>2, <2>3, <2>4, <2>5, <2>6, <2>7, <2>8, <2>9, Zenon DEF Next
<1> QED
  BY InitStep, <1>1, PTL DEF Spec

(* Every variable, durable copy and local of MetaHead keeps its type: no   *)
(* call, write-back or crash makes acquire run past the end of the pool.   *)
THEOREM TypeCorrect == Spec => []TypeOK
<1>1. IInv => TypeOK
  BY Zenon DEF IInv
<1> QED
  BY Inductive, <1>1, PTL

(* Failure atomicity of the extent allocator: an extent that acquire has   *)
(* returned and that was not released is in use in the cached and in the   *)
(* durable metadata, and acquire never works on it, for pools of any size  *)
(* and with power failures at any step of acquire, release, record,        *)
(* shutdown, reboot and resume.                                            *)
THEOREM ExtentSafety == Spec => []HeldIsAllocated
<1>1. IInv => HeldIsAllocated
  BY Zenon DEF IInv
<1> QED
  BY Inductive, <1>1, PTL
-----------------------------------------------------------------------------
(***************************************************************************)
(* Proof that MetaHead implements ExtentPool.  HeldIsAllocated says that   *)
(* what was handed out is in use; PoolInv, proved here on top of IInv,     *)
(* says the converse: what is in use was handed out, or is the one extent  *)
(* whose release is in flight or was interrupted by the last crash.        *)
(***************************************************************************)

(* What a crash would leave in use is what the program sees in use: the    *)
(* types of the two copies differ only where both are free.                *)
LEMMA DurableInUse ==
    ASSUME IInv
    PROVE  Allocated(dhead, dmeta, ddesc) = InUse
<1>1. /\ dhead.mind = head.mind /\ dmeta[head.mind] = meta[head.mind]
      /\ Valid = meta[head.mind]
  BY Zenon DEF IInv, HeadSync, Valid, oid
<1>2. ASSUME NEW e \in 0 .. Valid.ext_used - 1, e # Valid.ext_free
      PROVE  desc[e].type = ddesc[e].type
  <2>1. e \in Extent /\ e # Valid.ext_used
    BY Slots, TotalAssumption DEF IInv, Extent
  <2>2. ~ (op.pc \in {"construct", "commit"} /\ e = op.ext)
    BY <1>2, <2>1, Zenon DEF IInv, AcquireInv, Acquiring
  <2> QED
    BY <1>2, <2>1, <2>2, Zenon DEF IInv, DescSync
<1> QED
  BY <1>1, <1>2, Zenon DEF Allocated, InUse

(* The extents in use, one by one. *)
LEMMA InUseIs ==
    /\ \A e : e \in InUse <=> /\ e \in 0 .. Valid.ext_used - 1
                              /\ desc[e].type # "kInvalid" /\ e # Valid.ext_free
    /\ \A e : e \in InUse' <=> /\ e \in 0 .. Valid'.ext_used - 1
                               /\ desc'[e].type # "kInvalid" /\ e # Valid'.ext_free
  BY Zenon DEF InUse, Allocated, Valid, oid

-----------------------------------------------------------------------------
(* Steps that change nothing the run cases can tell. *)
Quiet == UNCHANGED <<InUse, held, Doubt, Up, Clean>>

(* The first store of construct is to a free descriptor. *)
LEMMA AcquireQuiet ==
    ASSUME IInv, NEW t \in Requests, Acquire(t)
    PROVE  Quiet
<1>1. Valid' = Valid
  BY Slots, Zenon DEF IInv, TypeOK, Acquire, Valid, oid, nid
<1>2. \A e \in 0 .. Valid.ext_used - 1 : e # Valid.ext_free => desc'[e] = desc[e]
  BY Slots DEF IInv, TypeOK, Acquire, Extent
<1>3. InUse' = InUse
  BY <1>1, <1>2, InUseIs, Zenon
<1> QED
  BY <1>3 DEF Quiet, Acquire, Running, Doubt, Releasing, Up, Clean

(* Stores to the links of descriptors leave in use what was. *)
LEMMA LinkStores ==
    ASSUME IInv, Valid' = Valid,
           \A e \in Extent : desc'[e].type = desc[e].type
    PROVE  InUse' = InUse
<1>1. 0 .. Valid.ext_used - 1 \subseteq Extent
  BY Slots, TotalAssumption DEF IInv, Extent
<1> QED
  BY <1>1, InUseIs, ZenonT(30)

(* The stores to next and runs of one descriptor keep every type. *)
LEMMA TypesKept ==
    ASSUME NEW d \in [Extent -> ExtentDesc], NEW x \in Extent, NEW e \in Extent
    PROVE  /\ \A p : [d EXCEPT ![x].next = p][e].type = d[e].type
           /\ \A p, b : [d EXCEPT ![x].next = p, ![x].runs = b][e].type = d[e].type
  BY Zenon DEF ExtentDesc

(* The rest of construct writes links and blocks only. *)
LEMMA ConstructQuiet ==
    ASSUME IInv, Construct
    PROVE  Quiet
<1>1. Valid' = Valid
  BY Zenon DEF Construct, Valid, oid
<1>2. op.ext \in Extent
  BY Zenon DEF IInv, Construct, AcquireInv, Acquiring
<1>3. InUse' = InUse
  BY <1>1, <1>2, LinkStores, TypesKept DEF IInv, TypeOK, Construct
<1> QED
  BY <1>3 DEF Quiet, Construct, Doubt, Releasing, Up, Clean

(* The slot that mind_ does not select is prepared. *)
LEMMA ComplexCommitQuiet ==
    ASSUME IInv, ComplexCommit
    PROVE  Quiet
<1>1. Valid' = Valid
  BY Slots, Zenon DEF IInv, TypeOK, ComplexCommit, Valid, oid, nid
<1>2. InUse' = InUse
  BY <1>1, LinkStores, Zenon DEF ComplexCommit
<1> QED
  BY <1>2 DEF Quiet, ComplexCommit, Doubt, Releasing, Up, Clean

(* The fence of a medium release is invisible to the program. *)
LEMMA ReleaseFenceQuiet ==
    ASSUME IInv, ReleaseFence
    PROVE  Quiet
<1>1. InUse' = InUse
  BY LinkStores, Zenon DEF ReleaseFence, cached, Valid, oid
<1>2. Doubt' = Doubt
  BY Zenon DEF IInv, TypeOK, Operation, ReleaseFence, Doubt, Releasing
<1> QED
  BY <1>1, <1>2, Zenon DEF Quiet, ReleaseFence, cached, Up, Clean

(* A close begins, and flushes what record wrote. *)
LEMMA CloseQuiet ==
    ASSUME IInv, CloseBegin \/ ShutdownFlush
    PROVE  Quiet
<1>1. InUse' = InUse
  BY LinkStores, Zenon DEF CloseBegin, ShutdownFlush, cached, Valid, oid
<1>2. Doubt' = Doubt
  BY Zenon DEF IInv, TypeOK, Operation, CloseBegin, Running, ShutdownFlush, Doubt,
     Releasing
<1> QED
  BY <1>1, <1>2 DEF Quiet, CloseBegin, Running, ShutdownFlush, cached, Up, Clean

(* record links a half-used extent, which stays in use. *)
LEMMA recordQuiet ==
    ASSUME IInv, NEW e \in Extent, record(e)
    PROVE  Quiet
<1>1. Valid' = Valid
  BY Zenon DEF IInv, TypeOK, Head, record, Valid, oid
<1>2. InUse' = InUse
  BY <1>1, LinkStores, TypesKept DEF IInv, TypeOK, record
<1>3. Clean' = Clean
  BY Zenon DEF IInv, TypeOK, Head, record, Clean
<1> QED
  BY <1>2, <1>3, Zenon DEF Quiet, record, Doubt, Up, Releasing

(* An open only reads. *)
LEMMA OpenQuiet ==
    ASSUME IInv, Open
    PROVE  Quiet
<1>1. InUse' = InUse
  BY LinkStores, Zenon DEF Open, cached, Valid, oid
<1> QED
  BY <1>1 DEF Quiet, Open, cached, Doubt, Releasing, Up, Clean

(* The loops of reboot and resume clear links. *)
LEMMA LoopQuiet ==
    ASSUME IInv, RebootLoop \/ ResumeLoop
    PROVE  Quiet
<1>1. Valid' = Valid /\ cur \in Extent
  BY Zenon DEF IInv, TypeOK, Pointer, RebootLoop, ResumeLoop, Unlink, Valid, oid
<1>2. desc' = [desc EXCEPT ![cur].next = Null]
  BY Zenon DEF RebootLoop, ResumeLoop, Unlink
<1>3. InUse' = InUse
  BY <1>1, <1>2, LinkStores, TypesKept DEF IInv, TypeOK
<1> QED
  BY <1>3, Zenon DEF Quiet, RebootLoop, ResumeLoop, Unlink, Doubt, Releasing, Up, Clean

(* resume marks a descriptor that is free already. *)
LEMMA ResumeHeadQuiet ==
    ASSUME IInv, ResumeHead
    PROVE  Quiet
<1>1. Valid' = Valid
  BY Zenon DEF IInv, TypeOK, Head, ResumeHead, Valid, oid
<1>2. \A e \in 0 .. Valid.ext_used - 1 : e # Valid.ext_free => desc'[e] = desc[e]
  BY Slots DEF IInv, TypeOK, ResumeHead, Extent
<1>3. InUse' = InUse
  BY <1>1, <1>2, InUseIs, Zenon
<1>4. Clean' = Clean
  BY Zenon DEF IInv, TypeOK, Head, ResumeHead, Clean
<1>5. Doubt' = Doubt
  BY Zenon DEF IInv, TypeOK, Operation, ResumeHead, Doubt, Releasing
<1> QED
  BY <1>3, <1>4, <1>5, Zenon DEF Quiet, ResumeHead, Up

(* The program does not see the cache write a line back. *)
LEMMA EvictQuiet ==
    ASSUME Evict \/ UNCHANGED vars
    PROVE  Quiet
  BY Zenon DEF Evict, vars, cached, Quiet, InUse, Allocated, Doubt, Releasing, Up, Clean

-----------------------------------------------------------------------------
(* Steps that ExtentPool takes too.  Each lemma shows which one, and that  *)
(* PoolInv holds after it.                                                 *)

(* The commit of an acquire hands out one extent that was not out. *)
LEMMA Grant ==
    ASSUME IInv, PoolInv, Acquiring,
           held' = held \union {op.ext}, op' = Idle, Up', UNCHANGED <<Up, Clean>>,
           InUse' \subseteq InUse \union {op.ext}
    PROVE  PoolInv' /\ Pool!Acquire
<1>1. Up /\ ~ Releasing /\ op.ext \in Extent \ held
  BY Zenon DEF IInv, ModeInv, AcquireInv, HeldIsAllocated, Acquiring, Releasing, Up
<1>2. Pool!Acquire
  BY <1>1, Zenon DEF Pool!Acquire
<1>3. InUse \subseteq held
  BY <1>1, Zenon DEF PoolInv, Doubt
<1> QED
  BY <1>1, <1>2, <1>3, Zenon DEF PoolInv

(* The commit of a small or large acquire. *)
LEMMA PlainCommitPool ==
    ASSUME IInv, PoolInv, PlainCommit
    PROVE  PoolInv' /\ Pool!Acquire
<1>1. Valid' = Granted(Valid) /\ Acquiring /\ mode = "open"
  BY Slots, Zenon DEF IInv, TypeOK, ModeInv, PlainCommit, Acquiring, Valid, oid
<1>2. /\ op.fresh => op.ext = Valid.ext_used
                     /\ Valid'.ext_used = Valid.ext_used + 1
      /\ ~ op.fresh => op.ext = Valid.ext_free /\ Valid'.ext_used = Valid.ext_used
  BY <1>1, Slots, Zenon DEF IInv, AcquireInv, Granted, DescMeta
<1>3. InUse' \subseteq InUse \union {op.ext}
  <2> SUFFICES ASSUME NEW e \in InUse', e # op.ext PROVE e \in InUse
    BY Zenon
  <2>1. e \in 0 .. Valid.ext_used - 1 /\ desc[e].type # "kInvalid"
    BY <1>1, <1>2, Slots, InUseIs, SMTT(30) DEF IInv, PlainCommit
  <2>2. e # Valid.ext_free
    BY <1>1, <1>2, <2>1, Slots, NullAssumption, SMTT(30) DEF IInv, AcquireInv
  <2> QED  BY <2>1, <2>2, InUseIs, Zenon
<1> QED
  BY <1>1, <1>3, Grant, Zenon DEF PlainCommit, Up, Clean

(* The commit of a medium acquire. *)
LEMMA ComplexFlipPool ==
    ASSUME IInv, PoolInv, ComplexFlip
    PROVE  PoolInv' /\ Pool!Acquire
<1>1. Valid' = meta[nid] /\ Acquiring /\ mode = "open" /\ Clean' = Clean
  BY Zenon DEF IInv, TypeOK, Head, ModeInv, ComplexFlip, Acquiring, Valid, oid, nid, Clean
<1>2. /\ op.fresh => op.ext = Valid.ext_used
                     /\ Valid'.ext_used = Valid.ext_used + 1
      /\ ~ op.fresh => op.ext = Valid.ext_free /\ Valid'.ext_used = Valid.ext_used
  BY <1>1, Slots, Zenon DEF IInv, ComplexFlip, AcquireInv, Granted, DescMeta
<1>3. InUse' \subseteq InUse \union {op.ext}
  <2> SUFFICES ASSUME NEW e \in InUse', e # op.ext PROVE e \in InUse
    BY Zenon
  <2>1. e \in 0 .. Valid.ext_used - 1 /\ desc[e].type # "kInvalid"
    BY <1>1, <1>2, Slots, InUseIs DEF IInv, ComplexFlip
  <2>2. e # Valid.ext_free
    BY <1>1, <1>2, <2>1, Slots, NullAssumption DEF IInv, AcquireInv
  <2> QED  BY <2>1, <2>2, InUseIs, Zenon
<1> QED
  BY <1>1, <1>3, Grant, Zenon DEF ComplexFlip, Up

(* A release takes the extent back with its first store. *)
LEMMA TakeBack ==
    ASSUME IInv, PoolInv, NEW e \in held, Up, ~ Releasing,
           held' = held \ {e}, UNCHANGED <<Up, Clean, InUse>>, Doubt' = {e}
    PROVE  PoolInv' /\ Pool!Release
<1>1. Pool!Release
  BY Zenon DEF Pool!Release
<1>2. InUse \subseteq held
  BY Zenon DEF PoolInv, Doubt
<1> QED
  BY <1>1, <1>2, Zenon DEF PoolInv

(* A small or large release begins. *)
LEMMA PlainReleasePool ==
    ASSUME IInv, PoolInv, NEW e \in Extent, PlainRelease(e)
    PROVE  PoolInv' /\ Pool!Release
<1>1. InUse' = InUse
  BY LinkStores, TypesKept DEF IInv, TypeOK, PlainRelease, Valid, oid
<1>2. Doubt' = {e} /\ ~ Releasing
  BY Zenon DEF PlainRelease, Doubt, Releasing, Idle
<1> QED
  BY <1>1, <1>2, TakeBack, Zenon DEF PlainRelease, Up, Clean

(* A medium release begins. *)
LEMMA ComplexReleasePool ==
    ASSUME IInv, PoolInv, NEW e \in Extent, ComplexRelease(e)
    PROVE  PoolInv' /\ Pool!Release
<1>1. Valid' = Valid
  BY Slots, Zenon DEF IInv, TypeOK, ComplexRelease, Valid, oid, nid
<1>2. InUse' = InUse
  BY <1>1, LinkStores, TypesKept DEF IInv, TypeOK, ComplexRelease
<1>3. Doubt' = {e} /\ ~ Releasing
  BY Zenon DEF ComplexRelease, Doubt, Releasing, Idle
<1> QED
  BY <1>2, <1>3, TakeBack, Zenon DEF ComplexRelease, Up, Clean

(* The rest of a release: the extent leaves the ones in use. *)
LEMMA Retire ==
    ASSUME IInv, PoolInv, Releasing, UNCHANGED <<held, Up, Clean>>,
           InUse' \subseteq InUse \ {op.ext}
    PROVE  PoolInv' /\ UNCHANGED Pool!vars
<1>1. Up
  BY Zenon DEF IInv, ModeInv, Up
<1>2. InUse' \subseteq held
  BY <1>1, Zenon DEF PoolInv, Doubt
<1> QED
  BY <1>1, <1>2, Zenon DEF PoolInv, Pool!vars

(* The link of a small or large release puts it on the free list. *)
LEMMA PlainLinkPool ==
    ASSUME IInv, PoolInv, PlainLink
    PROVE  PoolInv' /\ UNCHANGED Pool!vars
<1>1. Valid' = [Valid EXCEPT !.ext_free = op.ext]
  BY Slots, Zenon DEF IInv, TypeOK, PlainLink, Valid, oid
<1>2. Valid'.ext_free = op.ext /\ Valid'.ext_used = Valid.ext_used
  BY <1>1, Slots, Zenon DEF IInv, DescMeta
<1>3. Valid.ext_free = Null \/ desc[Valid.ext_free].type = "kInvalid"
  BY Zenon DEF IInv, ModeInv, HeadInvalid, PlainLink, Acquiring, Releasing
<1>4. InUse' \subseteq InUse \ {op.ext}
  BY <1>2, <1>3, Slots, InUseIs, NullAssumption DEF IInv, PlainLink
<1> QED
  BY <1>4, Retire, Zenon DEF PlainLink, Releasing, Up, Clean

(* The flip of a medium release puts it on the free list. *)
LEMMA ReleaseFlipPool ==
    ASSUME IInv, PoolInv, ReleaseFlip
    PROVE  PoolInv' /\ UNCHANGED Pool!vars
<1>1. Valid' = meta[nid] /\ Clean' = Clean
  BY Zenon DEF IInv, TypeOK, Head, ReleaseFlip, Valid, oid, nid, Clean
<1>2. Valid'.ext_free = op.ext /\ Valid'.ext_used = Valid.ext_used
  BY <1>1, Zenon DEF IInv, ReleaseInv, ReleaseFlip, Releasing
<1>3. Valid.ext_free = Null \/ desc[Valid.ext_free].type = "kInvalid"
  BY Zenon DEF IInv, ModeInv, HeadInvalid, ReleaseFlip, Acquiring, Releasing
<1>4. InUse' \subseteq InUse \ {op.ext}
  BY <1>2, <1>3, Slots, InUseIs, NullAssumption DEF IInv, ReleaseFlip
<1> QED
  BY <1>1, <1>4, Retire, Zenon DEF ReleaseFlip, Releasing, Up

(* The end of both marks a descriptor that is free already. *)
LEMMA DestructPool ==
    ASSUME IInv, PoolInv, Destruct
    PROVE  PoolInv' /\ UNCHANGED Pool!vars
<1>1. Valid' = Valid /\ op.ext = Valid.ext_free
  BY Zenon DEF IInv, ReleaseInv, Releasing, Destruct, Valid, oid
<1>2. \A e \in 0 .. Valid.ext_used - 1 : e # op.ext => desc'[e] = desc[e]
  BY Slots DEF IInv, TypeOK, Destruct, Extent
<1>3. InUse' \subseteq InUse \ {op.ext}
  BY <1>1, <1>2, InUseIs, Zenon
<1> QED
  BY <1>3, Retire, Zenon DEF Destruct, Releasing, Up, Clean

(* A close leaves in use exactly what is out. *)
LEMMA ShutdownCommitPool ==
    ASSUME IInv, PoolInv, ShutdownCommit
    PROVE  PoolInv' /\ Pool!Close
<1>1. Up /\ ~ Up' /\ Clean' /\ ~ Releasing
  BY Zenon DEF IInv, TypeOK, Head, ModeInv, ShutdownCommit, Up, Clean, Releasing
<1>2. Valid' = Valid
  BY Zenon DEF IInv, TypeOK, Head, ShutdownCommit, Valid, oid
<1>3. InUse' = InUse
  BY <1>2, LinkStores, Zenon DEF ShutdownCommit
<1>4. PoolInv'
  BY <1>1, <1>3, Zenon DEF PoolInv, Doubt, ShutdownCommit
<1> QED
  BY <1>1, <1>4 DEF Pool!Close, ShutdownCommit

(* A reboot hands out exactly what was out at the close. *)
LEMMA RebootFinishPool ==
    ASSUME IInv, PoolInv, RebootFinish
    PROVE  PoolInv' /\ Pool!Reboot
<1>1. ~ Up /\ Up' /\ Clean /\ ~ Clean' /\ ~ Releasing
  BY Zenon DEF IInv, TypeOK, Head, ModeInv, RebootFinish, Up, Clean, Releasing
<1>2. Valid' = Valid
  BY Zenon DEF IInv, TypeOK, Head, RebootFinish, Valid, oid
<1>3. InUse' = InUse /\ held' = InUse
  BY <1>2, LinkStores, Zenon DEF RebootFinish, InUse
<1>4. held' = held
  BY <1>1, <1>3, Zenon DEF PoolInv, Doubt, IInv, HeldIsAllocated, InUse
<1>5. PoolInv'
  BY <1>1, <1>3, Zenon DEF PoolInv
<1> QED
  BY <1>1, <1>4, <1>5 DEF Pool!Reboot

(* After a crash at most the extent in doubt comes back. *)
LEMMA ResumeFinishPool ==
    ASSUME IInv, PoolInv, ResumeFinish
    PROVE  PoolInv' /\ Pool!Recover
<1>1. ~ Up /\ Up' /\ ~ Clean /\ UNCHANGED Clean
  BY Zenon DEF IInv, ModeInv, ResumeFinish, cached, Up, Clean
<1>2. InUse' = InUse /\ held' = InUse
  BY LinkStores, Zenon DEF ResumeFinish, cached, Valid, oid, InUse
<1>3. PICK x \in Extent : InUse \subseteq held \union {x}
  BY <1>1, Zenon DEF PoolInv
<1>4. held \subseteq InUse
  BY Zenon DEF IInv, HeldIsAllocated, InUse
<1>5. held' \in {held, held \union {x}}
  BY <1>2, <1>3, <1>4, Zenon
<1>6. PoolInv'
  BY <1>1, <1>2, Zenon DEF PoolInv
<1> QED
  BY <1>1, <1>5, <1>6, Zenon DEF Pool!Recover

(* A crash changes nothing that is in use; it puts at most the extent of   *)
(* the release in flight in doubt.                                         *)
LEMMA CrashPool ==
    ASSUME IInv, PoolInv, Crash
    PROVE  PoolInv' /\ [Pool!Crash]_(Pool!vars)
<1>1. /\ ~ Up' /\ Clean' = Clean /\ held' = held
  BY Zenon DEF IInv, HeadSync, Crash, Up, Clean
<1>2. InUse' = InUse
  <2>1. InUse' = Allocated(dhead, dmeta, ddesc)
    BY Zenon DEF InUse, Allocated, Crash
  <2> QED  BY <2>1, DurableInUse, Zenon
<1>3. CASE Clean
  <2>1. ~ Releasing
    BY <1>3, Zenon DEF IInv, ModeInv, Clean
  <2> QED
    <3>1. PoolInv'
      BY <1>1, <1>2, <1>3, <2>1, Zenon DEF PoolInv, Doubt
    <3>2. [Pool!Crash]_(Pool!vars)
      BY <1>1 DEF Pool!Crash, Pool!vars, Up
    <3> QED  BY <3>1, <3>2, Zenon
<1>4. CASE ~ Clean
  <2>1. \E x \in Extent : InUse \subseteq held \union {x}
    <3>1. CASE Up /\ Releasing
      <4>1. op.ext \in Extent
        BY <3>1, Slots, TotalAssumption DEF IInv, ReleaseInv, Extent
      <4> QED  BY <3>1, <4>1, Zenon DEF PoolInv, Doubt
    <3>2. CASE Up /\ ~ Releasing
      BY <3>2, TotalAssumption DEF PoolInv, Doubt, Extent
    <3>3. CASE ~ Up
      BY <1>4, <3>3, Zenon DEF PoolInv
    <3> QED  BY <3>1, <3>2, <3>3, Zenon
  <2>2. PoolInv'
    BY <1>1, <1>2, <1>4, <2>1, Zenon DEF PoolInv
  <2> QED
    BY <1>1, <2>2 DEF Pool!Crash, Pool!vars, Up
<1> QED
  BY <1>3, <1>4, Zenon

(* A reboot that power cuts short is taken for a crash, with nothing in    *)
(* doubt.                                                                  *)
LEMMA RebootTornPool ==
    ASSUME IInv, PoolInv, RebootTorn
    PROVE  PoolInv' /\ Pool!Crash
<1>1. /\ ~ Up /\ ~ Up' /\ Clean /\ ~ Clean' /\ held' = held /\ ~ Releasing
      /\ head'.mind = head.mind
  BY Zenon DEF IInv, TypeOK, Head, ModeInv, RebootTorn, Up, Clean, Releasing
<1>2. InUse' = InUse
  <2>1. InUse' = Allocated(dhead, dmeta, ddesc)
    BY <1>1, Zenon DEF InUse, Allocated, RebootTorn, IInv, HeadSync
  <2> QED  BY <2>1, DurableInUse, Zenon
<1>3. InUse \subseteq held
  BY <1>1, Zenon DEF PoolInv, Doubt
<1>4. PoolInv'
  BY <1>1, <1>2, <1>3, TotalAssumption DEF PoolInv, Extent
<1>5. (Up' = Up) /\ (Clean' = FALSE)
  BY <1>1 DEF Up, Clean
<1>6. Pool!Crash
  BY <1>1, <1>5, Zenon DEF Pool!Crash
<1> QED  BY <1>4, <1>6, Zenon

-----------------------------------------------------------------------------
(* Every step of MetaHead is a step of ExtentPool or leaves it unchanged.  *)
LEMMA PoolStep ==
    ASSUME IInv, PoolInv, [Next]_vars
    PROVE  PoolInv' /\ [Pool!Next]_(Pool!vars)
<1>1. ASSUME Quiet
      PROVE  PoolInv' /\ UNCHANGED Pool!vars
  BY <1>1, Zenon DEF Quiet, PoolInv, Pool!vars, Extent
<1>2. CASE \E t \in Requests : Acquire(t)
  BY <1>1, <1>2, AcquireQuiet, Zenon
<1>3. CASE Construct
  BY <1>1, <1>3, ConstructQuiet, Zenon
<1>4. CASE PlainCommit
  BY <1>4, PlainCommitPool, Zenon DEF Pool!Next
<1>5. CASE ComplexCommit
  BY <1>1, <1>5, ComplexCommitQuiet, Zenon
<1>6. CASE ComplexFlip
  BY <1>6, ComplexFlipPool, Zenon DEF Pool!Next
<1>7. CASE \E e \in Extent : PlainRelease(e)
  BY <1>7, PlainReleasePool, Zenon DEF Pool!Next
<1>8. CASE \E e \in Extent : ComplexRelease(e)
  BY <1>8, ComplexReleasePool, Zenon DEF Pool!Next
<1>9. CASE \E e \in Extent : record(e)
  BY <1>1, <1>9, recordQuiet, Zenon
<1>10. CASE PlainLink
  BY <1>10, PlainLinkPool, Zenon
<1>11. CASE ReleaseFence
  BY <1>1, <1>11, ReleaseFenceQuiet, Zenon
<1>12. CASE ReleaseFlip
  BY <1>12, ReleaseFlipPool, Zenon
<1>13. CASE Destruct
  BY <1>13, DestructPool, Zenon
<1>14. CASE CloseBegin \/ ShutdownFlush
  BY <1>1, <1>14, CloseQuiet, Zenon
<1>15. CASE ShutdownCommit
  BY <1>15, ShutdownCommitPool, Zenon DEF Pool!Next
<1>16. CASE Open
  BY <1>1, <1>16, OpenQuiet, Zenon
<1>17. CASE RebootLoop \/ ResumeLoop
  BY <1>1, <1>17, LoopQuiet, Zenon
<1>18. CASE RebootFinish
  BY <1>18, RebootFinishPool, Zenon DEF Pool!Next
<1>19. CASE ResumeHead
  BY <1>1, <1>19, ResumeHeadQuiet, Zenon
<1>20. CASE ResumeFinish
  BY <1>20, ResumeFinishPool, Zenon DEF Pool!Next
<1>21. CASE Evict \/ UNCHANGED vars
  BY <1>1, <1>21, EvictQuiet, Zenon
<1>22. CASE Crash
  BY <1>22, CrashPool, Zenon DEF Pool!Next
<1>23. CASE RebootTorn
  BY <1>23, RebootTornPool, Zenon DEF Pool!Next
<1> QED
  BY Zenon, <1>2, <1>3, <1>4, <1>5, <1>6, <1>7, <1>8, <1>9, <1>10, <1>11, <1>12, <1>13,
     <1>14, <1>15, <1>16, <1>17, <1>18, <1>19, <1>20, <1>21, <1>22, <1>23 DEF Next

(* MetaHead::init makes an empty pool. *)
LEMMA PoolInit ==
    ASSUME Init
    PROVE  PoolInv /\ Pool!Init
<1>1. InUse = {}
  BY DEF Init, InUse, Allocated
<1> QED
  BY <1>1, Zenon DEF Init, PoolInv, Pool!Init, Up, Clean

(***************************************************************************)
(* MetaHead implements ExtentPool for every number of extents and for a    *)
(* power failure in any mode: its run cases see acquires, releases, closes *)
(* and crashes of a set of extents, and a crash brings back at most the    *)
(* extent whose release it interrupted (meta-file.h, all of MetaHead).     *)
(***************************************************************************)
THEOREM PoolRefinement == Spec => ImplementsPool
<1>1. Init => PoolInv /\ Pool!Init
  BY PoolInit, Zenon
<1>2. IInv /\ PoolInv /\ [Next]_vars => PoolInv' /\ [Pool!Next]_(Pool!vars)
  BY PoolStep, Zenon
<1> QED
  BY <1>1, <1>2, Inductive, PTL DEF Spec, ImplementsPool, Pool!Spec
-----------------------------------------------------------------------------
(***************************************************************************)
(* The linked lists of MetaHead: the free list of extents, the free list   *)
(* of MediumMeta blocks and the occupied_ list that a close leaves.        *)
(***************************************************************************)

(***************************************************************************)
(* F is what the list from first holds: it is closed under next, no two    *)
(* elements have the same next one, every set that can be walked from      *)
(* first has all of F, and the list ends.                                  *)
(***************************************************************************)
Walks(S, first, F, next) ==
    /\ first # Null => first \in S
    /\ \A x \in S : x \in F /\ next[x] # Null => next[x] \in S
LinkedList(first, F, next) ==
    /\ F \subseteq Extent /\ first \in F \union {Null}
    /\ \A x \in F : next[x] \in F \union {Null} /\ (next[x] # Null => next[x] # first)
    /\ \A x, y \in F : next[x] # Null /\ next[x] = next[y] => x = y
    /\ \A S \in SUBSET Extent : Walks(S, first, F, next) => F \subseteq S
    /\ F # {} => \E x \in F : next[x] = Null

(* A list holds its elements and no others. *)
LEMMA ListIs ==
    ASSUME NEW first, NEW F, NEW next, LinkedList(first, F, next)
    PROVE  ListFrom(first, next) = F /\ EndsInNull(F, next)
<1>1. EndsInNull(F, next)
  BY Zenon DEF LinkedList, EndsInNull
<1>2. ASSUME NEW e \in ListFrom(first, next)
      PROVE  e \in F
  <2>1. F \in SUBSET Extent /\ (first # Null => first \in F) /\ HasNext(F, next)
    BY Zenon DEF LinkedList, HasNext
  <2> QED BY <1>2, <2>1, Zenon DEF ListFrom
<1>3. ASSUME NEW e \in F
      PROVE  e \in ListFrom(first, next)
  <2> SUFFICES ASSUME NEW S \in SUBSET Extent, first # Null => first \in S, HasNext(S, next)
               PROVE  e \in S
    BY Zenon DEF ListFrom, LinkedList
  <2>1. Walks(S, first, F, next)
    BY Zenon DEF Walks, HasNext
  <2> QED BY <2>1, Zenon DEF LinkedList
<1> QED BY <1>1, <1>2, <1>3, Zenon

(* Only the links between its elements matter. *)
LEMMA ListSame ==
    ASSUME NEW first, NEW F, NEW next, LinkedList(first, F, next),
           NEW succ, \A x \in F : succ[x] = next[x]
    PROVE  LinkedList(first, F, succ)
<1>1. ASSUME NEW S \in SUBSET Extent, Walks(S, first, F, succ)
      PROVE  F \subseteq S
  <2>1. Walks(S, first, F, next)
    BY <1>1, Zenon DEF Walks
  <2> QED BY <2>1, Zenon DEF LinkedList
<1>2. /\ \A x \in F : succ[x] \in F \union {Null} /\ (succ[x] # Null => succ[x] # first)
      /\ \A x, y \in F : succ[x] # Null /\ succ[x] = succ[y] => x = y
  BY Zenon DEF LinkedList
<1>3. F # {} => \E x \in F : succ[x] = Null
  BY Zenon DEF LinkedList
<1> QED BY <1>1, <1>2, <1>3, Zenon DEF LinkedList

(* The first element is taken off. *)
LEMMA ListPop ==
    ASSUME NEW first, NEW F, NEW next, LinkedList(first, F, next), first # Null
    PROVE  LinkedList(next[first], F \ {first}, next)
<1>1. first \in F /\ F \subseteq Extent /\ next[first] \in (F \ {first}) \union {Null}
  BY Zenon DEF LinkedList
<1>2. ASSUME NEW x \in F \ {first}
      PROVE  /\ next[x] \in (F \ {first}) \union {Null}
             /\ next[x] # Null => next[x] # next[first]
  BY <1>1, Zenon DEF LinkedList
<1>3. \A x, y \in F \ {first} : next[x] # Null /\ next[x] = next[y] => x = y
  BY Zenon DEF LinkedList
<1>4. ASSUME NEW S \in SUBSET Extent, Walks(S, next[first], F \ {first}, next)
      PROVE  F \ {first} \subseteq S
  <2>1. S \union {first} \in SUBSET Extent
    BY <1>1, Zenon
  <2>2. Walks(S \union {first}, first, F, next)
    BY <1>4, Zenon DEF Walks
  <2>3. F \subseteq S \union {first}
    BY <2>1, <2>2, Zenon DEF LinkedList
  <2> QED BY <2>3, Zenon
<1>5. ASSUME F \ {first} # {}
      PROVE  \E x \in F \ {first} : next[x] = Null
  <2>1. PICK x \in F : next[x] = Null
    BY <1>5, Zenon DEF LinkedList
  <2>2. CASE x # first
    BY <2>1, <2>2, Zenon
  <2>3. CASE x = first
    <3>1. Walks({first}, first, F, next)
      BY <2>1, <2>3, Zenon DEF Walks
    <3>2. {first} \in SUBSET Extent
      BY <1>1, Zenon
    <3>3. F \subseteq {first}
      BY <3>1, <3>2, Zenon DEF LinkedList
    <3> QED BY <1>5, <3>3, Zenon
  <2> QED BY <2>2, <2>3, Zenon
<1> QED BY <1>1, <1>2, <1>3, <1>4, <1>5, Zenon DEF LinkedList

(* A new element is put in front. *)
LEMMA ListPush ==
    ASSUME NEW first, NEW F, NEW next, LinkedList(first, F, next),
           NEW e \in Extent, e \notin F, NEW succ,
           succ[e] = first, \A x \in F : succ[x] = next[x]
    PROVE  LinkedList(e, F \union {e}, succ)
<1> DEFINE G == F \union {e}
<1>0. e # Null
  BY NullAssumption, TotalAssumption DEF Extent
<1>1. /\ G \subseteq Extent /\ e \in G
      /\ \A x \in G : succ[x] \in F \union {Null}
  BY Zenon DEF LinkedList
<1>2. \A x \in G : succ[x] # Null => succ[x] # e
  BY <1>1, Zenon
<1>3. ASSUME NEW x \in G, NEW y \in G, succ[x] # Null, succ[x] = succ[y]
      PROVE  x = y
  BY <1>3, Zenon DEF LinkedList
<1>4. ASSUME NEW S \in SUBSET Extent, Walks(S, e, G, succ)
      PROVE  G \subseteq S
  <2>1. e \in S
    BY <1>0, <1>4, Zenon DEF Walks
  <2>2. Walks(S, first, F, next)
    BY <1>4, <2>1, Zenon DEF Walks
  <2>3. F \subseteq S
    BY <2>2, Zenon DEF LinkedList
  <2> QED BY <2>1, <2>3, Zenon
<1>5. \E x \in G : succ[x] = Null
  <2>1. CASE F = {}
    BY <2>1, Zenon DEF LinkedList
  <2>2. CASE F # {}
    BY <2>2, Zenon DEF LinkedList
  <2> QED BY <2>1, <2>2, Zenon
<1> QED BY <1>1, <1>2, <1>3, <1>4, <1>5, Zenon DEF LinkedList

-----------------------------------------------------------------------------
(***************************************************************************)
(* The invariants.                                                         *)
(***************************************************************************)

(* The links of the descriptors. *)
Links(d) == [e \in Extent |-> d[e].next]

(* The extents below ext_used that are free. *)
Free == {e \in 0 .. Valid.ext_used - 1 : IsFree(Valid, desc, e)}

(* The free list holds the free extents, and its links are durable. *)
FreeListInv ==
    /\ LinkedList(Valid.ext_free, Free, Links(desc))
    /\ \A e \in Free : desc[e].next = ddesc[e].next

(* The occupied_ list never leads out of the extents that a close records, *)
(* which are held; it is empty in an open pool.                            *)
Recorded == IF mode = "closing" THEN loaded ELSE half
OccupiedInv ==
    /\ mode = "open" =>
          head.occupied = Null /\ dhead.occupied = Null /\ cur = Null /\ loaded = {}
    /\ mode # "open" =>
          /\ Recorded \subseteq half /\ half \subseteq held
          /\ {head.occupied, dhead.occupied} \subseteq Recorded \union {Null}
          /\ \A e \in Recorded : desc[e].next \in Recorded \union {Null}
    /\ mode \in {"down", "reboot", "resume"} \/ op.pc = "shutdown" =>
          \A e \in Recorded : ddesc[e].next \in Recorded \union {Null}
    /\ op.pc = "shutdown" => loaded = half
    /\ op.pc = "resumed" => head.occupied = Null
    /\ mode \in {"down", "resume"} => loaded = {}
    /\ mode # "open" => cur \in half \union {Null}

(* After a close the occupied_ list holds the recorded extents, and in a   *)
(* reboot those that it has not read.                                      *)
RecordedInv ==
    /\ mode = "closing" => loaded \subseteq half /\ LinkedList(head.occupied, loaded, Links(desc))
    /\ op.pc = "shutdown" => loaded = half
    /\ mode = "down" => dhead = head
    /\ mode = "down" /\ Clean => LinkedList(head.occupied, half, Links(desc))
    /\ mode \in {"open", "down", "resume"} => loaded = {}
    /\ mode = "open" \/ (mode = "resume" /\ op.pc = "resumed") => head.occupied = Null
    /\ mode = "reboot" => loaded \subseteq half /\ LinkedList(cur, half \ loaded, Links(desc))

(* MediumMeta blocks: the medium extents in use, and the blocks that they  *)
(* do not have.                                                            *)
Medium == {e \in InUse : desc[e].type = "medium"}
FreeBlocks == (0 .. Valid.med_used - 1) \ {desc[e].runs : e \in Medium}
BlockInv ==
    /\ Valid.med_used <= Total
    /\ \A e \in Medium :
          desc[e].runs \in 0 .. Valid.med_used - 1 /\ ddesc[e].runs = desc[e].runs
    /\ \A e, f \in Medium : desc[e].runs = desc[f].runs => e = f
    /\ LinkedList(Valid.med_free, FreeBlocks, med)
    /\ \A b \in FreeBlocks : dmed[b] = med[b]

(* The blocks of the operation in flight, and of the slot it prepares. *)
SlotInv ==
    /\ Acquiring /\ op.type = "medium" =>
          /\ op.runs = TakenBlock(Valid)
          /\ meta[nid].med_used = allocate_meta(Valid).med_used
          /\ meta[nid].med_free = allocate_meta(Valid).med_free
          /\ op.pc \in {"commit", "flip"} => desc[op.ext].runs = op.runs
    /\ op.pc = "link" => desc[op.ext].type # "medium"
    /\ op.pc \in {"fence", "unflip"} =>
          /\ desc[op.ext].type = "medium" /\ op.runs = desc[op.ext].runs
          /\ meta[nid].med_used = Valid.med_used /\ meta[nid].med_free = op.runs
          /\ med[op.runs] = Valid.med_free
          /\ op.pc = "unflip" => dmed[op.runs] = med[op.runs]
-----------------------------------------------------------------------------
(***************************************************************************)
(* The free list of extents.                                               *)
(***************************************************************************)

(* The free extents are those below ext_used that are not in use. *)
LEMMA FreeIs ==
    ASSUME IInv
    PROVE  /\ \A e : e \in Free <=> /\ e \in 0 .. Valid.ext_used - 1
                                    /\ desc[e].type = "kInvalid" \/ e = Valid.ext_free
           /\ \A e : e \in Free <=> e \in 0 .. Valid.ext_used - 1 /\ e \notin InUse
           /\ \A e : e \in Free' <=> /\ e \in 0 .. Valid'.ext_used - 1
                                     /\ desc'[e].type = "kInvalid" \/ e = Valid'.ext_free
           /\ \A e : e \in Free' <=> e \in 0 .. Valid'.ext_used - 1 /\ e \notin InUse'
           /\ Free \subseteq Extent /\ Free \intersect held = {}
<1>1. 0 .. Valid.ext_used - 1 \subseteq Extent
  BY Slots, TotalAssumption DEF IInv, Extent
<1>2. held \subseteq InUse
  BY Zenon DEF IInv, HeldIsAllocated, InUse
<1> QED BY <1>1, <1>2, InUseIs, Zenon DEF Free, IsFree

(* The links of a descriptor. *)
LEMMA LinksIs == \A e \in Extent : Links(desc)[e] = desc[e].next /\ Links(desc')[e] = desc'[e].next
  BY Zenon DEF Links

(* A step that frees no extent, takes none and leaves the links of the     *)
(* free ones, or writes them back.                                         *)
LEMMA FreeKept ==
    ASSUME IInv, FreeListInv, InUse' = InUse,
           Valid'.ext_used = Valid.ext_used, Valid'.ext_free = Valid.ext_free,
           \A e \in Free : /\ desc'[e].next = desc[e].next
                           /\ ddesc'[e].next \in {ddesc[e].next, desc[e].next}
    PROVE  FreeListInv'
<1>1. Free' = Free
  BY FreeIs, Zenon
<1>2. LinkedList(Valid.ext_free, Free, Links(desc'))
  <2>1. \A e \in Free : Links(desc')[e] = Links(desc)[e]
    BY FreeIs, LinksIs, Zenon
  <2> QED BY <2>1, ListSame, Zenon DEF FreeListInv
<1>3. LinkedList(Valid'.ext_free, Free', Links(desc'))
  BY <1>1, <1>2, Zenon
<1>4. \A e \in Free' : desc'[e].next = ddesc'[e].next
  BY <1>1, Zenon DEF FreeListInv
<1> QED BY <1>3, <1>4, Zenon DEF FreeListInv

(* The commit of an acquire takes the first extent off the list, or leaves *)
(* an empty list for an extent that was never used.                        *)
LEMMA FreeGrant ==
    ASSUME IInv, FreeListInv, Acquiring, UNCHANGED <<desc, ddesc>>,
           Valid'.ext_used = Granted(Valid).ext_used, Valid'.ext_free = Granted(Valid).ext_free
    PROVE  FreeListInv'
<1>1. op.ext \in Extent /\ desc[op.ext].type # "kInvalid"
  BY Zenon DEF IInv, TypeOK, AcquireInv, Operation, Type
<1>2. CASE op.fresh
  <2>1. /\ op.ext = Valid.ext_used /\ Valid.ext_free = Null
        /\ Valid'.ext_used = Valid.ext_used + 1 /\ Valid'.ext_free = Null
    BY <1>2, Slots, Zenon DEF IInv, AcquireInv, Granted, DescMeta
  <2>2. \A e : e \in 0 .. Valid'.ext_used - 1 <=> e \in 0 .. Valid.ext_used - 1 \/ e = op.ext
    BY <2>1, Slots DEF IInv
  <2>3. Free' = Free
    <3>1. op.ext \notin 0 .. Valid.ext_used - 1 /\ op.ext # Null
      BY <1>1, <2>1, Slots, NullAssumption, TotalAssumption DEF IInv, Extent
    <3> QED BY <1>1, <2>1, <2>2, <3>1, FreeIs, ZenonT(30)
  <2> QED BY <2>1, <2>3, Zenon DEF FreeListInv
<1>3. CASE ~ op.fresh
  <2>1. /\ op.ext = Valid.ext_free /\ op.ext # Null
        /\ Valid'.ext_used = Valid.ext_used /\ Valid'.ext_free = desc[op.ext].next
    <3>1. op.ext # Null
      BY <1>1, NullAssumption, TotalAssumption DEF Extent
    <3> QED BY <1>3, <3>1, Slots, ZenonT(30) DEF IInv, AcquireInv, Granted, DescMeta
  <2>2. LinkedList(Links(desc)[op.ext], Free \ {op.ext}, Links(desc))
    BY <2>1, ListPop, Zenon DEF FreeListInv
  <2>3. Links(desc)[op.ext] = Valid'.ext_free
    BY <1>1, <2>1, LinksIs, Zenon
  <2>4. Valid'.ext_free \in (Free \ {op.ext}) \union {Null}
    BY <2>2, <2>3, Zenon DEF LinkedList
  <2>5. Null \notin 0 .. Valid.ext_used - 1
    BY Slots, NullAssumption DEF IInv
  <2>6. Free' = Free \ {op.ext}
    BY <1>1, <2>1, <2>4, <2>5, FreeIs, Zenon
  <2>7. LinkedList(Valid'.ext_free, Free', Links(desc'))
    BY <2>2, <2>3, <2>6, Zenon
  <2>8. \A e \in Free' : desc'[e].next = ddesc'[e].next
    BY <2>6, Zenon DEF FreeListInv
  <2> QED BY <2>7, <2>8, Zenon DEF FreeListInv
<1> QED BY <1>2, <1>3, Zenon

(* The commit of a release puts its extent in front of the list. *)
LEMMA FreeLink ==
    ASSUME IInv, FreeListInv, op.pc \in {"link", "unflip"}, UNCHANGED <<desc, ddesc>>,
           Valid'.ext_used = Valid.ext_used, Valid'.ext_free = op.ext
    PROVE  FreeListInv'
<1>1. /\ op.ext \in 0 .. Valid.ext_used - 1 /\ op.ext # Valid.ext_free
      /\ desc[op.ext].type # "kInvalid" /\ desc[op.ext].next = Valid.ext_free
      /\ ddesc[op.ext] = desc[op.ext] /\ mode \in {"open", "closing"}
  BY Zenon DEF IInv, ReleaseInv, ModeInv, Releasing
<1>2. op.ext \in Extent /\ op.ext \notin Free
  <2>1. op.ext \in Extent
    BY <1>1, Slots, TotalAssumption DEF IInv, Extent
  <2> QED BY <1>1, <2>1, FreeIs, Zenon
<1>3. Valid.ext_free = Null \/ desc[Valid.ext_free].type = "kInvalid"
  BY <1>1, Zenon DEF IInv, HeadInvalid, Acquiring
<1>4. Null \notin 0 .. Valid.ext_used - 1
  BY Slots, NullAssumption DEF IInv
<1>5. Free' = Free \union {op.ext}
  BY <1>1, <1>3, <1>4, FreeIs, Zenon
<1>6. Links(desc)[op.ext] = Valid.ext_free
  BY <1>1, <1>2, LinksIs, Zenon
<1>7. LinkedList(op.ext, Free \union {op.ext}, Links(desc))
  BY <1>2, <1>6, ListPush, Zenon DEF FreeListInv
<1>8. LinkedList(Valid'.ext_free, Free', Links(desc'))
  BY <1>5, <1>7, Zenon
<1>9. \A e \in Free' : desc'[e].next = ddesc'[e].next
  BY <1>1, <1>5, Zenon DEF FreeListInv
<1> QED BY <1>8, <1>9, Zenon DEF FreeListInv

(* Stores to a descriptor leave the links of the others, and those to      *)
(* type_ its own.                                                          *)
LEMMA LinksKept ==
    ASSUME NEW d \in [Extent -> ExtentDesc], NEW x \in Extent, NEW e \in Extent
    PROVE  /\ \A t : [d EXCEPT ![x].type = t][e].next = d[e].next
           /\ e # x => \A p : [d EXCEPT ![x].next = p][e] = d[e]
           /\ e # x => \A p, b : [d EXCEPT ![x].next = p, ![x].runs = b][e] = d[e]
           /\ \A p : [d EXCEPT ![x].next = p][x].next = p
           /\ \A p, b : [d EXCEPT ![x].next = p, ![x].runs = b][x].next = p
  BY Zenon DEF ExtentDesc

(* The steps of an acquire before its commit. *)
LEMMA FreeAcquire ==
    ASSUME IInv, FreeListInv, (\E t \in Requests : Acquire(t)) \/ Construct \/ ComplexCommit
    PROVE  FreeListInv'
<1>1. CASE \E t \in Requests : Acquire(t)
  <2>1. PICK t \in Requests : Acquire(t)
    BY <1>1, Zenon
  <2>2. Valid' = Valid /\ ddesc' = ddesc /\ InUse' = InUse
    BY <2>1, Slots, AcquireQuiet, Zenon DEF IInv, TypeOK, Acquire, durable, Valid, oid, nid, Quiet
  <2>3. op'.ext \in Extent
    <3>1. Valid.ext_free # Null => Valid.ext_free \in Extent
      BY Slots, Zenon DEF IInv, Pointer
    <3>2. Valid.ext_used < Total => Valid.ext_used \in Extent
      BY Slots, TotalAssumption DEF IInv, Extent
    <3> QED BY <2>1, <3>1, <3>2 DEF Acquire
  <2>4. \A e \in Extent : desc'[e].next = desc[e].next
    BY <2>1, <2>3, LinksKept DEF IInv, TypeOK, Acquire
  <2> QED BY <2>2, <2>4, FreeIs, FreeKept, Zenon
<1>2. CASE Construct
  <2>1. Valid' = Valid /\ InUse' = InUse /\ Acquiring
    BY <1>2, ConstructQuiet, Zenon DEF Construct, Valid, oid, Quiet, Acquiring
  <2>2. op.ext \in Extent
    BY <2>1, Zenon DEF IInv, AcquireInv
  <2>3. /\ desc' = [desc EXCEPT ![op.ext].next = op.next, ![op.ext].runs = op.runs]
        /\ ddesc' \in {ddesc, [ddesc EXCEPT ![op.ext] = desc'[op.ext]]}
    BY <1>2, Zenon DEF Construct
  <2>4. ASSUME NEW e \in Free, e = op.ext
        PROVE  op.next = desc[e].next /\ op.next = ddesc[e].next
    <3>1. e # Valid.ext_used
      BY Slots, FreeIs DEF IInv
    <3> QED BY <2>1, <2>4, <3>1, Zenon DEF IInv, AcquireInv
  <2>5. ASSUME NEW e \in Free
        PROVE  desc'[e].next = desc[e].next /\ ddesc'[e].next \in {ddesc[e].next, desc[e].next}
    <3>1. e \in Extent
      BY FreeIs, Zenon
    <3>2. desc'[e].next = desc[e].next
      BY <2>2, <2>3, <2>4, <3>1, LinksKept, SMTT(30) DEF IInv, TypeOK
    <3>3. ddesc'[e] \in {ddesc[e], desc'[e]}
      BY <2>2, <2>3, <3>1, Zenon DEF IInv, TypeOK
    <3> QED BY <3>2, <3>3, Zenon
  <2> QED BY <2>1, <2>5, FreeKept, Zenon
<1>3. CASE ComplexCommit
  <2>1. Valid' = Valid /\ InUse' = InUse
    BY <1>3, Slots, ComplexCommitQuiet, Zenon DEF IInv, TypeOK, ComplexCommit, Valid, oid, nid, Quiet
  <2>2. desc' = desc /\ ddesc' = [ddesc EXCEPT ![op.ext] = desc[op.ext]]
    BY <1>3, Zenon DEF ComplexCommit
  <2>3. \A e \in Extent : ddesc'[e] \in {ddesc[e], desc[e]}
    BY <2>2, Zenon DEF IInv, TypeOK
  <2> QED BY <2>1, <2>2, <2>3, FreeIs, FreeKept, Zenon
<1> QED BY <1>1, <1>2, <1>3, Zenon

(* The steps that commit an acquire or a release. *)
LEMMA FreeCommit ==
    ASSUME IInv, FreeListInv, PlainCommit \/ ComplexFlip \/ PlainLink \/ ReleaseFlip
    PROVE  FreeListInv'
<1>1. CASE PlainCommit
  <2>1. Valid' = Granted(Valid) /\ Acquiring /\ UNCHANGED <<desc, ddesc>>
    BY <1>1, Slots, Zenon DEF IInv, TypeOK, PlainCommit, Acquiring, Valid, oid
  <2> QED BY <2>1, FreeGrant, Zenon
<1>2. CASE ComplexFlip
  <2>1. Valid' = meta[nid] /\ Acquiring /\ UNCHANGED <<desc, ddesc>>
    BY <1>2, Zenon DEF IInv, TypeOK, Head, ComplexFlip, Acquiring, Valid, oid, nid
  <2>2. /\ Valid'.ext_used = Granted(Valid).ext_used
        /\ Valid'.ext_free = Granted(Valid).ext_free
    BY <1>2, <2>1, Zenon DEF IInv, AcquireInv, ComplexFlip
  <2> QED BY <2>1, <2>2, FreeGrant, Zenon
<1>3. CASE PlainLink
  <2>1. Valid' = [Valid EXCEPT !.ext_free = op.ext] /\ UNCHANGED <<desc, ddesc>>
    BY <1>3, Slots, Zenon DEF IInv, TypeOK, PlainLink, Valid, oid
  <2>2. Valid'.ext_used = Valid.ext_used /\ Valid'.ext_free = op.ext
    BY <2>1, Slots, Zenon DEF IInv, DescMeta
  <2> QED BY <1>3, <2>1, <2>2, FreeLink, Zenon DEF PlainLink
<1>4. CASE ReleaseFlip
  <2>1. Valid' = meta[nid] /\ UNCHANGED <<desc, ddesc>>
    BY <1>4, Zenon DEF IInv, TypeOK, Head, ReleaseFlip, Valid, oid, nid
  <2>2. Valid'.ext_used = Valid.ext_used /\ Valid'.ext_free = op.ext
    BY <1>4, <2>1, Zenon DEF IInv, ReleaseInv, Releasing, ReleaseFlip
  <2> QED BY <1>4, <2>1, <2>2, FreeLink, Zenon DEF ReleaseFlip
<1> QED BY <1>1, <1>2, <1>3, <1>4, Zenon

(* The stores of a release, and of record, to an extent that was in use. *)
LEMMA FreeRelease ==
    ASSUME IInv, FreeListInv, NEW x \in Extent, PlainRelease(x) \/ ComplexRelease(x) \/ record(x)
    PROVE  FreeListInv'
<1>1. Valid' = Valid
  BY Slots, ZenonT(30) DEF IInv, TypeOK, Head, PlainRelease, ComplexRelease, record, Valid, oid, nid
<1>2. x \in held
  BY Zenon DEF IInv, ModeInv, PlainRelease, ComplexRelease, record
<1>3. /\ \E p : desc' = [desc EXCEPT ![x].next = p]
      /\ ddesc' \in {ddesc, [ddesc EXCEPT ![x] = desc'[x]]}
  BY Zenon DEF PlainRelease, ComplexRelease, record, durable
<1>4. InUse' = InUse
  BY <1>1, <1>3, LinkStores, TypesKept, SMTT(30) DEF IInv, TypeOK
<1>5. ASSUME NEW e \in Free
      PROVE  desc'[e].next = desc[e].next /\ ddesc'[e].next = ddesc[e].next
  <2>1. e \in Extent /\ e # x
    BY <1>2, FreeIs, Zenon
  <2> QED BY <1>3, <2>1, LinksKept DEF IInv, TypeOK
<1> QED BY <1>1, <1>4, <1>5, FreeKept, Zenon

(* The fence of a medium release, and the steps that change the type of a  *)
(* free extent.                                                            *)
LEMMA FreeTypes ==
    ASSUME IInv, FreeListInv, ReleaseFence \/ Destruct \/ ResumeHead
    PROVE  FreeListInv'
<1>1. CASE ReleaseFence
  <2>1. Valid' = Valid /\ desc' = desc /\ InUse' = InUse
    BY <1>1, ReleaseFenceQuiet, Zenon DEF ReleaseFence, cached, Valid, oid, Quiet
  <2>2. \A e \in Extent : ddesc'[e] \in {ddesc[e], desc[e]}
    BY <1>1, Zenon DEF IInv, TypeOK, ReleaseFence
  <2> QED BY <2>1, <2>2, FreeIs, FreeKept, Zenon
<1>2. CASE Destruct
  <2>1. Valid' = Valid /\ op.ext = Valid.ext_free /\ op.ext \in Extent
    <3>1. Valid' = Valid /\ op.ext = Valid.ext_free /\ op.ext \in 0 .. Valid.ext_used - 1
      BY <1>2, Zenon DEF IInv, ReleaseInv, Releasing, Destruct, Valid, oid
    <3> QED BY <3>1, Slots, TotalAssumption DEF IInv, Extent
  <2>2. \A e \in Extent : e # op.ext => desc'[e] = desc[e]
    BY <1>2, <2>1, Zenon DEF IInv, TypeOK, Destruct
  <2>3. InUse' = InUse
    <3>1. 0 .. Valid.ext_used - 1 \subseteq Extent
      BY Slots, TotalAssumption DEF IInv, Extent
    <3> QED BY <2>1, <2>2, <3>1, InUseIs, Zenon
  <2>4. \A e \in Extent : desc'[e].next = desc[e].next
    BY <1>2, <2>1, LinksKept, SMTT(30) DEF IInv, TypeOK, Destruct
  <2>5. \A e \in Extent : ddesc'[e] \in {ddesc[e], desc'[e]}
    BY <1>2, Zenon DEF IInv, TypeOK, Destruct
  <2> QED BY <2>1, <2>3, <2>4, <2>5, FreeIs, FreeKept, Zenon
<1>3. CASE ResumeHead
  <2>1. Valid' = Valid /\ ddesc' = ddesc /\ InUse' = InUse
    BY <1>3, ResumeHeadQuiet, Zenon DEF IInv, TypeOK, Head, ResumeHead, durable, Valid, oid, Quiet
  <2>2. \A e \in Extent : desc'[e].next = desc[e].next
    <3>1. Valid.ext_free = Null \/ Valid.ext_free \in Extent
      BY Slots, Zenon DEF IInv, Pointer
    <3> QED BY <1>3, <3>1, LinksKept DEF IInv, TypeOK, ResumeHead
  <2> QED BY <2>1, <2>2, FreeIs, FreeKept, Zenon
<1> QED BY <1>1, <1>2, <1>3, Zenon

(* A reboot cut short leaves the durable copies, but for stat_. *)
LEMMA TornKeeps ==
    ASSUME IInv, RebootTorn
    PROVE  Valid' = Valid /\ desc' = ddesc /\ ddesc' = ddesc /\ InUse' = InUse
<1>1. head'.mind = head.mind /\ head.mind = dhead.mind
  BY Zenon DEF IInv, TypeOK, Head, HeadSync, RebootTorn
<1>2. InUse' = Allocated(dhead, dmeta, ddesc)
  BY <1>1, Zenon DEF InUse, Allocated, RebootTorn
<1> QED BY <1>1, <1>2, DurableInUse, Zenon DEF IInv, HeadSync, RebootTorn, Valid, oid

(* Close, open and the ends of reboot and resume, which write links back   *)
(* and change none; the loops, which clear links of recorded extents; the  *)
(* cache, and a crash, after which the program sees the durable links.     *)
LEMMA FreeRest ==
    ASSUME IInv, FreeListInv, OccupiedInv,
           \/ CloseBegin \/ ShutdownFlush \/ ShutdownCommit \/ Open \/ RebootFinish \/ ResumeFinish
           \/ RebootLoop \/ ResumeLoop \/ Evict \/ Crash \/ RebootTorn \/ UNCHANGED vars
    PROVE  FreeListInv'
<1>1. CASE CloseBegin \/ ShutdownFlush \/ ShutdownCommit \/ Open \/ RebootFinish \/ ResumeFinish
           \/ UNCHANGED vars
  <2>1. Valid' = Valid /\ desc' = desc /\ ddesc' \in {ddesc, desc}
    BY <1>1, Zenon DEF IInv, TypeOK, Head, CloseBegin, ShutdownFlush, ShutdownCommit, Open,
       RebootFinish, ResumeFinish, vars, cached, durable, Valid, oid
  <2>2. InUse' = InUse
    BY <2>1, LinkStores, Zenon
  <2> QED BY <2>1, <2>2, FreeKept, Zenon
<1>2. CASE RebootLoop \/ ResumeLoop
  <2>1. Valid' = Valid /\ ddesc' = ddesc /\ InUse' = InUse
    BY <1>2, LoopQuiet, Zenon DEF RebootLoop, ResumeLoop, Unlink, durable, Valid, oid, Quiet
  <2>2. cur # Null /\ desc' = [desc EXCEPT ![cur].next = Null]
    BY <1>2, Zenon DEF RebootLoop, ResumeLoop, Unlink
  <2>3. cur \in held
    <3>1. mode \in {"reboot", "resume"}
      BY <1>2, Zenon DEF RebootLoop, ResumeLoop
    <3> QED BY <2>2, <3>1, Zenon DEF OccupiedInv
  <2>4. ASSUME NEW e \in Free PROVE desc'[e].next = desc[e].next
    <3>1. e \in Extent /\ cur \in Extent /\ e # cur
      BY <2>3, FreeIs, Zenon DEF IInv, TypeOK
    <3> QED BY <2>2, <3>1, LinksKept, SMTT(30) DEF IInv, TypeOK
  <2> QED BY <2>1, <2>4, FreeKept, Zenon
<1>3. CASE Evict
  <2>1. Valid' = Valid /\ desc' = desc /\ InUse' = InUse
    BY <1>3, EvictQuiet, Zenon DEF Evict, cached, Valid, oid, Quiet
  <2>2. \A e \in Extent : ddesc'[e] \in {ddesc[e], desc[e]}
    BY <1>3, Zenon DEF IInv, TypeOK, Evict
  <2> QED BY <2>1, <2>2, FreeIs, FreeKept, Zenon
<1>4. CASE Crash
  <2>1. Valid' = Valid /\ desc' = ddesc /\ ddesc' = ddesc
    BY <1>4, Zenon DEF IInv, HeadSync, Crash, durable, Valid, oid
  <2>2. InUse' = InUse
    BY <1>4, DurableInUse, Zenon DEF Crash, InUse
  <2> QED BY <2>1, <2>2, FreeKept, Zenon DEF FreeListInv
<1>5. CASE RebootTorn
  <2>1. Valid' = Valid /\ desc' = ddesc /\ ddesc' = ddesc /\ InUse' = InUse
    BY <1>5, TornKeeps, Zenon
  <2> QED BY <2>1, FreeKept, Zenon DEF FreeListInv
<1> QED BY <1>1, <1>2, <1>3, <1>4, <1>5, Zenon

-----------------------------------------------------------------------------
(***************************************************************************)
(* The occupied_ list.                                                     *)
(***************************************************************************)

(* Stores to the head line, field by field. *)
LEMMA HeadFields ==
    ASSUME NEW h \in Head
    PROVE  /\ \A i : [h EXCEPT !.mind = i].occupied = h.occupied
                     /\ [h EXCEPT !.mind = i].stat = h.stat
           /\ \A p : [h EXCEPT !.occupied = p].occupied = p
                     /\ [h EXCEPT !.occupied = p].stat = h.stat
           /\ [h EXCEPT !.stat = "kConsistent"].occupied = h.occupied
           /\ [h EXCEPT !.stat = "kConsistent"].stat = "kConsistent"
           /\ [h EXCEPT !.stat = "kVolatile"].occupied = h.occupied
           /\ [h EXCEPT !.stat = "kVolatile", !.occupied = Null].occupied = Null
           /\ [h EXCEPT !.stat = "kVolatile", !.occupied = Null].stat = "kVolatile"
  BY Zenon DEF Head

(* In an open pool the list is empty. *)
LEMMA OccupiedEmpty ==
    ASSUME mode' = "open", op'.pc \notin {"shutdown", "resumed"},
           head'.occupied = Null, dhead'.occupied = Null, cur' = Null, loaded' = {}
    PROVE  OccupiedInv'
  BY Zenon DEF OccupiedInv

(* Outside of a close the recorded extents are half; nothing leads out of it. *)
LEMMA OccupiedDown ==
    ASSUME mode' \in {"down", "reboot", "resume"}, op'.pc # "shutdown",
           op'.pc = "resumed" => head'.occupied = Null,
           half' \subseteq held', {head'.occupied, dhead'.occupied, cur'} \subseteq half' \union {Null},
           \A e \in half' : desc'[e].next \in half' \union {Null},
           \A e \in half' : ddesc'[e].next \in half' \union {Null},
           mode' \in {"down", "resume"} => loaded' = {}
    PROVE  OccupiedInv'
<1>1. Recorded' = half'
  BY DEF Recorded
<1> QED BY <1>1, Zenon DEF OccupiedInv

(* What OccupiedInv says of a pool that is not open and not closing. *)
LEMMA OccupiedFacts ==
    ASSUME OccupiedInv, mode \in {"down", "reboot", "resume"}
    PROVE  /\ half \subseteq held /\ {head.occupied, dhead.occupied, cur} \subseteq half \union {Null}
           /\ \A e \in half : desc[e].next \in half \union {Null}
           /\ \A e \in half : ddesc[e].next \in half \union {Null}
           /\ mode \in {"down", "resume"} => loaded = {}
<1>1. Recorded = half
  BY DEF Recorded
<1> QED BY <1>1 DEF OccupiedInv

(* The steps of an acquire, and those of a release in an open pool. *)
LEMMA OccupiedOpen ==
    ASSUME IInv, OccupiedInv, mode = "open", mode' = mode, op'.pc \notin {"shutdown", "resumed"},
           head'.occupied = head.occupied, head'.stat = head.stat,
           dhead'.occupied \in {dhead.occupied, head.occupied}, cur' = cur, loaded' = loaded
    PROVE  OccupiedInv'
  BY OccupiedEmpty, Zenon DEF OccupiedInv

(* A step of a release while the pool is being closed. *)
LEMMA OccupiedRelease ==
    ASSUME IInv, OccupiedInv, mode = "closing", mode' = mode, op.pc # "shutdown",
           op'.pc \notin {"shutdown", "resumed"},
           head'.occupied = head.occupied, head'.stat = head.stat,
           dhead'.occupied \in {dhead.occupied, head.occupied}, cur' = cur, loaded' = loaded,
           half' = half, half \subseteq held',
           \A e \in half : desc'[e].next = desc[e].next
    PROVE  OccupiedInv'
<1>1. Recorded' = loaded /\ Recorded = loaded
  BY DEF Recorded
<1> QED BY <1>1, Zenon DEF OccupiedInv

(* The steps of acquire and release. *)
Calls ==
    \/ \E t \in Requests : Acquire(t)
    \/ Construct \/ PlainCommit \/ ComplexCommit \/ ComplexFlip
    \/ \E e \in Extent : PlainRelease(e) \/ ComplexRelease(e)
    \/ PlainLink \/ ReleaseFence \/ ReleaseFlip \/ Destruct

(* They leave the list, and what a close recorded, as they are. *)
LEMMA CallsFields ==
    ASSUME IInv, Calls
    PROVE  /\ mode \in {"open", "closing"} /\ mode' = mode
           /\ op.pc # "shutdown" /\ op'.pc \notin {"shutdown", "resumed"}
           /\ head'.occupied = head.occupied /\ head'.stat = head.stat
           /\ dhead'.occupied \in {dhead.occupied, head.occupied}
           /\ cur' = cur /\ loaded' = loaded /\ half' = half
           /\ mode = "closing" =>
                 half \subseteq held' /\ \A e \in half : desc'[e].next = desc[e].next
<1>1. Idle.pc \notin {"shutdown", "resumed"} /\ \A p : [op EXCEPT !.pc = p].pc = p
  BY Zenon DEF IInv, TypeOK, Operation, Idle
<1>4. CASE \E t \in Requests : Acquire(t)
  BY <1>4 DEF Acquire, Running, durable
<1>5. CASE Construct \/ PlainCommit \/ ComplexCommit
  BY <1>1, <1>5, ZenonT(30) DEF IInv, ModeInv, Acquiring, Construct, PlainCommit, ComplexCommit
<1>6. CASE ComplexFlip
  BY <1>1, <1>6, HeadFields, SMTT(30) DEF IInv, TypeOK, ModeInv, Acquiring, ComplexFlip
<1>7. CASE \E e \in Extent : PlainRelease(e) \/ ComplexRelease(e)
  <2>1. PICK x \in Extent : PlainRelease(x) \/ ComplexRelease(x)
    BY <1>7, Zenon
  <2>2. /\ mode \in {"open", "closing"} /\ mode' = mode /\ op.pc = "idle"
        /\ UNCHANGED <<head, dhead, cur, loaded, half>>
        /\ held' = held \ {x} /\ x \notin half /\ \E p : desc' = [desc EXCEPT ![x].next = p]
    BY <2>1, Zenon DEF PlainRelease, ComplexRelease, durable
  <2>3. op'.pc \notin {"shutdown", "resumed"}
    <3>1. PlainRelease(x) => op'.pc = "link"
      BY Zenon DEF PlainRelease, Idle
    <3>2. ComplexRelease(x) => op'.pc = "fence"
      BY Zenon DEF ComplexRelease, Idle
    <3> QED BY <2>1, <3>1, <3>2, Zenon
  <2>4. ASSUME NEW e \in half PROVE desc'[e].next = desc[e].next
    <3>1. e \in Extent /\ e # x
      BY <2>2, Zenon DEF IInv, TypeOK
    <3> QED BY <2>2, <3>1, LinksKept, SMTT(30) DEF IInv, TypeOK
  <2>5. mode = "closing" => half \subseteq held'
    BY <2>2, ZenonT(30) DEF IInv, ModeInv
  <2> QED BY <2>2, <2>3, <2>4, <2>5
<1>8. CASE PlainLink \/ ReleaseFence
  BY <1>1, <1>8, ZenonT(30) DEF IInv, ModeInv, Releasing, PlainLink, ReleaseFence, cached
<1>9. CASE ReleaseFlip
  BY <1>1, <1>9, HeadFields, SMTT(30) DEF IInv, TypeOK, ModeInv, Releasing, ReleaseFlip
<1>10. CASE Destruct
  <2>1. /\ mode \in {"open", "closing"} /\ mode' = mode /\ op' = Idle /\ op.pc = "destruct"
        /\ UNCHANGED <<head, dhead, cur, loaded, half, held>>
        /\ desc' = [desc EXCEPT ![op.ext].type = "kInvalid"]
    BY <1>10, Zenon DEF IInv, ModeInv, Releasing, Destruct
  <2>2. \A e \in Extent : desc'[e].next = desc[e].next
    <3>1. op.ext \in Extent
      <4>1. op.ext \in 0 .. Valid.ext_used - 1
        BY <2>1, Zenon DEF IInv, ReleaseInv, Releasing
      <4> QED BY <4>1, Slots, TotalAssumption, SMTT(30) DEF IInv, Extent
    <3> QED BY <2>1, <3>1, LinksKept, SMTT(30) DEF IInv, TypeOK
  <2> QED BY <1>1, <2>1, <2>2, ZenonT(30) DEF IInv, TypeOK, ModeInv
<1> QED BY <1>4, <1>5, <1>6, <1>7, <1>8, <1>9, <1>10, Zenon DEF Calls

(* They keep the list. *)
LEMMA OccupiedCalls ==
    ASSUME IInv, OccupiedInv, Calls
    PROVE  OccupiedInv'
<1>1. CASE mode = "open"
  BY <1>1, CallsFields, OccupiedOpen, Zenon
<1>2. CASE mode = "closing"
  BY <1>2, CallsFields, OccupiedRelease, Zenon
<1> QED BY <1>1, <1>2, CallsFields, Zenon

(* A close records the half-used extents and flushes. *)
LEMMA OccupiedClose ==
    ASSUME IInv, OccupiedInv,
           CloseBegin \/ (\E e \in Extent : record(e)) \/ ShutdownFlush \/ ShutdownCommit
    PROVE  OccupiedInv'
<1>1. CASE CloseBegin
  BY <1>1, ZenonT(30) DEF IInv, ModeInv, CloseBegin, Running, cached, durable, OccupiedInv, Recorded, Clean
<1>2. CASE \E e \in Extent : record(e)
  <2>1. PICK x \in Extent : record(x)
    BY <1>2, Zenon
  <2>2. /\ mode = "closing" /\ mode' = mode /\ op' = op /\ op.pc = "idle" /\ x \in half
        /\ loaded' = loaded \union {x} /\ UNCHANGED <<dhead, ddesc, cur, half, held>>
    BY <2>1, Zenon DEF record, durable
  <2>3. head'.occupied = x /\ ~ Clean'
    BY <2>1, HeadFields, SMTT(30) DEF IInv, TypeOK, ModeInv, record, Clean
  <2>4. ASSUME NEW e \in loaded' PROVE desc'[e].next \in loaded' \union {Null}
    <3>1. e \in Extent /\ head.occupied \in loaded \union {Null}
      BY <2>2, ZenonT(30) DEF IInv, TypeOK, OccupiedInv, Recorded
    <3>2. CASE e = x
      BY <2>1, <2>2, <3>1, <3>2, LinksKept, SMTT(30) DEF IInv, TypeOK, record
    <3>3. CASE e # x
      <4>1. e \in loaded /\ desc[e].next \in loaded \union {Null}
        BY <2>2, <3>3, Zenon DEF OccupiedInv, Recorded
      <4>2. desc'[e] = desc[e]
        BY <2>1, <3>1, <3>3, LinksKept, SMTT(30) DEF IInv, TypeOK, record
      <4> QED BY <2>2, <4>1, <4>2, Zenon
    <3> QED BY <3>2, <3>3, Zenon
  <2>5. /\ loaded \subseteq half /\ half \subseteq held
        /\ dhead.occupied \in loaded \union {Null}
    BY <2>2, Zenon DEF OccupiedInv, Recorded
  <2> QED BY <2>2, <2>3, <2>4, <2>5, SMTT(30) DEF OccupiedInv, Recorded
<1>3. CASE ShutdownFlush
  <2>1. op'.pc = "shutdown"
    BY <1>3, Zenon DEF IInv, TypeOK, Operation, ShutdownFlush
  <2> QED BY <1>3, <2>1, ZenonT(30) DEF IInv, ModeInv, ShutdownFlush, cached, OccupiedInv, Recorded, Clean
<1>4. CASE ShutdownCommit
  <2>1. head'.occupied = head.occupied /\ dhead' = head' /\ mode' = "down" /\ op' = Idle
    BY <1>4, HeadFields, Zenon DEF IInv, TypeOK, ShutdownCommit
  <2>2. mode = "closing" /\ op.pc = "shutdown" /\ UNCHANGED <<desc, ddesc, held, half, cur>> /\ loaded' = {}
    BY <1>4, ZenonT(30) DEF IInv, ModeInv, ShutdownCommit
  <2>3. loaded = half /\ Recorded = half
    BY <2>2, Zenon DEF OccupiedInv, Recorded
  <2>4. op'.pc = "idle"
    BY <2>1, Zenon DEF Idle
  <2>5. half \subseteq held /\ {head.occupied, cur} \subseteq half \union {Null}
    BY <2>2, <2>3, Zenon DEF OccupiedInv
  <2>6. /\ \A e \in half : desc[e].next \in half \union {Null}
        /\ \A e \in half : ddesc[e].next \in half \union {Null}
    BY <2>2, <2>3, Zenon DEF OccupiedInv
  <2> QED BY <2>1, <2>2, <2>4, <2>5, <2>6, OccupiedDown, Zenon
<1> QED BY <1>1, <1>2, <1>3, <1>4, Zenon

(* Opening a pool, reading the list and clearing it. *)
LEMMA OccupiedRestart ==
    ASSUME IInv, OccupiedInv,
           Open \/ RebootLoop \/ RebootFinish \/ ResumeLoop \/ ResumeHead \/ ResumeFinish
    PROVE  OccupiedInv'
<1>0. (op.pc = "shutdown" => mode = "closing") /\ (op.pc = "resumed" => mode = "resume")
  BY Zenon DEF IInv, ModeInv
<1>1. CASE Open
  <2>1. /\ mode = "down" /\ mode' \in {"reboot", "resume"} /\ cur' = head.occupied
        /\ UNCHANGED <<head, dhead, desc, ddesc, op, loaded, held, half>>
    BY <1>1, Zenon DEF Open, cached, durable
  <2> QED BY <1>0, <2>1, OccupiedFacts, OccupiedDown, Zenon
<1>2. CASE RebootLoop \/ ResumeLoop
  <2>1. /\ mode \in {"reboot", "resume"} /\ mode' = mode /\ cur # Null /\ op.pc # "resumed"
        /\ cur' = desc[cur].next /\ desc' = [desc EXCEPT ![cur].next = Null]
        /\ UNCHANGED <<head, dhead, ddesc, op, held, half>> /\ (mode = "resume" => loaded' = loaded)
    BY <1>2, Zenon DEF IInv, ModeInv, RebootLoop, ResumeLoop, Unlink, durable
  <2>2. cur \in half /\ cur' \in half \union {Null}
    BY <2>1, OccupiedFacts, Zenon
  <2>3. ASSUME NEW e \in half PROVE desc'[e].next \in half \union {Null}
    <3>1. desc[e].next \in half \union {Null} /\ e \in Extent /\ cur \in Extent
      BY <2>1, <2>2, OccupiedFacts, Zenon DEF IInv, TypeOK
    <3>2. desc'[e].next \in {desc[e].next, Null}
      BY <2>1, <3>1, LinksKept, SMTT(30) DEF IInv, TypeOK
    <3> QED BY <3>1, <3>2, Zenon
  <2>4. op'.pc \notin {"shutdown", "resumed"}
    BY <1>0, <2>1, Zenon
  <2> QED BY <2>1, <2>2, <2>3, <2>4, OccupiedFacts, OccupiedDown, ZenonT(30)
<1>3. CASE RebootFinish
  <2>1. head'.occupied = Null /\ dhead' = head'
    BY <1>3, HeadFields, SMTT(30) DEF IInv, TypeOK, RebootFinish
  <2>2. mode = "reboot" /\ mode' = "open" /\ op' = op /\ cur' = Null /\ loaded' = {}
    BY <1>3, Zenon DEF RebootFinish
  <2> QED BY <1>0, <2>1, <2>2, OccupiedEmpty, Zenon
<1>5. CASE ResumeHead
  <2>1. head'.occupied = Null
    BY <1>5, HeadFields, SMTT(30) DEF IInv, TypeOK, ResumeHead
  <2>2. /\ mode = "resume" /\ mode' = mode /\ op'.pc = "resumed"
        /\ UNCHANGED <<dhead, ddesc, cur, loaded, held, half>>
    BY <1>5, ZenonT(30) DEF IInv, TypeOK, Operation, ResumeHead, durable
  <2>3. \A e \in Extent : desc'[e].next = desc[e].next
    <3>1. CASE Valid.ext_free = Null
      BY <1>5, <3>1, Zenon DEF ResumeHead
    <3>2. CASE Valid.ext_free # Null
      <4>1. Valid.ext_free \in Extent
        BY <3>2, Slots, Zenon DEF IInv, Pointer
      <4> QED BY <1>5, <3>2, <4>1, LinksKept, SMTT(30) DEF IInv, TypeOK, ResumeHead
    <3> QED BY <3>1, <3>2, Zenon
  <2>4. half \subseteq Extent
    BY Zenon DEF IInv, TypeOK
  <2>5. \A e \in half : desc'[e].next \in half \union {Null}
    BY <2>2, <2>3, <2>4, OccupiedFacts, Zenon
  <2> QED BY <2>1, <2>2, <2>5, OccupiedFacts, OccupiedDown, ZenonT(30)
<1>6. CASE ResumeFinish
  <2>1. /\ mode = "resume" /\ op.pc = "resumed" /\ cur = Null /\ mode' = "open" /\ op' = Idle
        /\ head' = head /\ dhead' = head /\ cur' = cur /\ loaded' = loaded
    BY <1>6, ZenonT(30) DEF IInv, ModeInv, ResumeFinish, cached
  <2>2. op'.pc = "idle"
    BY <2>1, Zenon DEF Idle
  <2>3. head.occupied = Null /\ loaded = {}
    BY <2>1, Zenon DEF OccupiedInv
  <2> QED BY <2>1, <2>2, <2>3, OccupiedEmpty, Zenon
<1> QED BY <1>1, <1>2, <1>3, <1>5, <1>6, Zenon

(* The cache writes a line back, or power fails when no close is running. *)
LEMMA OccupiedCrash ==
    ASSUME IInv, OccupiedInv,
           Evict \/ UNCHANGED vars \/ (Crash /\ mode # "closing") \/ RebootTorn
    PROVE  OccupiedInv'
<1>1. CASE Evict \/ UNCHANGED vars
  <2>1. /\ UNCHANGED <<head, desc, mode, op, cur, loaded, held, half>>
        /\ dhead' \in {dhead, head} /\ \A e \in Extent : ddesc'[e] \in {ddesc[e], desc[e]}
    BY <1>1, Zenon DEF IInv, TypeOK, Evict, vars, cached, durable
  <2>2. Recorded' = Recorded /\ Recorded \subseteq Extent
    BY <2>1, Zenon DEF Recorded, IInv, TypeOK
  <2>3. /\ dhead'.occupied \in {dhead.occupied, head.occupied}
        /\ \A e \in Recorded : ddesc'[e].next \in {ddesc[e].next, desc[e].next}
    BY <2>1, <2>2, Zenon
  <2>4. op.pc = "shutdown" => mode = "closing"
    BY Zenon DEF IInv, ModeInv
  <2> QED BY <2>1, <2>2, <2>3, <2>4 DEF OccupiedInv
<1>2. CASE Crash /\ mode # "closing"
  <2>1. /\ head' = dhead /\ desc' = ddesc /\ mode' = "down" /\ op' = Idle /\ cur' = Null
        /\ loaded' = {} /\ UNCHANGED <<dhead, ddesc, held, half>>
    BY <1>2, Zenon DEF Crash, durable
  <2>2. op'.pc = "idle"
    BY <2>1, Zenon DEF Idle
  <2>3. CASE mode = "open"
    <3>1. half = {} /\ dhead.occupied = Null
      BY <2>3, Zenon DEF OccupiedInv, IInv, ModeInv
    <3> QED BY <2>1, <2>2, <3>1, OccupiedDown, ZenonT(30)
  <2>4. CASE mode \in {"down", "reboot", "resume"}
    BY <2>1, <2>2, <2>4, OccupiedFacts, OccupiedDown, ZenonT(30)
  <2> QED BY <1>2, <2>3, <2>4, Zenon DEF IInv, TypeOK
<1>3. CASE RebootTorn
  <2>1. /\ mode = "reboot" /\ desc' = ddesc /\ mode' = "down" /\ op' = Idle /\ dhead' = head'
        /\ loaded' = {} /\ UNCHANGED <<cur, ddesc, held, half>>
    BY <1>3, Zenon DEF RebootTorn
  <2>2. op'.pc = "idle"
    BY <2>1, Zenon DEF Idle
  <2>3. head'.occupied = head.occupied
    BY <1>3, HeadFields, Zenon DEF IInv, TypeOK, RebootTorn
  <2> QED BY <2>1, <2>2, <2>3, OccupiedFacts, OccupiedDown, ZenonT(30)
<1> QED BY <1>1, <1>2, <1>3, Zenon

(* With no power failure inside of a close, every step keeps both lists. *)
LEMMA ListsStep ==
    ASSUME "closing" \notin CrashModes, IInv, FreeListInv, OccupiedInv, [Next]_vars
    PROVE  FreeListInv' /\ OccupiedInv'
<1>1. CASE Calls
  BY <1>1, FreeAcquire, FreeCommit, FreeRelease, FreeTypes, OccupiedCalls, Zenon DEF Calls
<1>2. CASE CloseBegin \/ (\E e \in Extent : record(e)) \/ ShutdownFlush \/ ShutdownCommit
  BY <1>2, FreeRelease, FreeRest, OccupiedClose, Zenon
<1>3. CASE Open \/ RebootLoop \/ RebootFinish \/ ResumeLoop \/ ResumeHead \/ ResumeFinish
  BY <1>3, FreeRest, FreeTypes, OccupiedRestart, Zenon
<1>4. CASE Evict \/ UNCHANGED vars
  BY <1>4, FreeRest, OccupiedCrash, Zenon
<1>5. CASE Crash
  BY <1>5, FreeRest, OccupiedCrash, Zenon DEF Crash
<1>6. CASE RebootTorn
  BY <1>6, FreeRest, OccupiedCrash, Zenon
<1> QED BY <1>1, <1>2, <1>3, <1>4, <1>5, <1>6, Zenon DEF Next, Calls

(* A new pool has no free extent and has recorded none. *)
LEMMA ListsInit == Init => FreeListInv /\ OccupiedInv
<1> SUFFICES ASSUME Init PROVE FreeListInv /\ OccupiedInv
  BY Zenon
<1>1. Valid.ext_used = 0 /\ Valid.ext_free = Null
  BY Zenon DEF Init, Valid, oid
<1>2. Free = {}
  BY <1>1 DEF Free
<1>3. FreeListInv
  BY <1>1, <1>2, Zenon DEF FreeListInv, LinkedList
<1>4. OccupiedInv
  BY DEF Init, OccupiedInv, Clean, Idle
<1> QED BY <1>3, <1>4, Zenon

-----------------------------------------------------------------------------
(***************************************************************************)
(* What a reboot reads.                                                    *)
(***************************************************************************)

(* A list is a list of the same links in the next state. *)
LEMMA LinksSame ==
    ASSUME NEW first, NEW F, F \subseteq Extent, LinkedList(first, F, Links(desc)),
           \A e \in F : desc'[e].next = desc[e].next
    PROVE  LinkedList(first, F, Links(desc'))
<1>1. \A e \in F : Links(desc')[e] = Links(desc)[e]
  BY LinksIs, Zenon
<1> QED BY <1>1, ListSame, Zenon

(* The steps of acquire and release. *)
LEMMA RecordedCalls ==
    ASSUME IInv, RecordedInv, Calls
    PROVE  RecordedInv'
<1>1. CASE mode = "open"
  BY <1>1, CallsFields, ZenonT(30) DEF RecordedInv
<1>2. CASE mode = "closing"
  <2>1. /\ mode' = "closing" /\ op'.pc # "shutdown" /\ head'.occupied = head.occupied
        /\ loaded' = loaded /\ half' = half /\ loaded \subseteq half
        /\ \A e \in loaded : desc'[e].next = desc[e].next
    BY <1>2, CallsFields, Zenon DEF RecordedInv
  <2>2. loaded \subseteq Extent
    BY Zenon DEF IInv, TypeOK
  <2>3. LinkedList(head.occupied, loaded, Links(desc'))
    BY <1>2, <2>1, <2>2, LinksSame, ZenonT(30) DEF RecordedInv
  <2> QED BY <2>1, <2>3 DEF RecordedInv
<1> QED BY <1>1, <1>2, CallsFields, Zenon

(* A close. *)
LEMMA RecordedClose ==
    ASSUME IInv, RecordedInv,
           CloseBegin \/ (\E e \in Extent : record(e)) \/ ShutdownFlush \/ ShutdownCommit
    PROVE  RecordedInv'
<1>1. CASE CloseBegin
  <2>1. /\ mode' = "closing" /\ op' = op /\ op.pc = "idle" /\ loaded' = {}
        /\ head'.occupied = Null
    BY <1>1, Zenon DEF CloseBegin, Running, cached, RecordedInv
  <2>2. LinkedList(Null, {}, Links(desc'))
    BY Zenon DEF LinkedList
  <2> QED BY <2>1, <2>2 DEF RecordedInv
<1>2. CASE \E e \in Extent : record(e)
  <2>1. PICK x \in Extent : record(x)
    BY <1>2, Zenon
  <2>2. /\ mode = "closing" /\ mode' = mode /\ op' = op /\ op.pc = "idle"
        /\ x \in half /\ x \notin loaded /\ half' = half /\ loaded' = loaded \union {x}
    BY <2>1, Zenon DEF record
  <2>3. head'.occupied = x
    BY <2>1, HeadFields, SMTT(30) DEF IInv, TypeOK, record
  <2>4. loaded \subseteq Extent /\ loaded \subseteq half
    BY <2>2, Zenon DEF IInv, TypeOK, RecordedInv
  <2>5. desc'[x].next = head.occupied /\ \A e \in loaded : desc'[e].next = desc[e].next
    BY <2>1, <2>2, <2>4, LinksKept, SMTT(30) DEF IInv, TypeOK, record
  <2>6. Links(desc')[x] = head.occupied /\ \A e \in loaded : Links(desc')[e] = Links(desc)[e]
    BY <2>4, <2>5, LinksIs, Zenon
  <2>7. LinkedList(x, loaded \union {x}, Links(desc'))
    BY <2>2, <2>6, ListPush, Zenon DEF RecordedInv
  <2> QED BY <2>2, <2>3, <2>4, <2>7 DEF RecordedInv
<1>3. CASE ShutdownFlush
  BY <1>3, Zenon DEF ShutdownFlush, cached, RecordedInv
<1>4. CASE ShutdownCommit
  <2>1. /\ mode = "closing" /\ mode' = "down" /\ op' = Idle /\ loaded = half /\ loaded' = {}
        /\ dhead' = head' /\ desc' = desc /\ half' = half
    BY <1>4, Zenon DEF IInv, ModeInv, ShutdownCommit, RecordedInv
  <2>2. head'.occupied = head.occupied
    BY <1>4, HeadFields, SMTT(30) DEF IInv, TypeOK, ShutdownCommit
  <2>3. op'.pc # "shutdown"
    BY <2>1 DEF Idle
  <2>4. LinkedList(head'.occupied, half', Links(desc'))
    BY <2>1, <2>2, Zenon DEF RecordedInv
  <2> QED BY <2>1, <2>3, <2>4 DEF RecordedInv
<1> QED BY <1>1, <1>2, <1>3, <1>4, Zenon

(* Opening a pool: every iteration of a reboot takes the first extent off. *)
LEMMA RecordedRestart ==
    ASSUME IInv, RecordedInv,
           Open \/ RebootLoop \/ RebootFinish \/ ResumeLoop \/ ResumeHead \/ ResumeFinish
    PROVE  RecordedInv'
<1>0. (op.pc = "shutdown" => mode = "closing") /\ (op.pc = "resumed" => mode = "resume")
  BY Zenon DEF IInv, ModeInv
<1>1. CASE Open
  <2>1. /\ mode = "down" /\ loaded = {} /\ loaded' = {} /\ half' = half /\ desc' = desc
        /\ op' = op /\ cur' = head.occupied
        /\ mode' = IF Clean THEN "reboot" ELSE "resume"
    BY <1>1, Zenon DEF Open, cached, RecordedInv, Clean
  <2>2. Clean => LinkedList(cur', half' \ loaded', Links(desc'))
    <3>1. half \ {} = half
      BY Zenon
    <3> QED BY <2>1, <3>1, Zenon DEF RecordedInv
  <2> QED BY <1>0, <2>1, <2>2 DEF RecordedInv
<1>2. CASE RebootLoop
  <2>1. /\ mode = "reboot" /\ mode' = mode /\ cur # Null /\ op' = op /\ half' = half
        /\ cur' = desc[cur].next /\ desc' = [desc EXCEPT ![cur].next = Null]
        /\ loaded' = loaded \union {cur}
    BY <1>2, Zenon DEF RebootLoop, Unlink
  <2> DEFINE rest == half \ loaded
  <2>2. loaded \subseteq half /\ LinkedList(cur, rest, Links(desc))
    BY <2>1, Zenon DEF RecordedInv
  <2>3. cur \in rest /\ rest \subseteq Extent
    BY <2>1, <2>2, Zenon DEF LinkedList
  <2>4. LinkedList(Links(desc)[cur], rest \ {cur}, Links(desc))
    BY <2>1, <2>2, ListPop, Zenon
  <2>5. Links(desc)[cur] = cur'
    BY <2>1, <2>3, LinksIs, Zenon
  <2>6. \A e \in rest \ {cur} : desc'[e].next = desc[e].next
    BY <2>1, <2>3, LinksKept, SMTT(30) DEF IInv, TypeOK
  <2>7. LinkedList(cur', rest \ {cur}, Links(desc'))
    BY <2>3, <2>4, <2>5, <2>6, LinksSame, Zenon
  <2>8. rest \ {cur} = half' \ loaded'
    BY <2>1, Zenon
  <2>9. LinkedList(cur', half' \ loaded', Links(desc'))
    BY <2>7, <2>8, Zenon
  <2>10. loaded' \subseteq half'
    BY <2>1, <2>2, <2>3, Zenon
  <2> QED BY <1>0, <2>1, <2>9, <2>10 DEF RecordedInv
<1>3. CASE RebootFinish
  <2>1. head'.occupied = Null
    BY <1>3, HeadFields, SMTT(30) DEF IInv, TypeOK, RebootFinish
  <2> QED BY <1>0, <1>3, <2>1, SMTT(30) DEF RebootFinish, RecordedInv
<1>4. CASE ResumeLoop
  BY <1>0, <1>4, Zenon DEF ResumeLoop, Unlink, RecordedInv
<1>5. CASE ResumeHead
  <2>1. op'.pc = "resumed"
    BY <1>5, Zenon DEF IInv, TypeOK, Operation, ResumeHead
  <2>2. head'.occupied = Null
    BY <1>5, HeadFields, SMTT(30) DEF IInv, TypeOK, ResumeHead
  <2> QED BY <1>5, <2>1, <2>2, SMTT(30) DEF ResumeHead, RecordedInv
<1>6. CASE ResumeFinish
  <2>1. mode = "resume" /\ op'.pc # "shutdown" /\ head'.occupied = Null
    BY <1>6, Zenon DEF IInv, ModeInv, ResumeFinish, cached, Idle, RecordedInv
  <2> QED BY <1>6, <2>1 DEF ResumeFinish, RecordedInv
<1> QED BY <1>1, <1>2, <1>3, <1>4, <1>5, <1>6, Zenon

(* The cache writes a line back, or power fails: after a complete close    *)
(* every line of the list is durable.                                      *)
LEMMA RecordedCrash ==
    ASSUME IInv, RecordedInv, Evict \/ UNCHANGED vars \/ (Crash /\ mode # "reboot")
    PROVE  RecordedInv'
<1>1. CASE Evict \/ UNCHANGED vars
  <2>1. /\ UNCHANGED <<head, desc, mode, op, cur, loaded, half>>
        /\ dhead' \in {dhead, head}
    BY <1>1, Zenon DEF Evict, vars, cached, durable
  <2>2. Clean' = Clean
    BY <2>1, Zenon DEF Clean
  <2> QED BY <2>1, <2>2, Zenon DEF RecordedInv
<1>2. CASE Crash /\ mode # "reboot"
  <2>1. /\ head' = dhead /\ dhead' = dhead /\ desc' = ddesc /\ mode' = "down" /\ op' = Idle
        /\ loaded' = {} /\ half' = half
    BY <1>2, Zenon DEF Crash, durable
  <2>2. op'.pc # "shutdown"
    BY <2>1 DEF Idle
  <2>3. ASSUME Clean' PROVE LinkedList(head'.occupied, half', Links(desc'))
    <3>1. mode = "down" /\ Clean
      BY <1>2, <2>1, <2>3, ZenonT(30) DEF IInv, TypeOK, HeadSync, ModeInv, Clean
    <3>2. \A e \in Extent : desc'[e].next = desc[e].next
      BY <2>1, <3>1, ZenonT(30) DEF IInv, DescSync, ModeInv, Acquiring, Releasing
    <3>3. half \subseteq Extent
      BY Zenon DEF IInv, TypeOK
    <3>4. LinkedList(head.occupied, half, Links(desc')) /\ dhead = head
      BY <3>1, <3>2, <3>3, LinksSame, Zenon DEF RecordedInv
    <3> QED BY <2>1, <3>4, ZenonT(30)
  <2> QED BY <2>1, <2>2, <2>3 DEF RecordedInv
<1> QED BY <1>1, <1>2, Zenon

-----------------------------------------------------------------------------
(***************************************************************************)
(* MediumMeta blocks.                                                      *)
(***************************************************************************)

(* The medium extents in use are extents, and both copies agree on them. *)
LEMMA MediumIs ==
    ASSUME IInv
    PROVE  /\ \A e : e \in Medium <=> e \in InUse /\ desc[e].type = "medium"
           /\ \A e : e \in Medium' <=> e \in InUse' /\ desc'[e].type = "medium"
           /\ InUse \subseteq Extent
           /\ \A e \in InUse : desc[e].type = ddesc[e].type
           /\ Acquiring => op.ext \notin InUse
<1>1. InUse \subseteq Extent
  <2>1. 0 .. Valid.ext_used - 1 \subseteq Extent
    BY Slots, TotalAssumption DEF IInv, Extent
  <2> QED BY <2>1, InUseIs, ZenonT(30)
<1>2. Acquiring => op.ext \notin InUse
  <2>1. Valid.ext_used \notin 0 .. Valid.ext_used - 1
    BY Slots DEF IInv
  <2> QED BY <2>1, InUseIs, ZenonT(30) DEF IInv, AcquireInv
<1>3. ASSUME NEW e \in InUse PROVE desc[e].type = ddesc[e].type
  BY <1>1, <1>2, InUseIs, ZenonT(30) DEF IInv, DescSync, Acquiring
<1> QED BY <1>1, <1>2, <1>3, Zenon DEF Medium

(* Steps that leave the extents in use and their types. *)
LEMMA MediumSame ==
    ASSUME InUse' = InUse, \A e \in InUse : desc'[e].type = desc[e].type
    PROVE  Medium' = Medium
<1>1. ASSUME NEW e PROVE e \in Medium' <=> e \in Medium
  <2>1. e \in InUse => desc'[e].type = desc[e].type
    BY Zenon
  <2> QED BY <2>1, Zenon DEF Medium
<1> QED BY <1>1, Zenon

(* The blocks that no medium extent has. *)
LEMMA BlocksIs ==
    /\ \A b : b \in FreeBlocks <=>
          b \in 0 .. Valid.med_used - 1 /\ \A e \in Medium : desc[e].runs # b
    /\ \A b : b \in FreeBlocks' <=>
          b \in 0 .. Valid'.med_used - 1 /\ \A e \in Medium' : desc'[e].runs # b
  BY Zenon DEF FreeBlocks

(* Blocks lie in the MedMeta segment. *)
LEMMA BlocksTyped ==
    ASSUME IInv, BlockInv
    PROVE  0 .. Valid.med_used - 1 \subseteq Extent /\ Valid.med_used \in Nat
<1>1. Valid.med_used \in Nat
  BY Slots, Zenon DEF IInv, DescMeta
<1> QED BY <1>1, TotalAssumption DEF BlockInv, Extent

(* A step that takes and returns no block and leaves the links of the free *)
(* ones, or writes them back.                                              *)
LEMMA BlockKept ==
    ASSUME IInv, BlockInv, Medium' = Medium,
           Valid'.med_used = Valid.med_used, Valid'.med_free = Valid.med_free,
           \A e \in Medium : /\ desc'[e].runs = desc[e].runs
                             /\ ddesc'[e].runs \in {ddesc[e].runs, desc[e].runs},
           \A b \in FreeBlocks : med'[b] = med[b] /\ dmed'[b] \in {dmed[b], med[b]}
    PROVE  BlockInv'
<1>1. FreeBlocks' = FreeBlocks
  <2>1. ASSUME NEW b PROVE b \in FreeBlocks' <=> b \in FreeBlocks
    <3>1. (\A e \in Medium' : desc'[e].runs # b) <=> (\A e \in Medium : desc[e].runs # b)
      BY Zenon
    <3> QED BY <3>1, BlocksIs, Zenon
  <2> QED BY <2>1, Zenon
<1>2. LinkedList(Valid.med_free, FreeBlocks, med')
  <2>1. LinkedList(Valid.med_free, FreeBlocks, med) /\ \A b \in FreeBlocks : med'[b] = med[b]
    BY Zenon DEF BlockInv
  <2> QED BY <2>1, ListSame
<1>3. LinkedList(Valid'.med_free, FreeBlocks', med')
  BY <1>1, <1>2, Zenon
<1>4. \A b \in FreeBlocks' : dmed'[b] = med'[b]
  BY <1>1, Zenon DEF BlockInv
<1>5. \A e \in Medium' :
         desc'[e].runs \in 0 .. Valid'.med_used - 1 /\ ddesc'[e].runs = desc'[e].runs
  BY ZenonT(30) DEF BlockInv
<1>6. ASSUME NEW e \in Medium', NEW f \in Medium', desc'[e].runs = desc'[f].runs
      PROVE  e = f
  <2>1. e \in Medium /\ f \in Medium /\ desc[e].runs = desc[f].runs
    BY <1>6, Zenon
  <2> QED BY <2>1, Zenon DEF BlockInv
<1>7. Valid'.med_used <= Total
  BY Zenon DEF BlockInv
<1> QED BY <1>3, <1>4, <1>5, <1>6, <1>7, Zenon DEF BlockInv

(* Stores to a descriptor, by field. *)
LEMMA RunsKept ==
    ASSUME NEW d \in [Extent -> ExtentDesc], NEW x \in Extent, NEW e \in Extent
    PROVE  /\ \A t : [d EXCEPT ![x].type = t][e].runs = d[e].runs
           /\ e # x => \A t : [d EXCEPT ![x].type = t][e] = d[e]
           /\ \A p : [d EXCEPT ![x].next = p][e].runs = d[e].runs
           /\ \A p, b : [d EXCEPT ![x].next = p, ![x].runs = b][x].runs = b
  BY Zenon DEF ExtentDesc

(* The steps of acquire before its commit touch an extent that is not in   *)
(* use.                                                                    *)
LEMMA BlockAcquire ==
    ASSUME IInv, BlockInv, (\E t \in Requests : Acquire(t)) \/ Construct \/ ComplexCommit
    PROVE  BlockInv'
<1>1. CASE \E t \in Requests : Acquire(t)
  <2>1. PICK t \in Requests : Acquire(t)
    BY <1>1, Zenon
  <2>2. Valid' = Valid /\ InUse' = InUse /\ UNCHANGED <<ddesc, med, dmed>>
    BY <2>1, Slots, AcquireQuiet, ZenonT(30) DEF IInv, TypeOK, Acquire, durable, Valid, oid, nid, Quiet
  <2>3. op'.ext \in Extent /\ op'.ext \notin InUse
    <3>1. Valid.ext_free # Null => Valid.ext_free \in Extent /\ Valid.ext_free \notin InUse
      BY Slots, InUseIs, Zenon DEF IInv, Pointer
    <3>2. Valid.ext_used < Total => Valid.ext_used \in Extent /\ Valid.ext_used \notin InUse
      BY Slots, InUseIs, TotalAssumption, SMTT(30) DEF IInv, Extent
    <3> QED BY <2>1, <3>1, <3>2 DEF Acquire
  <2>4. \A e \in InUse : desc'[e] = desc[e]
    BY <2>1, <2>3, RunsKept, MediumIs, SMTT(30) DEF IInv, TypeOK, Acquire
  <2>5. Medium' = Medium
    BY <2>2, <2>4, MediumSame, Zenon
  <2> QED BY <2>2, <2>4, <2>5, MediumIs, BlockKept, Zenon
<1>2. CASE Construct
  <2>1. Valid' = Valid /\ InUse' = InUse /\ Acquiring /\ UNCHANGED <<med, dmed>>
    BY <1>2, ConstructQuiet, Zenon DEF Construct, Valid, oid, Quiet, Acquiring
  <2>2. op.ext \in Extent
    BY <2>1, ZenonT(30) DEF IInv, AcquireInv
  <2>3. /\ desc' = [desc EXCEPT ![op.ext].next = op.next, ![op.ext].runs = op.runs]
        /\ ddesc' \in {ddesc, [ddesc EXCEPT ![op.ext] = desc'[op.ext]]}
    BY <1>2, Zenon DEF Construct
  <2>4. ASSUME NEW e \in InUse PROVE desc'[e] = desc[e] /\ ddesc'[e] = ddesc[e]
    <3>1. e \in Extent /\ e # op.ext
      BY <2>1, MediumIs, Zenon
    <3> QED BY <2>2, <2>3, <3>1, LinksKept, SMTT(30) DEF IInv, TypeOK
  <2>5. Medium' = Medium
    BY <2>1, <2>4, MediumSame, Zenon
  <2> QED BY <2>1, <2>4, <2>5, MediumIs, BlockKept, Zenon
<1>3. CASE ComplexCommit
  <2>1. Valid' = Valid /\ InUse' = InUse /\ UNCHANGED <<med, dmed>>
    BY <1>3, Slots, ComplexCommitQuiet, ZenonT(30) DEF IInv, TypeOK, ComplexCommit, Valid, oid, nid, Quiet
  <2>2. desc' = desc /\ ddesc' = [ddesc EXCEPT ![op.ext] = desc[op.ext]]
    BY <1>3, Zenon DEF ComplexCommit
  <2>3. \A e \in Extent : ddesc'[e] \in {ddesc[e], desc[e]}
    BY <2>2, Zenon DEF IInv, TypeOK
  <2>4. Medium' = Medium
    BY <2>1, <2>2, MediumSame, Zenon
  <2> QED BY <2>1, <2>2, <2>3, <2>4, MediumIs, BlockKept, Zenon
<1> QED BY <1>1, <1>2, <1>3, Zenon

(* The commit of an acquire puts its extent in use. *)
LEMMA InUseGrant ==
    ASSUME IInv, Acquiring, desc' = desc,
           Valid'.ext_used = Granted(Valid).ext_used, Valid'.ext_free = Granted(Valid).ext_free
    PROVE  InUse' = InUse \union {op.ext}
<1>1. op.ext \in Extent /\ desc[op.ext].type # "kInvalid"
  BY Zenon DEF IInv, TypeOK, AcquireInv, Operation, Type
<1>2. CASE op.fresh
  <2>1. /\ op.ext = Valid.ext_used /\ Valid.ext_free = Null
        /\ Valid'.ext_used = Valid.ext_used + 1 /\ Valid'.ext_free = Null
    BY <1>2, Slots, ZenonT(30) DEF IInv, AcquireInv, Granted, DescMeta
  <2>2. op.ext # Null
    BY <1>1, NullAssumption, TotalAssumption DEF Extent
  <2>3. \A e : e \in 0 .. Valid'.ext_used - 1 <=> e \in 0 .. Valid.ext_used - 1 \/ e = op.ext
    BY <2>1, Slots DEF IInv
  <2>4. ASSUME NEW e PROVE e \in InUse' <=> e \in InUse \/ e = op.ext
    BY <1>1, <2>1, <2>2, <2>3, InUseIs, Zenon
  <2> QED BY <2>4, Zenon
<1>3. CASE ~ op.fresh
  <2>1. /\ op.ext = Valid.ext_free /\ Valid'.ext_free = op.next
        /\ Valid'.ext_used = Valid.ext_used /\ op.next = desc[op.ext].next
    BY <1>3, Slots, ZenonT(30) DEF IInv, AcquireInv, Granted, DescMeta
  <2>2. op.ext # Null
    BY <1>1, NullAssumption, TotalAssumption DEF Extent
  <2>3. op.ext \in 0 .. Valid.ext_used - 1
    BY <1>1, <2>1, <2>2, Slots, TotalAssumption, SMTT(30) DEF IInv, FreeInv, Extent, Valid
  <2>4. op.next = Null \/ (desc[op.next].type = "kInvalid" /\ op.next # op.ext)
    BY <2>1, <2>3, ZenonT(30) DEF IInv, FreeInv, IsFree, Valid
  <2>5. \A e \in 0 .. Valid.ext_used - 1 : e # Null
    BY NullAssumption, Slots DEF IInv
  <2>6. ASSUME NEW e PROVE e \in InUse' <=> e \in InUse \/ e = op.ext
    BY <1>1, <2>1, <2>3, <2>4, <2>5, InUseIs, Zenon
  <2> QED BY <2>6, Zenon
<1> QED BY <1>2, <1>3, Zenon

(* plain_reclaim and plain_allocate give the extent a type that is not     *)
(* medium, and leave the blocks of the valid slot alone.                   *)
LEMMA BlockPlainCommit ==
    ASSUME IInv, BlockInv, PlainCommit
    PROVE  BlockInv'
<1>1. /\ op.type # "medium" /\ Acquiring /\ Valid' = Granted(Valid)
      /\ UNCHANGED <<head, desc, ddesc, med, dmed>>
  BY Slots, Zenon DEF IInv, TypeOK, PlainCommit, Acquiring, Valid, oid
<1>2. /\ Valid'.med_used = Valid.med_used /\ Valid'.med_free = Valid.med_free
  BY <1>1, Slots, Zenon DEF IInv, Granted, DescMeta
<1>3. InUse' = InUse \union {op.ext}
  BY <1>1, InUseGrant, Zenon
<1>4. desc[op.ext].type = op.type
  BY <1>1, Zenon DEF IInv, AcquireInv
<1>5. Medium' = Medium
  <2>1. ASSUME NEW e PROVE e \in Medium' <=> e \in Medium
    BY <1>1, <1>3, <1>4, MediumIs, Zenon
  <2> QED BY <2>1, Zenon
<1>6. /\ \A e \in Medium : /\ desc'[e].runs = desc[e].runs
                           /\ ddesc'[e].runs \in {ddesc[e].runs, desc[e].runs}
      /\ \A b \in FreeBlocks : med'[b] = med[b] /\ dmed'[b] \in {dmed[b], med[b]}
  BY <1>1, Zenon
<1> QED BY <1>2, <1>5, <1>6, BlockKept, Zenon

(* The link of a release takes its extent out of use. *)
LEMMA InUseLink ==
    ASSUME IInv, op.pc \in {"link", "unflip"}, desc' = desc,
           Valid'.ext_used = Valid.ext_used, Valid'.ext_free = op.ext
    PROVE  InUse' = InUse \ {op.ext} /\ op.ext \in InUse
<1>1. /\ op.ext \in 0 .. Valid.ext_used - 1 /\ op.ext # Valid.ext_free
      /\ desc[op.ext].type # "kInvalid" /\ mode \in {"open", "closing"}
  BY Zenon DEF IInv, ReleaseInv, ModeInv, Releasing
<1>2. Valid.ext_free = Null \/ desc[Valid.ext_free].type = "kInvalid"
  BY <1>1, Zenon DEF IInv, HeadInvalid, Acquiring
<1>3. \A e \in 0 .. Valid.ext_used - 1 : e # Null
  BY NullAssumption, Slots DEF IInv
<1>4. ASSUME NEW e PROVE e \in InUse' <=> e \in InUse /\ e # op.ext
  BY <1>1, <1>2, <1>3, InUseIs, Zenon
<1> QED BY <1>1, <1>4, InUseIs, Zenon

(* The link of a small or large release. *)
LEMMA BlockPlainLink ==
    ASSUME IInv, BlockInv, SlotInv, PlainLink
    PROVE  BlockInv'
<1>1. /\ op.pc = "link" /\ Valid' = [Valid EXCEPT !.ext_free = op.ext]
      /\ UNCHANGED <<head, desc, ddesc, med, dmed>>
  BY Slots, Zenon DEF IInv, TypeOK, PlainLink, Valid, oid
<1>2. /\ Valid'.med_used = Valid.med_used /\ Valid'.med_free = Valid.med_free
      /\ Valid'.ext_used = Valid.ext_used /\ Valid'.ext_free = op.ext
  BY <1>1, Slots, Zenon DEF IInv, DescMeta
<1>3. InUse' = InUse \ {op.ext}
  BY <1>1, <1>2, InUseLink, Zenon
<1>4. desc[op.ext].type # "medium"
  BY <1>1, Zenon DEF SlotInv
<1>5. Medium' = Medium
  <2>1. ASSUME NEW e PROVE e \in Medium' <=> e \in Medium
    BY <1>1, <1>3, <1>4, MediumIs, Zenon
  <2> QED BY <2>1, Zenon
<1>6. /\ \A e \in Medium : /\ desc'[e].runs = desc[e].runs
                           /\ ddesc'[e].runs \in {ddesc[e].runs, desc[e].runs}
      /\ \A b \in FreeBlocks : med'[b] = med[b] /\ dmed'[b] \in {dmed[b], med[b]}
  BY <1>1, Zenon
<1> QED BY <1>2, <1>5, <1>6, BlockKept, Zenon

(* mind_ is flipped at the end of a medium release: its block goes to the  *)
(* front of med_free.                                                      *)
LEMMA BlockUnflip ==
    ASSUME IInv, BlockInv, SlotInv, ReleaseFlip
    PROVE  BlockInv'
<1>1. /\ Valid' = meta[nid] /\ op.pc = "unflip" /\ UNCHANGED <<desc, ddesc, med, dmed>>
  BY Zenon DEF IInv, TypeOK, Head, ReleaseFlip, Valid, oid, nid
<1>2. Valid'.ext_used = Valid.ext_used /\ Valid'.ext_free = op.ext
  BY <1>1, Zenon DEF IInv, ReleaseInv, Releasing
<1>3. /\ desc[op.ext].type = "medium" /\ op.runs = desc[op.ext].runs
      /\ Valid'.med_used = Valid.med_used /\ Valid'.med_free = op.runs
      /\ med[op.runs] = Valid.med_free /\ dmed[op.runs] = med[op.runs]
  BY <1>1, Zenon DEF SlotInv
<1>4. InUse' = InUse \ {op.ext} /\ op.ext \in InUse
  BY <1>1, <1>2, InUseLink, Zenon
<1>5. op.ext \in Medium /\ \A e : e \in Medium' <=> e \in Medium /\ e # op.ext
  <2>1. ASSUME NEW e PROVE e \in Medium' <=> e \in Medium /\ e # op.ext
    BY <1>1, <1>4, MediumIs, Zenon
  <2> QED BY <1>3, <1>4, <2>1, MediumIs, Zenon
<1>6. /\ op.runs \in 0 .. Valid.med_used - 1 /\ op.runs \in Extent
      /\ \A e \in Medium : desc[e].runs = op.runs => e = op.ext
      /\ op.runs \notin FreeBlocks
  <2>1. op.runs \in 0 .. Valid.med_used - 1
    BY <1>3, <1>5, Zenon DEF BlockInv
  <2>2. \A e \in Medium : desc[e].runs = op.runs => e = op.ext
    <3>1. \A e, f \in Medium : desc[e].runs = desc[f].runs => e = f
      BY Zenon DEF BlockInv
    <3> QED BY <1>3, <1>5, <3>1, Zenon
  <2> QED BY <1>3, <1>5, <2>1, <2>2, BlocksTyped, BlocksIs, Zenon
<1>7. FreeBlocks' = FreeBlocks \union {op.runs}
  <2>1. ASSUME NEW b PROVE b \in FreeBlocks' <=> b \in FreeBlocks \/ b = op.runs
    <3>1. (\A e \in Medium' : desc'[e].runs # b) <=>
             (\A e \in Medium : desc[e].runs # b) \/ b = op.runs
      BY <1>1, <1>3, <1>5, <1>6, Zenon
    <3> QED BY <1>3, <1>6, <3>1, BlocksIs, ZenonT(30)
  <2> QED BY <2>1, Zenon
<1>8. LinkedList(op.runs, FreeBlocks \union {op.runs}, med)
  <2>1. LinkedList(Valid.med_free, FreeBlocks, med)
    BY Zenon DEF BlockInv
  <2> QED BY <1>3, <1>6, <2>1, ListPush
<1>9. LinkedList(Valid'.med_free, FreeBlocks', med')
  BY <1>1, <1>3, <1>7, <1>8, Zenon
<1>10. \A e \in Medium' : desc'[e].runs \in 0 .. Valid'.med_used - 1
                            /\ ddesc'[e].runs = desc'[e].runs
  BY <1>1, <1>3, <1>5, Zenon DEF BlockInv
<1>11. ASSUME NEW e \in Medium', NEW g \in Medium', desc'[e].runs = desc'[g].runs
       PROVE  e = g
  <2>1. desc[e].runs = desc[g].runs /\ e \in Medium /\ g \in Medium
    BY <1>1, <1>5, <1>11, Zenon
  <2> QED BY <2>1, Zenon DEF BlockInv
<1>12. \A b \in FreeBlocks' : dmed'[b] = med'[b]
  BY <1>1, <1>3, <1>7, Zenon DEF BlockInv
<1>13. Valid'.med_used <= Total
  BY <1>3, Zenon DEF BlockInv
<1> QED BY <1>9, <1>10, <1>11, <1>12, <1>13, Zenon DEF BlockInv

(* The other steps of a release, and record: the links of descriptors and  *)
(* of the block of a medium extent.                                        *)
LEMMA BlockRelease ==
    ASSUME IInv, BlockInv, NEW x \in Extent, PlainRelease(x) \/ ComplexRelease(x) \/ record(x)
    PROVE  BlockInv'
<1>1. Valid' = Valid /\ dmed' = dmed
  BY Slots, ZenonT(30) DEF IInv, TypeOK, Head, PlainRelease, ComplexRelease, record, Valid, oid, nid,
     durable
<1>2. /\ \E p : desc' = [desc EXCEPT ![x].next = p]
      /\ ddesc' \in {ddesc, [ddesc EXCEPT ![x] = desc'[x]]}
  BY Zenon DEF PlainRelease, ComplexRelease, record, durable
<1>3. PICK p : desc' = [desc EXCEPT ![x].next = p]
  BY <1>2, Zenon
<1>4. ASSUME NEW e \in Extent
      PROVE  desc'[e].runs = desc[e].runs /\ desc'[e].type = desc[e].type
  BY <1>3, RunsKept, TypesKept, SMTT(30) DEF IInv, TypeOK
<1>5. \A e \in Extent : ddesc'[e] \in {ddesc[e], desc'[e]}
  BY <1>2, Zenon DEF IInv, TypeOK
<1>6. InUse' = InUse
  BY <1>1, <1>4, LinkStores, Zenon
<1>7. Medium' = Medium
  BY <1>4, <1>6, MediumIs, MediumSame, Zenon
<1>8. \A b \in FreeBlocks : med'[b] = med[b]
  <2>1. CASE PlainRelease(x) \/ record(x)
    BY <2>1, Zenon DEF PlainRelease, record
  <2>2. CASE ComplexRelease(x)
    <3>1. x \in Medium /\ med' = [med EXCEPT ![desc[x].runs] = Valid.med_free]
      BY <2>2, MediumIs, Zenon DEF ComplexRelease, IInv, HeldIsAllocated, InUse
    <3>2. FreeBlocks \subseteq Extent /\ desc[x].runs \notin FreeBlocks
      BY <3>1, BlocksIs, BlocksTyped, Zenon
    <3> QED BY <3>1, <3>2, Zenon DEF IInv, TypeOK
  <2> QED BY <2>1, <2>2, Zenon
<1>9. \A e \in Medium : /\ desc'[e].runs = desc[e].runs
                        /\ ddesc'[e].runs \in {ddesc[e].runs, desc[e].runs}
  BY <1>4, <1>5, MediumIs, Zenon
<1> QED BY <1>1, <1>7, <1>8, <1>9, BlockKept, Zenon

(* Steps that store types and links of descriptors but not the blocks of   *)
(* those in use, and write lines back.                                     *)
LEMMA BlockStores ==
    ASSUME IInv, BlockInv, Valid' = Valid, InUse' = InUse,
           \A e \in InUse : /\ desc'[e].type = desc[e].type /\ desc'[e].runs = desc[e].runs
                            /\ ddesc'[e].runs \in {ddesc[e].runs, desc[e].runs},
           \A b \in Extent : med'[b] = med[b] /\ dmed'[b] \in {dmed[b], med[b]}
    PROVE  BlockInv'
<1>1. Medium' = Medium
  BY MediumSame, Zenon
<1>2. FreeBlocks \subseteq Extent /\ Medium \subseteq InUse
  BY BlocksIs, BlocksTyped, MediumIs, Zenon
<1>3. \A e \in Medium : /\ desc'[e].runs = desc[e].runs
                        /\ ddesc'[e].runs \in {ddesc[e].runs, desc[e].runs}
  BY <1>2, Zenon
<1>4. \A b \in FreeBlocks : med'[b] = med[b] /\ dmed'[b] \in {dmed[b], med[b]}
  BY <1>2, Zenon
<1> QED BY <1>1, <1>3, <1>4, BlockKept, Zenon

(* The fence and the end of a release, and the head of the free list in    *)
(* resume: the descriptor that is marked is not in use.                    *)
LEMMA BlockTypes ==
    ASSUME IInv, BlockInv, ReleaseFence \/ Destruct \/ ResumeHead
    PROVE  BlockInv'
<1>1. CASE ReleaseFence
  <2>1. Valid' = Valid /\ desc' = desc /\ med' = med /\ InUse' = InUse
    BY <1>1, ReleaseFenceQuiet, Zenon DEF ReleaseFence, cached, Valid, oid, Quiet
  <2>2. /\ \A e \in Extent : ddesc'[e] \in {ddesc[e], desc[e]}
        /\ \A b \in Extent : dmed'[b] \in {dmed[b], med[b]}
    BY <1>1, Zenon DEF IInv, TypeOK, ReleaseFence
  <2> QED BY <2>1, <2>2, MediumIs, BlockStores, Zenon
<1>2. CASE Destruct
  <2>1. /\ Valid' = Valid /\ op.ext = Valid.ext_free /\ UNCHANGED <<med, dmed>>
        /\ desc' = [desc EXCEPT ![op.ext].type = "kInvalid"]
        /\ ddesc' = [ddesc EXCEPT ![op.ext] = desc'[op.ext]]
    BY <1>2, ZenonT(30) DEF IInv, ReleaseInv, Releasing, Destruct, Valid, oid
  <2>2. ASSUME NEW e \in Extent, e # op.ext PROVE desc'[e] = desc[e] /\ ddesc'[e] = ddesc[e]
    BY <2>1, <2>2, Zenon DEF IInv, TypeOK
  <2>3. op.ext \notin InUse
    BY <2>1, InUseIs, Zenon
  <2>4. ASSUME NEW e PROVE e \in InUse' <=> e \in InUse
    <3>1. CASE e = op.ext
      BY <2>1, <2>3, <3>1, InUseIs, Zenon
    <3>2. CASE e # op.ext
      <4>1. e \in 0 .. Valid.ext_used - 1 => desc'[e] = desc[e]
        BY <2>2, <3>2, Slots, TotalAssumption DEF IInv, Extent
      <4> QED BY <2>1, <4>1, InUseIs, Zenon
    <3> QED BY <3>1, <3>2, Zenon
  <2>5. InUse' = InUse
    BY <2>4, Zenon
  <2> QED BY <2>1, <2>2, <2>3, <2>5, MediumIs, BlockStores, ZenonT(30)
<1>3. CASE ResumeHead
  <2>1. Valid' = Valid /\ InUse' = InUse /\ UNCHANGED <<med, ddesc, dmed>>
    BY <1>3, ResumeHeadQuiet, ZenonT(30) DEF IInv, TypeOK, Head, ResumeHead, durable, Valid, oid, Quiet
  <2>2. ASSUME NEW e \in InUse PROVE desc'[e] = desc[e]
    <3>1. e \in Extent /\ e # Valid.ext_free
      BY InUseIs, MediumIs, Zenon
    <3> QED BY <1>3, <3>1, Zenon DEF IInv, TypeOK, ResumeHead
  <2> QED BY <2>1, <2>2, BlockStores, Zenon
<1> QED BY <1>1, <1>2, <1>3, Zenon

(* Closing, opening and the write-backs of the cache. *)
LEMMA BlockRest ==
    ASSUME IInv, BlockInv,
           \/ CloseBegin \/ ShutdownFlush \/ ShutdownCommit \/ Open \/ RebootFinish \/ ResumeFinish
           \/ RebootLoop \/ ResumeLoop \/ Evict \/ UNCHANGED vars
    PROVE  BlockInv'
<1>1. CASE CloseBegin \/ ShutdownFlush \/ ShutdownCommit \/ Open \/ RebootFinish \/ ResumeFinish
           \/ UNCHANGED vars
  <2>1. Valid' = Valid /\ desc' = desc /\ ddesc' \in {ddesc, desc} /\ med' = med /\ dmed' \in {dmed, med}
    BY <1>1, ZenonT(30) DEF IInv, TypeOK, Head, CloseBegin, ShutdownFlush, ShutdownCommit, Open,
       RebootFinish, ResumeFinish, vars, cached, durable, Valid, oid
  <2>2. InUse' = InUse
    BY <2>1, LinkStores, Zenon
  <2> QED BY <2>1, <2>2, BlockStores, Zenon
<1>2. CASE RebootLoop \/ ResumeLoop
  <2>1. /\ Valid' = Valid /\ cur \in Extent /\ desc' = [desc EXCEPT ![cur].next = Null]
        /\ UNCHANGED <<med, ddesc, dmed>>
    BY <1>2, Zenon DEF IInv, TypeOK, Pointer, RebootLoop, ResumeLoop, Unlink, durable, Valid, oid
  <2>2. ASSUME NEW e \in Extent
        PROVE  desc'[e].runs = desc[e].runs /\ desc'[e].type = desc[e].type
    BY <2>1, RunsKept, TypesKept, SMTT(30) DEF IInv, TypeOK
  <2>3. InUse' = InUse
    BY <2>1, <2>2, LinkStores, Zenon
  <2> QED BY <2>1, <2>2, <2>3, MediumIs, BlockStores, Zenon
<1>3. CASE Evict
  <2>1. /\ Valid' = Valid /\ desc' = desc /\ med' = med
        /\ \A e \in Extent : ddesc'[e] \in {ddesc[e], desc[e]}
        /\ \A b \in Extent : dmed'[b] \in {dmed[b], med[b]}
    BY <1>3, Zenon DEF IInv, TypeOK, Evict, cached, Valid, oid
  <2>2. InUse' = InUse
    BY <2>1, LinkStores, Zenon
  <2> QED BY <2>1, <2>2, MediumIs, BlockStores, Zenon
<1> QED BY <1>1, <1>2, <1>3, Zenon

(* A crash takes the durable copies, which agree with the cached ones on   *)
(* the medium extents in use and on the free blocks.                       *)
LEMMA BlockCrash ==
    ASSUME IInv, BlockInv, Crash \/ RebootTorn
    PROVE  BlockInv'
<1>1. /\ Valid' = Valid /\ desc' = ddesc /\ med' = dmed /\ UNCHANGED <<ddesc, dmed>>
  <2>1. CASE Crash
    BY <2>1, Zenon DEF IInv, HeadSync, Crash, durable, Valid, oid
  <2>2. CASE RebootTorn
    BY <2>2, TornKeeps, Zenon DEF RebootTorn
  <2> QED BY <2>1, <2>2, Zenon
<1>2. InUse' = InUse
  <2>1. CASE Crash
    <3>1. InUse' = Allocated(dhead, dmeta, ddesc)
      BY <2>1, Zenon DEF InUse, Allocated, Crash
    <3> QED BY <3>1, DurableInUse, Zenon
  <2>2. CASE RebootTorn
    BY <2>2, TornKeeps, Zenon
  <2> QED BY <2>1, <2>2, Zenon
<1>3. Medium' = Medium
  BY <1>1, <1>2, MediumIs, MediumSame, Zenon
<1>4. /\ \A e \in Medium : /\ desc'[e].runs = desc[e].runs
                           /\ ddesc'[e].runs \in {ddesc[e].runs, desc[e].runs}
      /\ \A b \in FreeBlocks : med'[b] = med[b] /\ dmed'[b] \in {dmed[b], med[b]}
  BY <1>1, Zenon DEF BlockInv
<1> QED BY <1>1, <1>3, <1>4, BlockKept, Zenon

-----------------------------------------------------------------------------
(* The operation in flight and the slot it prepares. *)

(* Other operations prepare no slot. *)
LEMMA SlotIdle ==
    ASSUME op'.pc \notin {"construct", "commit", "flip", "link", "fence", "unflip"}
    PROVE  SlotInv'
  BY Zenon DEF SlotInv, Acquiring

(* The block that a medium release returns lies in the segment. *)
LEMMA SlotBlock ==
    ASSUME IInv, BlockInv, SlotInv, op.pc \in {"fence", "unflip"}
    PROVE  op.runs \in Extent
<1>1. /\ op.ext \in 0 .. Valid.ext_used - 1 /\ op.ext # Valid.ext_free
      /\ desc[op.ext].type # "kInvalid"
  BY Zenon DEF IInv, ReleaseInv, Releasing
<1>2. op.ext \in Medium /\ op.runs = desc[op.ext].runs
  BY <1>1, InUseIs, MediumIs, Zenon DEF SlotInv
<1> QED BY <1>2, BlocksTyped, Zenon DEF BlockInv

(* acquire takes a block in the slot that is not valid. *)
LEMMA SlotAcquire ==
    ASSUME IInv, SlotInv, NEW t \in Requests, Acquire(t)
    PROVE  SlotInv'
<1>1. op'.pc = "construct" /\ op'.type = t
  BY DEF Acquire
<1>2. ASSUME t = "medium"
      PROVE  /\ op'.runs = TakenBlock(Valid)'
             /\ meta'[nid'].med_used = allocate_meta(Valid)'.med_used
             /\ meta'[nid'].med_free = allocate_meta(Valid)'.med_free
  <2>1. op'.runs = TakenBlock(Valid) /\ meta' = [meta EXCEPT ![nid] = allocate_meta(Valid)]
        /\ med' = med /\ head' = head
    BY <1>2 DEF Acquire
  <2>2. Valid' = Valid /\ nid' = nid /\ meta'[nid] = allocate_meta(Valid)
    BY <2>1, Slots, Zenon DEF IInv, TypeOK, Valid, oid, nid
  <2>3. TakenBlock(Valid)' = TakenBlock(Valid) /\ allocate_meta(Valid)' = allocate_meta(Valid)
    BY <2>1, <2>2, Zenon DEF TakenBlock, allocate_meta, HasFreeBlock
  <2> QED BY <2>1, <2>2, <2>3, Zenon
<1> QED BY <1>1, <1>2, Zenon DEF SlotInv

(* The rest of construct stores the block. *)
LEMMA SlotConstruct ==
    ASSUME IInv, SlotInv, Construct
    PROVE  SlotInv'
<1>1. /\ op.pc = "construct" /\ Acquiring /\ op' = [op EXCEPT !.pc = "commit"]
      /\ desc' = [desc EXCEPT ![op.ext].next = op.next, ![op.ext].runs = op.runs]
      /\ UNCHANGED <<head, meta, med>>
  BY Zenon DEF Construct, Acquiring
<1>2. op'.pc = "commit" /\ op'.ext = op.ext /\ op'.type = op.type /\ op'.runs = op.runs
  BY <1>1, ZenonT(30) DEF IInv, TypeOK, Operation
<1>3. op.ext \in Extent
  BY <1>1, ZenonT(30) DEF IInv, AcquireInv
<1>4. desc'[op'.ext].runs = op'.runs
  BY <1>1, <1>2, <1>3, RunsKept, SMTT(30) DEF IInv, TypeOK
<1>5. /\ Valid' = Valid /\ nid' = nid /\ TakenBlock(Valid)' = TakenBlock(Valid)
      /\ allocate_meta(Valid)' = allocate_meta(Valid)
  BY <1>1, Zenon DEF Valid, oid, nid, TakenBlock, allocate_meta, HasFreeBlock
<1>6. op.type = "medium" => /\ op.runs = TakenBlock(Valid)
                            /\ meta[nid].med_used = allocate_meta(Valid).med_used
                            /\ meta[nid].med_free = allocate_meta(Valid).med_free
  BY <1>1, Zenon DEF SlotInv
<1> QED BY <1>1, <1>2, <1>4, <1>5, <1>6, Zenon DEF SlotInv

(* complex_reclaim and complex_allocate add the extent to that slot. *)
LEMMA SlotCommit ==
    ASSUME IInv, SlotInv, ComplexCommit
    PROVE  SlotInv'
<1>1. /\ op.pc = "commit" /\ op.type = "medium" /\ Acquiring /\ op' = [op EXCEPT !.pc = "flip"]
      /\ meta' = [meta EXCEPT ![nid] = Granted(meta[nid])] /\ UNCHANGED <<head, desc, med>>
  BY Zenon DEF ComplexCommit, Acquiring
<1>2. op'.pc = "flip" /\ op'.ext = op.ext /\ op'.type = op.type /\ op'.runs = op.runs
  BY <1>1, Zenon DEF IInv, TypeOK, Operation
<1>3. Valid' = Valid /\ nid' = nid /\ meta'[nid] = Granted(meta[nid])
  BY <1>1, Slots, Zenon DEF IInv, TypeOK, Valid, oid, nid
<1>4. Granted(meta[nid]).med_used = meta[nid].med_used
      /\ Granted(meta[nid]).med_free = meta[nid].med_free
  <2>1. meta[nid] \in DescMeta
    BY Slots, Zenon DEF IInv, TypeOK
  <2> QED BY <2>1, Zenon DEF Granted, DescMeta
<1>5. TakenBlock(Valid)' = TakenBlock(Valid) /\ allocate_meta(Valid)' = allocate_meta(Valid)
  BY <1>1, <1>3, Zenon DEF TakenBlock, allocate_meta, HasFreeBlock
<1>6. /\ op.runs = TakenBlock(Valid) /\ desc[op.ext].runs = op.runs
      /\ meta[nid].med_used = allocate_meta(Valid).med_used
      /\ meta[nid].med_free = allocate_meta(Valid).med_free
  BY <1>1, Zenon DEF SlotInv
<1> QED BY <1>1, <1>2, <1>3, <1>4, <1>5, <1>6, ZenonT(30) DEF SlotInv

(* A release begins: the block of a medium extent links to med_free. *)
LEMMA SlotRelease ==
    ASSUME IInv, BlockInv, NEW x \in Extent, PlainRelease(x) \/ ComplexRelease(x)
    PROVE  SlotInv'
<1>1. PICK p : desc' = [desc EXCEPT ![x].next = p]
  BY Zenon DEF PlainRelease, ComplexRelease
<1>2. desc'[x].type = desc[x].type /\ desc'[x].runs = desc[x].runs
  BY <1>1, RunsKept, TypesKept, SMTT(30) DEF IInv, TypeOK
<1>3. CASE PlainRelease(x)
  <2>1. op'.pc = "link" /\ op'.ext = x /\ desc[x].type # "medium"
    BY <1>3, Zenon DEF PlainRelease, Idle
  <2> QED BY <1>2, <2>1, Zenon DEF SlotInv, Acquiring
<1>4. CASE ComplexRelease(x)
  <2>1. /\ op'.pc = "fence" /\ op'.ext = x /\ op'.runs = desc[x].runs /\ desc[x].type = "medium"
    BY <1>4, Zenon DEF ComplexRelease, Idle
  <2>2. /\ med' = [med EXCEPT ![desc[x].runs] = Valid.med_free] /\ head' = head
        /\ meta' = [meta EXCEPT ![nid] = [Valid EXCEPT !.ext_free = x, !.med_free = desc[x].runs]]
    BY <1>4, Zenon DEF ComplexRelease
  <2>3. /\ Valid' = Valid /\ nid' = nid
        /\ meta'[nid] = [Valid EXCEPT !.ext_free = x, !.med_free = desc[x].runs]
    BY <2>2, Slots, ZenonT(30) DEF IInv, TypeOK, Valid, oid, nid
  <2>4. meta'[nid].med_used = Valid.med_used /\ meta'[nid].med_free = desc[x].runs
    BY <2>3, Slots, Zenon DEF IInv, DescMeta
  <2>5. x \in Medium
    BY <1>4, <2>1, MediumIs, Zenon DEF ComplexRelease, IInv, HeldIsAllocated, InUse
  <2>6. desc[x].runs \in Extent
    BY <2>5, BlocksTyped, Zenon DEF BlockInv
  <2>7. med'[desc[x].runs] = Valid.med_free
    BY <2>2, <2>6, ZenonT(30) DEF IInv, TypeOK
  <2> QED BY <1>2, <2>1, <2>3, <2>4, <2>7, Zenon DEF SlotInv, Acquiring
<1> QED BY <1>3, <1>4, Zenon

(* The fence of a medium release writes the block back, or the cache does. *)
LEMMA SlotFence ==
    ASSUME IInv, BlockInv, SlotInv, ReleaseFence \/ Evict
    PROVE  SlotInv'
<1>1. UNCHANGED <<head, meta, desc, med>>
  BY Zenon DEF ReleaseFence, Evict, cached
<1>2. /\ Valid' = Valid /\ nid' = nid /\ TakenBlock(Valid)' = TakenBlock(Valid)
      /\ allocate_meta(Valid)' = allocate_meta(Valid)
  BY <1>1, Zenon DEF Valid, oid, nid, TakenBlock, allocate_meta, HasFreeBlock
<1>3. CASE ReleaseFence
  <2>1. op.pc = "fence" /\ op' = [op EXCEPT !.pc = "unflip"]
        /\ dmed' = [dmed EXCEPT ![op.runs] = med[op.runs]]
    BY <1>3, Zenon DEF ReleaseFence
  <2>2. op'.pc = "unflip" /\ op'.ext = op.ext /\ op'.runs = op.runs
    BY <2>1, Zenon DEF IInv, TypeOK, Operation
  <2>3. dmed'[op.runs] = med[op.runs]
    BY <2>1, SlotBlock, Zenon DEF IInv, TypeOK
  <2>4. /\ desc[op.ext].type = "medium" /\ op.runs = desc[op.ext].runs
        /\ meta[nid].med_used = Valid.med_used /\ meta[nid].med_free = op.runs
        /\ med[op.runs] = Valid.med_free
    BY <2>1, Zenon DEF SlotInv
  <2> QED BY <1>1, <1>2, <2>2, <2>3, <2>4, Zenon DEF SlotInv, Acquiring
<1>4. CASE Evict
  <2>1. op' = op /\ \A b \in Extent : dmed'[b] \in {dmed[b], med[b]}
    BY <1>4, Zenon DEF IInv, TypeOK, Evict
  <2>2. op.pc = "unflip" => dmed'[op.runs] = med[op.runs]
    BY <2>1, SlotBlock, Zenon DEF SlotInv
  <2> QED BY <1>1, <1>2, <2>1, <2>2, Zenon DEF SlotInv, Acquiring
<1> QED BY <1>3, <1>4, Zenon

(* A new pool has no block. *)
LEMMA BlocksInit == Init => BlockInv /\ SlotInv
<1> SUFFICES ASSUME Init PROVE BlockInv /\ SlotInv
  BY Zenon
<1>1. /\ Valid.ext_used = 0 /\ Valid.med_used = 0 /\ Valid.med_free = Null /\ op.pc = "idle"
  BY Zenon DEF Init, Valid, oid, Idle
<1>2. 0 .. Valid.ext_used - 1 = {} /\ 0 .. Valid.med_used - 1 = {} /\ Valid.med_used <= Total
  BY <1>1, TotalAssumption
<1>3. Medium = {}
  BY <1>2, InUseIs, Zenon DEF Medium
<1>4. FreeBlocks = {}
  BY <1>2, Zenon DEF FreeBlocks
<1>5. BlockInv
  BY <1>1, <1>2, <1>3, <1>4, Zenon DEF BlockInv, LinkedList
<1>6. SlotInv
  BY <1>1, Zenon DEF SlotInv, Acquiring
<1> QED BY <1>5, <1>6, Zenon

(* What the blocks are after a crash at this moment. *)
LEMMA BlocksDurable ==
    ASSUME IInv, BlockInv
    PROVE  MediumBlocks
<1> DEFINE m == dmeta[dhead.mind]
           medium == {e \in Allocated(dhead, dmeta, ddesc) : ddesc[e].type = "medium"}
           free == ListFrom(m.med_free, dmed)
           used == {ddesc[e].runs : e \in medium}
<1>1. m = Valid
  BY Zenon DEF IInv, HeadSync, Valid, oid
<1>2. medium = Medium
  BY DurableInUse, MediumIs, Zenon
<1>3. LinkedList(m.med_free, FreeBlocks, dmed)
  <2>1. LinkedList(Valid.med_free, FreeBlocks, med) /\ \A b \in FreeBlocks : dmed[b] = med[b]
    BY Zenon DEF BlockInv
  <2> QED BY <1>1, <2>1, ListSame
<1>4. free = FreeBlocks /\ EndsInNull(free, dmed)
  <2>1. ListFrom(m.med_free, dmed) = FreeBlocks /\ EndsInNull(FreeBlocks, dmed)
    BY <1>3, ListIs
  <2> QED BY <2>1, Zenon
<1>5. \A b : b \in used <=> \E e \in Medium : desc[e].runs = b
  <2>1. \A e \in Medium : ddesc[e].runs = desc[e].runs
    BY Zenon DEF BlockInv
  <2>2. ASSUME NEW b PROVE b \in used <=> \E e \in Medium : ddesc[e].runs = b
    BY <1>2, Zenon
  <2> HIDE DEF used
  <2> QED BY <2>1, <2>2, Zenon
<1>6. used \intersect free = {} /\ used \union free = 0 .. m.med_used - 1
  <2>1. ASSUME NEW b PROVE b \in used => b \in 0 .. m.med_used - 1 /\ b \notin free
    <3>1. \A e \in Medium : desc[e].runs \in 0 .. m.med_used - 1
      BY <1>1, Zenon DEF BlockInv
    <3>2. b \in free <=> b \in FreeBlocks
      BY <1>4, Zenon
    <3> HIDE DEF used, free, m
    <3>3. ASSUME b \in used PROVE b \in 0 .. m.med_used - 1 /\ b \notin FreeBlocks
      <4>1. PICK e \in Medium : desc[e].runs = b
        BY <1>5, <3>3, Zenon
      <4> QED BY <3>1, <4>1, BlocksIs, Zenon
    <3> QED BY <3>2, <3>3, Zenon
  <2>2. ASSUME NEW b PROVE b \in free => b \in 0 .. m.med_used - 1
    BY <1>1, <1>4, BlocksIs, Zenon
  <2>3. ASSUME NEW b \in 0 .. m.med_used - 1 PROVE b \in used \/ b \in free
    BY <1>1, <1>4, <1>5, BlocksIs, Zenon
  <2> HIDE DEF used, free, m
  <2> QED BY <2>1, <2>2, <2>3, Zenon
<1>7. ASSUME NEW e \in medium, NEW f \in medium, ddesc[e].runs = ddesc[f].runs PROVE e = f
  <2>1. e \in Medium /\ f \in Medium /\ desc[e].runs = desc[f].runs
    BY <1>2, <1>7, Zenon DEF BlockInv
  <2> QED BY <2>1, Zenon DEF BlockInv
<1>8. m.med_used <= Total
  BY <1>1, Zenon DEF BlockInv
<1> QED BY <1>4, <1>6, <1>7, <1>8, Zenon DEF MediumBlocks
-----------------------------------------------------------------------------
(***************************************************************************)
(* The theorems about the lists of extents.                                *)
(***************************************************************************)

(* Every step keeps the list that a close records, unless power fails in   *)
(* the loop of reboot, which unlinks what it has read.                     *)
LEMMA RecordedStep ==
    ASSUME "reboot" \notin CrashModes, IInv, RecordedInv, [Next]_vars
    PROVE  RecordedInv'
<1>1. CASE Calls
  BY <1>1, RecordedCalls, Zenon
<1>2. CASE CloseBegin \/ (\E e \in Extent : record(e)) \/ ShutdownFlush \/ ShutdownCommit
  BY <1>2, RecordedClose, Zenon
<1>3. CASE Open \/ RebootLoop \/ RebootFinish \/ ResumeLoop \/ ResumeHead \/ ResumeFinish
  BY <1>3, RecordedRestart, Zenon
<1>4. CASE Evict \/ UNCHANGED vars
  BY <1>4, RecordedCrash, Zenon
<1>5. CASE Crash
  BY <1>5, RecordedCrash, Zenon DEF Crash
<1>6. ~ RebootTorn
  BY Zenon DEF RebootTorn
<1> QED BY <1>1, <1>2, <1>3, <1>4, <1>5, <1>6, Zenon DEF Next, Calls

(* A list without a first element is empty. *)
LEMMA ListNull ==
    ASSUME NEW F, NEW next, LinkedList(Null, F, next)
    PROVE  F = {}
<1>1. {} \in SUBSET Extent /\ Walks({}, Null, F, next)
  BY Zenon DEF Walks
<1> QED BY <1>1, Zenon DEF LinkedList

(***************************************************************************)
(* A reboot reads every half-used extent that the close recorded, whatever *)
(* the pool did before and although record flushes nothing itself, as long *)
(* as power does not fail inside a reboot, whose loop unlinks the list     *)
(* (meta-file.h, record, shutdown and reboot).                             *)
(***************************************************************************)
THEOREM RebootComplete ==
    ASSUME "reboot" \notin CrashModes
    PROVE  Spec => []RebootReadsAll
<1>1. Init => RecordedInv
  BY DEF Init, RecordedInv, Idle
<1>2. IInv /\ RecordedInv /\ [Next]_vars => RecordedInv'
  BY RecordedStep, Zenon
<1>3. ASSUME RecordedInv, mode = "reboot", cur = Null PROVE loaded = half
  <2>1. loaded \subseteq half /\ LinkedList(Null, half \ loaded, Links(desc))
    BY <1>3, Zenon DEF RecordedInv
  <2>2. half \ loaded = {}
    BY <2>1, ListNull, Zenon
  <2> QED BY <2>1, <2>2, Zenon
<1>4. RecordedInv => RebootReadsAll
  BY <1>3, Zenon DEF RebootReadsAll
<1> QED BY <1>1, <1>2, <1>4, Inductive, PTL DEF Spec

(* With the lists, every extent below ext_used is held or free. *)
LEMMA LeakFree ==
    ASSUME IInv, PoolInv, FreeListInv
    PROVE  NoExtentLeak
<1> SUFFICES ASSUME Running PROVE NoExtentLeak
  BY Zenon DEF NoExtentLeak
<1>1. FreeList(head, meta, desc) = Free /\ EndsInNull(Free, Links(desc))
  <2>1. LinkedList(Valid.ext_free, Free, Links(desc))
    BY Zenon DEF FreeListInv
  <2>2. ListFrom(Valid.ext_free, Links(desc)) = Free /\ EndsInNull(Free, Links(desc))
    BY <2>1, ListIs
  <2> QED BY <2>2, Zenon DEF FreeList, Valid, oid, Links
<1>2. held = InUse
  <2>1. Up /\ ~ Releasing
    BY Zenon DEF Running, Up, Releasing
  <2>2. InUse \subseteq held
    BY <2>1, Zenon DEF PoolInv, Doubt
  <2> QED BY <2>2, Zenon DEF IInv, HeldIsAllocated, InUse
<1>3. Free \union held = 0 .. Valid.ext_used - 1
  <2>1. ASSUME NEW e PROVE e \in Free \/ e \in held <=> e \in 0 .. Valid.ext_used - 1
    BY <1>2, FreeIs, InUseIs, Zenon
  <2> QED BY <2>1, Zenon
<1>4. Free \intersect held = {}
  BY FreeIs, Zenon
<1> QED BY <1>1, <1>3, <1>4, Zenon DEF NoExtentLeak, Links

(***************************************************************************)
(* No extent of the pool leaks: whenever no operation is in flight, each   *)
(* extent below ext_used is held by a run case or on the free list, which  *)
(* ends, after any sequence of acquires, releases, closes, reboots and     *)
(* power failures except one inside a close (meta-file.h; see the README   *)
(* for that one).                                                          *)
(***************************************************************************)
THEOREM ExtentsAccounted ==
    ASSUME "closing" \notin CrashModes
    PROVE  Spec => []NoExtentLeak
<1>1. Init => FreeListInv /\ OccupiedInv /\ PoolInv
  BY ListsInit, PoolInit, Zenon
<1>2. IInv /\ PoolInv /\ FreeListInv /\ OccupiedInv /\ [Next]_vars
         => (PoolInv /\ FreeListInv /\ OccupiedInv)'
  BY ListsStep, PoolStep, Zenon
<1>3. IInv /\ PoolInv /\ FreeListInv => NoExtentLeak
  BY LeakFree, Zenon
<1> QED BY <1>1, <1>2, <1>3, Inductive, PTL DEF Spec

(* The free list that a crash at this moment would leave. *)
LEMMA FreeDurable ==
    ASSUME IInv, FreeListInv
    PROVE  OneOutstanding
<1> DEFINE m == dmeta[dhead.mind]
           invalid == {e \in 0 .. m.ext_used - 1 : ddesc[e].type = "kInvalid"}
<1>1. m = Valid
  BY Zenon DEF IInv, HeadSync, Valid, oid
<1>2. LinkedList(Valid.ext_free, Free, Links(ddesc))
  <2>1. LinkedList(Valid.ext_free, Free, Links(desc)) /\ Free \subseteq Extent
    BY FreeIs, Zenon DEF FreeListInv
  <2>2. \A e \in Free : Links(ddesc)[e] = Links(desc)[e]
    BY <2>1, Zenon DEF FreeListInv, Links
  <2> QED BY <2>1, <2>2, ListSame
<1>3. FreeList(dhead, dmeta, ddesc) = Free
  <2>1. ListFrom(Valid.ext_free, Links(ddesc)) = Free
    BY <1>2, ListIs
  <2> QED BY <1>1, <2>1, Zenon DEF FreeList, Links
<1>4. ASSUME NEW e PROVE e \in Free <=> e \in invalid \/ (e = Valid.ext_free /\ e # Null)
  <2>1. e \in Allocated(dhead, dmeta, ddesc) <=> e \in InUse
    BY DurableInUse, Zenon
  <2>2. e \in Allocated(dhead, dmeta, ddesc) <=>
          e \in 0 .. Valid.ext_used - 1 /\ ddesc[e].type # "kInvalid" /\ e # Valid.ext_free
    BY <1>1, ZenonT(30) DEF Allocated
  <2>3. Valid.ext_free # Null => Valid.ext_free \in 0 .. Valid.ext_used - 1
    BY Slots, TotalAssumption, NullAssumption, SMTT(30) DEF IInv, FreeInv, Valid, Pointer, Extent
  <2>4. \A f \in 0 .. Valid.ext_used - 1 : f # Null
    BY NullAssumption, Slots DEF IInv
  <2>5. e \in Free <=> e \in 0 .. Valid.ext_used - 1 /\ e \notin InUse
    BY FreeIs, Zenon
  <2> QED BY <1>1, <2>1, <2>2, <2>3, <2>4, <2>5, Zenon
<1>5. Free = invalid \union ({m.ext_free} \ {Null})
  <2>1. ASSUME NEW e PROVE e \in Free <=> e \in invalid \union ({m.ext_free} \ {Null})
    BY <1>1, <1>4, Zenon
  <2> QED BY <2>1, Zenon
<1> QED BY <1>3, <1>5, Zenon DEF OneOutstanding

(***************************************************************************)
(* At most one extent is outstanding whenever power fails: the durable     *)
(* free list holds the kInvalid descriptors and, at its head, at most one  *)
(* other, which is what resume repairs, unless power failed inside a close *)
(* (meta-file.h, acquire, release and resume).                             *)
(***************************************************************************)
THEOREM OutstandingOne ==
    ASSUME "closing" \notin CrashModes
    PROVE  Spec => []OneOutstanding
<1>1. Init => FreeListInv /\ OccupiedInv
  BY ListsInit, Zenon
<1>2. IInv /\ FreeListInv /\ OccupiedInv /\ [Next]_vars => (FreeListInv /\ OccupiedInv)'
  BY ListsStep, Zenon
<1>3. IInv /\ FreeListInv => OneOutstanding
  BY FreeDurable, Zenon
<1> QED BY <1>1, <1>2, <1>3, Inductive, PTL DEF Spec

-----------------------------------------------------------------------------
(***************************************************************************)
(* The theorem about the blocks, with a pigeonhole argument for the one    *)
(* that allocate_meta adds.                                                *)
(***************************************************************************)

FS == INSTANCE FiniteSetTheorems

(* No function puts the extents into all of them but one without taking a  *)
(* value twice.                                                            *)
LEMMA Pigeon ==
    ASSUME NEW x \in Extent, NEW f \in [Extent -> Extent \ {x}]
    PROVE  \E a, b \in Extent : a # b /\ f[a] = f[b]
<1>1. FS!IsFiniteSet(Extent) /\ FS!Cardinality(Extent) \in Nat
  <2>1. FS!IsFiniteSet(Extent)
    BY TotalAssumption, FS!FS_Interval DEF Extent
  <2> QED BY <2>1, FS!FS_CardinalityType
<1>2. /\ FS!IsFiniteSet(Extent \ {x})
      /\ FS!Cardinality(Extent \ {x}) = FS!Cardinality(Extent) - 1
  BY <1>1, FS!FS_RemoveElement, SMTT(30)
<1>3. FS!Cardinality(Extent \ {x}) < FS!Cardinality(Extent)
  BY <1>1, <1>2, SMTT(30)
<1> QED BY <1>1, <1>2, <1>3, FS!FS_PigeonHole, SMTT(30)

(* When no block is free and some extent is not medium, the segment has    *)
(* room for one more block.                                                *)
LEMMA BlockSpare ==
    ASSUME IInv, BlockInv, NEW x \in Extent, x \notin Medium, FreeBlocks = {}
    PROVE  Valid.med_used < Total
<1> SUFFICES ASSUME ~ (Valid.med_used < Total) PROVE FALSE
  BY Zenon
<1>1. 0 .. Valid.med_used - 1 = Extent
  BY BlocksTyped, TotalAssumption, SMTT(30) DEF BlockInv, Extent
<1>2. \A b \in Extent : \E e \in Medium : desc[e].runs = b
  BY <1>1, BlocksIs, Zenon
<1> DEFINE f == [b \in Extent |-> CHOOSE e \in Medium : desc[e].runs = b]
<1>3. \A b \in Extent : f[b] \in Medium /\ desc[f[b]].runs = b
  BY <1>2, Zenon
<1>4. Medium \subseteq Extent \ {x}
  BY MediumIs, Zenon
<1>5. f \in [Extent -> Extent \ {x}]
  BY <1>3, <1>4, Zenon
<1> HIDE DEF f
<1>6. PICK a \in Extent, b \in Extent : a # b /\ f[a] = f[b]
  BY <1>5, Pigeon, SMTT(30)
<1> QED BY <1>3, <1>6, Zenon

(* mind_ is flipped at the end of a medium acquire: the extent has the     *)
(* first free block, or the one after the last.                            *)
LEMMA BlockFlip ==
    ASSUME IInv, BlockInv, SlotInv, ComplexFlip
    PROVE  BlockInv'
<1>1. /\ Valid' = meta[nid] /\ Acquiring /\ op.pc = "flip" /\ op.type = "medium"
      /\ UNCHANGED <<desc, ddesc, med, dmed>>
  BY ZenonT(30) DEF IInv, TypeOK, Head, AcquireInv, ComplexFlip, Acquiring, Valid, oid, nid
<1>2. /\ Valid'.ext_used = Granted(Valid).ext_used /\ Valid'.ext_free = Granted(Valid).ext_free
      /\ op.ext \in Extent /\ desc[op.ext].type = "medium" /\ ddesc[op.ext] = desc[op.ext]
  BY <1>1, ZenonT(30) DEF IInv, AcquireInv
<1>3. /\ desc[op.ext].runs = TakenBlock(Valid)
      /\ Valid'.med_used = allocate_meta(Valid).med_used
      /\ Valid'.med_free = allocate_meta(Valid).med_free
  BY <1>1, Zenon DEF SlotInv
<1>4. InUse' = InUse \union {op.ext} /\ op.ext \notin Medium
  BY <1>1, <1>2, InUseGrant, MediumIs, Zenon
<1>5. \A e : e \in Medium' <=> e \in Medium \/ e = op.ext
  <2>1. ASSUME NEW e PROVE e \in Medium' <=> e \in Medium \/ e = op.ext
    BY <1>1, <1>2, <1>4, MediumIs, ZenonT(30)
  <2> QED BY <2>1, Zenon
<1>6. /\ TakenBlock(Valid) \in 0 .. Valid'.med_used - 1
      /\ \A e \in Medium : desc[e].runs # TakenBlock(Valid)
      /\ \A e \in Medium : desc[e].runs \in 0 .. Valid'.med_used - 1
      /\ Valid'.med_used <= Total
      /\ FreeBlocks' = FreeBlocks \ {TakenBlock(Valid)}
      /\ LinkedList(Valid'.med_free, FreeBlocks', med)
  <2>1. CASE Valid.med_free # Null
    <3>1. Valid.med_free \in FreeBlocks /\ HasFreeBlock(Valid)
      BY <2>1, Zenon DEF BlockInv, LinkedList, HasFreeBlock
    <3>2. /\ TakenBlock(Valid) = Valid.med_free /\ Valid'.med_used = Valid.med_used
          /\ Valid'.med_free = med[Valid.med_free]
      BY <1>3, <3>1, Slots, ZenonT(30) DEF IInv, TakenBlock, allocate_meta, DescMeta
    <3>3. FreeBlocks' = FreeBlocks \ {TakenBlock(Valid)}
      <4>1. ASSUME NEW b PROVE b \in FreeBlocks' <=> b \in FreeBlocks /\ b # TakenBlock(Valid)
        <5>1. (\A e \in Medium' : desc'[e].runs # b) <=>
                 (\A e \in Medium : desc[e].runs # b) /\ b # TakenBlock(Valid)
          BY <1>1, <1>3, <1>5, ZenonT(30)
        <5> QED BY <3>2, <5>1, BlocksIs, Zenon
      <4> QED BY <4>1, Zenon
    <3>4. LinkedList(med[Valid.med_free], FreeBlocks \ {Valid.med_free}, med)
      <4>1. LinkedList(Valid.med_free, FreeBlocks, med)
        BY Zenon DEF BlockInv
      <4> QED BY <2>1, <4>1, ListPop, SMTT(30)
    <3>5. LinkedList(Valid'.med_free, FreeBlocks', med)
      BY <3>2, <3>3, <3>4, Zenon
    <3>6. /\ Valid.med_free \in 0 .. Valid.med_used - 1
          /\ \A e \in Medium : desc[e].runs # Valid.med_free
      BY <3>1, BlocksIs, Zenon
    <3>7. Valid.med_used <= Total /\ \A e \in Medium : desc[e].runs \in 0 .. Valid.med_used - 1
      BY Zenon DEF BlockInv
    <3> QED BY <3>2, <3>3, <3>5, <3>6, <3>7, ZenonT(30)
  <2>2. CASE Valid.med_free = Null
    <3>1. Null \notin Extent
      BY NullAssumption, TotalAssumption, SMTT(30) DEF Extent
    <3>2. /\ TakenBlock(Valid) = Valid.med_used /\ Valid'.med_used = Valid.med_used + 1
          /\ Valid'.med_free = Null
      BY <1>3, <2>2, <3>1, Slots, ZenonT(30) DEF IInv, TakenBlock, allocate_meta, DescMeta, HasFreeBlock
    <3>3. FreeBlocks = {}
      <4>1. LinkedList(Null, FreeBlocks, med)
        BY <2>2, Zenon DEF BlockInv
      <4>2. {} \in SUBSET Extent /\ Walks({}, Null, FreeBlocks, med)
        BY Zenon DEF Walks
      <4> QED BY <4>1, <4>2, Zenon DEF LinkedList
    <3>4. Valid.med_used < Total /\ Valid.med_used \in Nat
      BY <1>2, <1>4, <3>3, BlockSpare, BlocksTyped, ZenonT(30)
    <3>5. /\ Valid.med_used \notin 0 .. Valid.med_used - 1
          /\ Valid.med_used \in 0 .. (Valid.med_used + 1) - 1
          /\ \A b : b \in 0 .. (Valid.med_used + 1) - 1 <=>
                       b \in 0 .. Valid.med_used - 1 \/ b = Valid.med_used
          /\ Valid.med_used + 1 <= Total
      BY <3>4, TotalAssumption
    <3>6. FreeBlocks' = {}
      <4>1. ASSUME NEW b \in FreeBlocks' PROVE FALSE
        <5>1. b \in 0 .. Valid.med_used - 1 \/ b = Valid.med_used
          BY <3>2, <3>5, BlocksIs, Zenon
        <5>2. \A e \in Medium' : desc[e].runs # b
          BY <1>1, BlocksIs, Zenon
        <5> QED BY <1>3, <1>5, <3>2, <3>3, <5>1, <5>2, BlocksIs, ZenonT(30)
      <4> QED BY <4>1, Zenon
    <3>7. \A e \in Medium : desc[e].runs \in 0 .. Valid.med_used - 1
      BY Zenon DEF BlockInv
    <3>8. LinkedList(Null, {}, med)
      BY Zenon DEF LinkedList
    <3> QED BY <3>2, <3>3, <3>5, <3>6, <3>7, <3>8, ZenonT(30)
  <2> QED BY <2>1, <2>2, Zenon
<1>7. /\ \A e \in Medium' : desc'[e].runs \in 0 .. Valid'.med_used - 1
                            /\ ddesc'[e].runs = desc'[e].runs
  BY <1>1, <1>2, <1>3, <1>5, <1>6, ZenonT(30) DEF BlockInv
<1>8. ASSUME NEW e \in Medium', NEW g \in Medium', desc'[e].runs = desc'[g].runs
      PROVE  e = g
  <2>1. desc[e].runs = desc[g].runs /\ (e \in Medium \/ e = op.ext) /\ (g \in Medium \/ g = op.ext)
    BY <1>1, <1>5, <1>8, Zenon
  <2> QED BY <1>3, <1>6, <2>1, ZenonT(30) DEF BlockInv
<1>9. \A b \in FreeBlocks' : dmed'[b] = med'[b]
  BY <1>1, <1>6, Zenon DEF BlockInv
<1> QED BY <1>1, <1>6, <1>7, <1>8, <1>9, ZenonT(30) DEF BlockInv

(* Every step keeps the blocks and the slots. *)
LEMMA BlocksStep ==
    ASSUME IInv, BlockInv, SlotInv, [Next]_vars
    PROVE  BlockInv' /\ SlotInv'
<1>1. CASE (\E t \in Requests : Acquire(t)) \/ Construct \/ ComplexCommit
  BY <1>1, BlockAcquire, SlotAcquire, SlotConstruct, SlotCommit, ZenonT(30)
<1>2. CASE PlainCommit \/ ComplexFlip \/ PlainLink \/ ReleaseFlip
  <2>1. BlockInv'
    BY <1>2, BlockPlainCommit, BlockFlip, BlockPlainLink, BlockUnflip, ZenonT(30)
  <2>2. op'.pc \in {"idle", "destruct"}
    <3>1. op' \in {Idle, [op EXCEPT !.pc = "destruct"]}
      BY <1>2, Zenon DEF PlainCommit, ComplexFlip, PlainLink, ReleaseFlip
    <3>2. Idle.pc = "idle" /\ [op EXCEPT !.pc = "destruct"].pc = "destruct"
      BY Zenon DEF IInv, TypeOK, Operation, Idle
    <3> QED BY <3>1, <3>2, Zenon
  <2>3. SlotInv'
    BY <2>2, SlotIdle, Zenon
  <2> QED BY <2>1, <2>3, Zenon
<1>3. CASE \E e \in Extent : PlainRelease(e) \/ ComplexRelease(e)
  BY <1>3, BlockRelease, SlotRelease, Zenon
<1>4. CASE ReleaseFence \/ Evict
  BY <1>4, BlockTypes, BlockRest, SlotFence, ZenonT(30)
<1>5. CASE \/ (\E e \in Extent : record(e)) \/ Destruct \/ CloseBegin \/ ShutdownFlush
           \/ ShutdownCommit \/ Open \/ RebootLoop \/ RebootFinish
           \/ ResumeLoop \/ ResumeHead \/ ResumeFinish \/ Crash \/ RebootTorn
  <2>1. BlockInv'
    BY <1>5, BlockRelease, BlockTypes, BlockRest, BlockCrash, ZenonT(30)
  <2>2. op'.pc \in {"idle", "shutdown", "resumed"} \/ (op' = op /\ ~ Acquiring /\ ~ Releasing)
    <3>1. CASE (\E e \in Extent : record(e)) \/ CloseBegin
      BY <3>1, Zenon DEF record, CloseBegin, Running, Acquiring, Releasing
    <3>2. CASE Open \/ RebootLoop \/ RebootFinish \/ ResumeLoop
      <4>1. op' = op /\ mode \in {"down", "reboot", "resume"}
        BY <3>2, Zenon DEF Open, RebootLoop, RebootFinish, ResumeLoop, Unlink
      <4> QED BY <4>1, Zenon DEF IInv, ModeInv
    <3>3. CASE \/ Destruct \/ ShutdownFlush \/ ShutdownCommit \/ ResumeHead \/ ResumeFinish
               \/ Crash \/ RebootTorn
      <4>1. op' \in {Idle, [op EXCEPT !.pc = "shutdown"], [op EXCEPT !.pc = "resumed"]}
        BY <3>3, Zenon DEF Destruct, ShutdownFlush, ShutdownCommit, ResumeHead, ResumeFinish, Crash,
           RebootTorn
      <4>2. /\ Idle.pc = "idle" /\ [op EXCEPT !.pc = "shutdown"].pc = "shutdown"
            /\ [op EXCEPT !.pc = "resumed"].pc = "resumed"
        BY Zenon DEF IInv, TypeOK, Operation, Idle
      <4> QED BY <4>1, <4>2, Zenon
    <3> QED BY <1>5, <3>1, <3>2, <3>3, Zenon
  <2>3. op'.pc \notin {"construct", "commit", "flip", "link", "fence", "unflip"}
    BY <2>2, Zenon DEF Acquiring, Releasing
  <2>4. SlotInv'
    BY <2>3, SlotIdle, ZenonT(30)
  <2> QED BY <2>1, <2>4, Zenon
<1>6. CASE UNCHANGED vars
  <2>1. BlockInv'
    BY <1>6, BlockRest, Zenon
  <2>2. UNCHANGED <<head, meta, desc, med, dmed, op>>
    BY <1>6, Zenon DEF vars, cached, durable
  <2>3. /\ Valid' = Valid /\ nid' = nid /\ TakenBlock(Valid)' = TakenBlock(Valid)
        /\ allocate_meta(Valid)' = allocate_meta(Valid)
    BY <2>2, Zenon DEF Valid, oid, nid, TakenBlock, allocate_meta, HasFreeBlock
  <2>4. SlotInv'
    BY <2>2, <2>3, Zenon DEF SlotInv, Acquiring
  <2> QED BY <2>1, <2>4, Zenon
<1> QED BY <1>1, <1>2, <1>3, <1>4, <1>5, <1>6, ZenonT(30) DEF Next

(***************************************************************************)
(* Whatever acquires, releases, closes, reboots and power failures do, at  *)
(* every step and in every mode, no two medium extents share a block of    *)
(* MediumMeta, every other block below med_used is on med_free, and        *)
(* allocate_meta never runs past the segment, for pools of any size        *)
(* (meta-file.h, complex_allocate, complex_reclaim and release).           *)
(***************************************************************************)
THEOREM BlockSafety == Spec => []MediumBlocks
<1>1. Init => BlockInv /\ SlotInv
  BY BlocksInit, Zenon
<1>2. IInv /\ BlockInv /\ SlotInv /\ [Next]_vars => (BlockInv /\ SlotInv)'
  BY BlocksStep, Zenon
<1>3. IInv /\ BlockInv => MediumBlocks
  BY BlocksDurable, Zenon
<1> QED BY <1>1, <1>2, <1>3, Inductive, PTL DEF Spec
=============================================================================
