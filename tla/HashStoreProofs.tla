-------------------------- MODULE HashStoreProofs ---------------------------
(***************************************************************************)
(* The theorems about HashStore, for every number of threads, keys,        *)
(* records and writes: SInv and DInv are inductive, and the properties of  *)
(* the store follow from them.                                             *)
(***************************************************************************)
EXTENDS HashStoreDurable, FiniteSetTheorems

(* Every step keeps the invariant. *)
LEMMA NextSafe ==
    ASSUME "remove" \notin MissingKeys, SInv, Cardinality(issued) \in Nat, [Next]_vars
    PROVE  SInv'
<1>1. CASE \E t \in Thread, o \in Ops, k \in Key : Begin(t, o, k)
  BY <1>1, BeginStep, ZenonT(30)
<1>2. CASE \E t \in Thread : \/ Acquire(t) \/ WriteNew(t) \/ Publish(t) \/ Invalidate(t)
                             \/ Rewrite(t) \/ FlushRecord(t) \/ SetControl(t)
  BY <1>2, AcquireStep, WriteNewStep, PublishStep, InvalidateStep, RewriteStep, FlushRecordStep,
     SetControlStep, ZenonT(30)
<1>3. CASE \E t \in Thread : Insert(t) \/ UpdateMissing(t) \/ Expire(t) \/ Replace(t)
  BY <1>3, InsertStep, UpdateMissingStep, ExpireStep, ReplaceStep, ZenonT(30)
<1>4. CASE \E t \in Thread : ReadDone(t) \/ \E k \in Key : Lookup(t, k)
  BY <1>4, LookupStep, ReadDoneStep, ZenonT(30)
<1>5. CASE \E t \in Thread : \E x \in retired : Reclaim(t, x)
  BY <1>5, ReclaimStep, Zenon
<1>6. CASE \E r \in Record : Evict(r)
  BY <1>6, EvictStep, ZenonT(30)
<1>7. CASE Crash
  BY <1>7, CrashStep, ZenonT(30)
<1>8. CASE \E t \in Thread, r \in Record : RecoverRecord(t, r)
  BY <1>8, RecoverRecordStep, ZenonT(30)
<1>9. CASE \E t \in Thread : \/ RecoverDrop(t) \/ RecoverRetire(t) \/ RecoverLoad(t)
                             \/ RecoverVersion(t)
  BY <1>9, RecoverDropStep, RecoverRetireStep, RecoverVersionStep, ZenonT(30)
<1>10. CASE RecoverDone \/ Reboot
  BY <1>10, OpenedStep, ZenonT(30)
<1>11. CASE CloseBegin \/ CloseLimboDone
  BY <1>11, CloseBeginStep, ZenonT(30)
<1>12. CASE \E t \in Thread : CloseLimbo(t)
  BY <1>12, CloseLimboStep, Zenon
<1>13. CASE \E x \in retired : EpochClear(x)
  BY <1>13, EpochClearStep, Zenon
<1>14. CASE EpochClearDone \/ CloseDone
  BY <1>14, EpochClearDoneStep, CloseDoneStep, ZenonT(30)
<1>15. CASE \E r \in Record : UnloadTombstone(r)
  BY <1>15, UnloadTombstoneStep, Zenon
<1>16. CASE UNCHANGED vars
  BY <1>16, StutterSafe, ZenonT(30)
<1> QED
  BY <1>1, <1>2, <1>3, <1>4, <1>5, <1>6, <1>7, <1>8, <1>9, <1>10, <1>11, <1>12, <1>13,
     <1>14, <1>15, <1>16, ZenonT(30) DEF Next

(* The writes of a behaviour are finitely many. *)
Counted == IsFiniteSet(issued)

(* Only the begin of a call issues a write. *)
LEMMA NextCounted ==
    ASSUME Counted, [Next]_vars
    PROVE  Counted'
  BY IssuedGrows, FS_AddElement, SMTT(30) DEF Counted

(* The inductive invariant holds in every state of every behaviour. *)
THEOREM StoreInductive ==
    ASSUME "remove" \notin MissingKeys
    PROVE  Spec => [](SInv /\ Counted)
<1>1. Init => SInv /\ Counted
  BY InitSafe, FS_EmptySet, ZenonT(30) DEF Init, Counted
<1>2. SInv /\ Counted /\ [Next]_vars => (SInv /\ Counted)'
  <2>1. Counted => Cardinality(issued) \in Nat
    BY FS_CardinalityType, Zenon DEF Counted
  <2> QED BY <2>1, NextSafe, NextCounted, ZenonT(30)
<1> QED BY <1>1, <1>2, PTL DEF Spec
-----------------------------------------------------------------------------
(***************************************************************************)
(* The safety of records.                                                  *)
(***************************************************************************)

(* A record is never in two hands: of the allocator, a call of upsert,     *)
(* update or remove, a recovery worker, the index, the epoch and the limbo *)
(* lists, at most one has it, whatever crashes, closes and interleavings   *)
(* came before.                                                            *)
THEOREM RecordExclusive ==
    ASSUME "remove" \notin MissingKeys
    PROVE  Spec => []ExclusiveRecord
  BY StoreInductive, OneOwner, PTL

(* At every moment a crash would leave only records that are exactly one   *)
(* write that some call made: log-free reuse exposes no mix of two writes. *)
THEOREM NeverTorn ==
    ASSUME "remove" \notin MissingKeys
    PROVE  Spec => []NoTornRecord
<1>1. SInv => NoTornRecord
  BY SMTT(30) DEF SInv
<1> QED BY <1>1, StoreInductive, PTL

(* A record that lookup returned keeps its header and its value for as     *)
(* long as the reader holds its epoch guard.                               *)
THEOREM ReadsStable ==
    ASSUME "remove" \notin MissingKeys
    PROVE  Spec => []StableRead
<1>1. SInv => StableRead
  BY ZenonT(30) DEF SInv, ReadInv, StableRead
<1> QED BY <1>1, StoreInductive, PTL

(* The version table of the open store is never behind its index, also     *)
(* when recovery workers raised it in any order.                           *)
THEOREM VersionsCovered ==
    ASSUME "remove" \notin MissingKeys
    PROVE  Spec => []VersionCovers
  BY StoreInductive, Covered, PTL

(* No record of the open store is lost, unless the limbo list that         *)
(* ~HashStore fills after it destroyed the others takes one with it.       *)
THEOREM NothingLost ==
    ASSUME "remove" \notin MissingKeys, NoLeak
    PROVE  Spec => []NoLostRecord
<1>1. SInv => NoLostRecord
  BY SomeOwner, ZenonT(30)
<1> QED BY <1>1, StoreInductive, PTL

(* While ~HashStore reclaims tombstones only indexed records have a hired  *)
(* token, so that no older record of the key outlives its tombstone.       *)
THEOREM OlderAreReleased ==
    ASSUME "remove" \notin MissingKeys, NoLeak
    PROVE  Spec => []OlderReleased
<1>1. SInv => OlderReleased
  BY DEF SInv, KeepInv
<1> QED BY <1>1, StoreInductive, PTL
-----------------------------------------------------------------------------
(***************************************************************************)
(* Durability.                                                             *)
(***************************************************************************)

(* Every step keeps the durable state and the shown one together. *)
LEMMA NextDurable ==
    ASSUME Clients, SInv, DInv, ReclaimInv, [Next]_vars
    PROVE  DInv'
<1>1. CASE \E t \in Thread, o \in Ops, k \in Key : Begin(t, o, k)
  BY <1>1, BeginDurable, ZenonT(30)
<1>2. CASE \E t \in Thread : \/ Acquire(t) \/ WriteNew(t) \/ Publish(t) \/ Invalidate(t)
                             \/ Rewrite(t) \/ FlushRecord(t) \/ SetControl(t)
  BY <1>2, AcquireDurable, PathDurable, ZenonT(30)
<1>3. CASE \E t \in Thread : Insert(t) \/ UpdateMissing(t)
  BY <1>3, InsertDurable, ZenonT(30)
<1>4. CASE \E t \in Thread : Expire(t) \/ Replace(t)
  BY <1>4, ExpireDurable, ReplaceDurable, ZenonT(30)
<1>5. CASE \E t \in Thread : \/ ReadDone(t) \/ \E k \in Key : Lookup(t, k)
                             \/ \E x \in retired : Reclaim(t, x)
  BY <1>5, ReadDurable, ZenonT(30)
<1>6. CASE \E r \in Record : Evict(r)
  BY <1>6, EvictDurable, ZenonT(30)
<1>7. CASE Crash
  BY <1>7, CrashDurable, ZenonT(30)
<1>8. CASE \E t \in Thread, r \in Record : RecoverRecord(t, r)
  BY <1>8, RecoverRecordDurable, ZenonT(30)
<1>9. CASE \E t \in Thread : \/ RecoverDrop(t) \/ RecoverRetire(t) \/ RecoverLoad(t)
                             \/ RecoverVersion(t)
  BY <1>9, WorkerDurable, ZenonT(30)
<1>10. CASE RecoverDone
  BY <1>10, RecoverDoneDurable, Zenon
<1>11. CASE \/ CloseBegin \/ (\E t \in Thread : CloseLimbo(t)) \/ CloseLimboDone
            \/ (\E x \in retired : EpochClear(x)) \/ EpochClearDone \/ CloseDone \/ Reboot
  BY <1>11, CloseDurable, ZenonT(30)
<1>12. CASE \E r \in Record : UnloadTombstone(r)
  BY <1>12, UnloadDurable, ZenonT(30)
<1>13. CASE UNCHANGED vars
  BY <1>13, StutterDurable, ZenonT(30)
<1> QED
  BY <1>1, <1>2, <1>3, <1>4, <1>5, <1>6, <1>7, <1>8, <1>9, <1>10, <1>11, <1>12, <1>13, ZenonT(30)
  DEF Next

(* The invariant of durability holds in every state of a behaviour in      *)
(* which tombstones are reclaimed only where that is safe.                 *)
THEOREM StoreDurable ==
    ASSUME Clients
    PROVE  Spec /\ []ReclaimSafe => [](SInv /\ DInv /\ ReclaimInv)
<1>1. Spec => []SInv
  <2>1. "remove" \notin MissingKeys
    BY Zenon DEF Clients
  <2> QED BY <2>1, StoreInductive, PTL
<1>2. Init => DInv /\ ReclaimInv
  BY InitDurable, Zenon
<1>3. SInv /\ ReclaimSafe /\ DInv /\ ReclaimInv /\ [Next]_vars => (DInv /\ ReclaimInv)'
  BY NextDurable, NextReclaim, ZenonT(30)
<1> QED BY <1>1, <1>2, <1>3, PTL DEF Spec

(* A write that returned survives a crash at any moment: the scan would    *)
(* find it, or a newer write to its key, or, for a remove, nothing.        *)
THEOREM AckedSurvive ==
    ASSUME Clients
    PROVE  Spec /\ []ReclaimSafe => []AckedDurable
  BY StoreDurable, Survives, PTL

(* A write that returned is what the index of the open store shows, or a   *)
(* newer one is, across crashes, recoveries, closes and reboots.           *)
THEOREM AckedAreVisible ==
    ASSUME Clients
    PROVE  Spec /\ []ReclaimSafe => []AckedVisible
  BY StoreDurable, Visible, PTL

(* What recovery would choose is what the open store shows. *)
THEOREM NewestAreIndexed ==
    ASSUME Clients
    PROVE  Spec /\ []ReclaimSafe => []NewestIndexed
  BY StoreDurable, Chosen, PTL
=============================================================================
