--------------------------- MODULE HashStoreSteps ---------------------------
(***************************************************************************)
(* Facts about the places of records, that SInv holds at first, what it    *)
(* says of the properties, and the steps that keep it: a power failure,    *)
(* the scan of recovery by several workers, close and reboot, and those of *)
(* an open store that write no line (a call begins, takes a record from    *)
(* its limbo list or from the allocator, the index operation publishes it, *)
(* lookup reads, the epoch runs a closure).  The write path is in          *)
(* HashStoreDurable, the theorems are in HashStoreProofs.                  *)
(***************************************************************************)
EXTENDS HashStoreInv, TLAPS

-----------------------------------------------------------------------------
(***************************************************************************)
(* Facts about the places.                                                 *)
(***************************************************************************)

(* TypeOK is a part of the invariant. *)
LEMMA SType == SInv => TypeOK
  BY Zenon DEF SInv

(* OnceInv is a part of the invariant. *)
LEMMA SOnce == SInv => OnceInv
  BY Zenon DEF SInv

(* ApartInv is a part of the invariant. *)
LEMMA SApart == SInv => ApartInv
  BY Zenon DEF SInv

(* BusyInv is a part of the invariant. *)
LEMMA SBusy == SInv => BusyInv
  BY Zenon DEF SInv

(* IndexInv is a part of the invariant. *)
LEMMA SIndex == SInv => IndexInv
  BY Zenon DEF SInv

(* CleanInv is a part of the invariant. *)
LEMMA SClean == SInv => CleanInv
  BY Zenon DEF SInv

(* VerInv is a part of the invariant. *)
LEMMA SVer == SInv => VerInv
  BY Zenon DEF SInv

(* A record is in the index when it is in the slots of some key. *)
LEMMA IndexedFact ==
    /\ \A r : r \in Indexed <=> \E k \in Key : r \in index[k]
    /\ \A r : r \in Indexed' <=> \E k \in Key : r \in index'[k]
  BY Zenon DEF Indexed

(* A record is in limbo when it is at some position of some list. *)
LEMMA LimboFact ==
    /\ \A r : r \in InLimbo <=> \E t \in Thread : \E i \in DOMAIN limbo[t] : limbo[t][i] = r
    /\ \A r : r \in InLimbo' <=> \E t \in Thread : \E i \in DOMAIN limbo'[t] : limbo'[t][i] = r
  BY DEF InLimbo, Limboed

(* A record is with the epoch when some closure is about it. *)
LEMMA EpochFact ==
    /\ \A r : r \in InEpoch <=> \E x \in retired : x.rec = r
    /\ \A r : r \in InEpoch' <=> \E x \in retired' : x.rec = r
  BY Zenon DEF InEpoch

(* A record is with a call when some thread holds it. *)
LEMMA CallFact ==
    /\ \A r : r \in InCall <=> \E t \in Thread : th[t].pc \in Holding /\ th[t].rec = r
    /\ \A r : r \in InCall' <=> \E t \in Thread : th'[t].pc \in Holding /\ th'[t].rec = r
  BY Zenon DEF InCall

(* A step that moves thread t from one program point to another. *)
LEMMA StepFact ==
    ASSUME th \in [Thread -> Call], NEW t \in Thread, NEW to \in Holding \union Scanning,
           th' = [th EXCEPT ![t].pc = to]
    PROVE  /\ th' \in [Thread -> Call] /\ \A u \in Thread \ {t} : th'[u] = th[u]
           /\ th'[t].pc = to /\ th'[t].op = th[t].op /\ th'[t].key = th[t].key
           /\ th'[t].ver = th[t].ver /\ th'[t].val = th[t].val /\ th'[t].rec = th[t].rec
<1> DEFINE l == [th[t] EXCEPT !.pc = to]
<1>1. th' = [th EXCEPT ![t] = l]
  BY Zenon
<1>2. /\ l \in Call /\ l.pc = to /\ l.op = th[t].op /\ l.key = th[t].key
      /\ l.ver = th[t].ver /\ l.val = th[t].val /\ l.rec = th[t].rec
  BY ZenonT(30) DEF Call, Holding, Filling, Writing, Scanning
<1> HIDE DEF l
<1> QED BY <1>1, <1>2

(* No record of another thread is the one that t holds. *)
LEMMA Elsewhere ==
    ASSUME OnceInv, ApartInv, NEW t \in Thread, th[t].pc \in Holding
    PROVE  /\ \A u \in Thread \ {t} : th[u].pc \in Holding => th[u].rec # th[t].rec
           /\ th[t].rec \notin Indexed /\ th[t].rec \notin InLimbo
           /\ th[t].rec \notin InEpoch /\ th[t].rec \notin Unscanned
           /\ th[t].rec \notin free
<1>1. th[t].rec \in InCall
  BY CallFact, Zenon
<1>2. \A u \in Thread \ {t} : th[u].pc \in Holding => th[u].rec # th[t].rec
  BY Zenon DEF OnceInv, CallOnce
<1> QED BY <1>1, <1>2, Zenon DEF ApartInv

(* The call of a thread that does nothing stays in agreement with its      *)
(* record when the lines of the record do not change, no write is          *)
(* forgotten and no key loses its record.                                  *)
LEMMA AgreeFrame ==
    ASSUME NEW t \in Thread, t \in Agreeing, th'[t] = th[t], th[t].rec \in Record,
           hdr'[th[t].rec] = hdr[th[t].rec], body'[th[t].rec] = body[th[t].rec],
           phdr'[th[t].rec] = phdr[th[t].rec], pbody'[th[t].rec] = pbody[th[t].rec],
           issued \subseteq issued', \A k \in Key : index[k] # {} => index'[k] # {}
    PROVE  t \in Agreeing'
<1> DEFINE c == th[t]
           r == th[t].rec
<1>1. r \in Clean <=> r \in Clean'
  BY Zenon DEF Clean
<1>2. c.pc \in Writing =>
        /\ c.key \in Key /\ c.op \in {"upsert", "update", "remove"}
        /\ Intent(c) \in issued' /\ (c.op = "remove" => c.val = 0)
        /\ c.op \in {"update", "remove"} \ MissingKeys => index'[c.key] # {}
  BY Zenon DEF Agreeing
<1>3. /\ c.pc \in {"publish", "index"} => ~hdr[r].inv /\ Content(hdr[r], body[r]) = Intent(c)
      /\ c.pc \in Dirtying => hdr[r].inv /\ (r \notin OneLine => phdr[r].inv)
      /\ c.pc \in {"flush", "control"} =>
           hdr[r].key = c.key /\ (c.op # "remove" => body[r] = c.val)
      /\ c.pc = "flush" => r \notin OneLine
      /\ c.pc = "control" /\ r \notin OneLine => r \in Clean
  BY Zenon DEF Agreeing
<1> QED BY <1>1, <1>2, <1>3 DEF Agreeing

(* The call of a thread that does nothing, and has no record, agrees for   *)
(* as long as no write is forgotten and no key loses its record.           *)
LEMMA AgreeWait ==
    ASSUME NEW t \in Thread, t \in Agreeing, th'[t] = th[t], th[t].pc \notin Holding,
           issued \subseteq issued', \A k \in Key : index[k] # {} => index'[k] # {}
    PROVE  t \in Agreeing'
<1> DEFINE c == th[t]
<1>1. c.pc \in Writing =>
        /\ c.key \in Key /\ c.op \in {"upsert", "update", "remove"}
        /\ Intent(c) \in issued' /\ (c.op = "remove" => c.val = 0)
        /\ c.op \in {"update", "remove"} \ MissingKeys => index'[c.key] # {}
  BY Zenon DEF Agreeing
<1>2. c.pc \notin {"publish", "index"} /\ c.pc \notin Dirtying /\ c.pc \notin {"flush", "control"}
  BY Zenon DEF Holding, Filling, Writing, Dirtying
<1> QED BY <1>1, <1>2, Zenon DEF Agreeing

(* A thread that writes no record agrees. *)
LEMMA AgreeIdle ==
    ASSUME NEW t \in Thread, th'[t].pc \notin Writing
    PROVE  t \in Agreeing'
  BY Zenon DEF Agreeing, Writing, Dirtying

(* A line of a record that is not being rewritten is what the medium has. *)
LEMMA CleanUnless ==
    ASSUME SInv, NEW r \in Record, \A u \in Thread : th[u].rec = r => th[u].pc \notin Dirtying
    PROVE  phdr[r] = hdr[r] /\ pbody[r] = body[r]
  BY Zenon DEF SInv, CleanInv, Clean

(* No call is running on the idle call. *)
LEMMA IdleFact ==
    /\ IdleCall \in Call /\ IdleCall.pc = "idle"
    /\ IdleCall.pc \notin Holding /\ IdleCall.pc \notin Writing
  BY Zenon DEF IdleCall, Call, Holding, Filling, Writing, Value

(* The record that a call writes, and what is known of the call. *)
LEMMA CallKnown ==
    ASSUME SInv, NEW t \in Thread, th[t].pc \in Filling
    PROVE  /\ th[t].rec \in Record /\ th[t].key \in Key /\ th[t].ver \in Nat
           /\ th[t].op \in {"upsert", "update", "remove"} /\ th[t].val \in Value
           /\ Intent(th[t]) \in issued /\ (th[t].op = "remove" => th[t].val = 0)
           /\ th[t].op \in {"update", "remove"} \ MissingKeys => index[th[t].key] # {}
           /\ th[t].rec \in busy <=> th[t].pc \notin {"write", "publish"}
<1>1. t \in Agreeing /\ th[t] \in Call
  BY Zenon DEF SInv, TypeOK
<1>2. th[t].rec \in Record /\ (th[t].rec \in busy <=> th[t].pc \notin {"write", "publish"})
  BY Zenon DEF SInv, BusyInv, Holding, Filling
<1>3. th[t].ver \in Nat /\ th[t].val \in Value
  BY <1>1, Zenon DEF Call
<1>4. th[t].pc \in Writing
  BY Zenon DEF Filling
<1> QED BY <1>1, <1>2, <1>3, <1>4, Zenon DEF Agreeing
-----------------------------------------------------------------------------
(***************************************************************************)
(* The first state, a stutter, and what holds of every step.               *)
(***************************************************************************)

(* The store that has just been created. *)
LEMMA InitSafe == Init => SInv
<1> SUFFICES ASSUME Init PROVE SInv
  BY Zenon
<1>1. /\ hdr = [r \in Record |-> Blank] /\ body = [r \in Record |-> 0]
      /\ phdr = hdr /\ pbody = body /\ busy = {} /\ free = Record
      /\ index = [k \in Key |-> {}] /\ version = [s \in Slot |-> 0]
      /\ limbo = [t \in Thread |-> <<>>] /\ retired = {}
      /\ th = [t \in Thread |-> IdleCall] /\ mode = "open" /\ todo = {} /\ tomb = 0
      /\ issued = {} /\ acked = [k \in Key |-> {}] /\ recovered = FALSE
  BY Zenon DEF Init
<1>2. \A t \in Thread : /\ th[t] = IdleCall /\ th[t].pc = "idle" /\ th[t].pc \notin Holding
                        /\ limbo[t] = <<>> /\ DOMAIN limbo[t] = {}
  BY <1>1, IdleFact
<1>3. \A k \in Key : index[k] = {}
  BY <1>1, Zenon
<1>4. TypeOK
  <2>1. /\ th \in [Thread -> Call] /\ limbo \in [Thread -> Seq(Record)]
        /\ index \in [Key -> SUBSET Record] /\ version \in [Slot -> Nat]
        /\ acked \in [Key -> SUBSET Write]
    BY <1>1, IdleFact
  <2>2. Blank \in Header /\ 0 \in Value
    BY Zenon DEF Blank, Header, Value
  <2>3. hdr \in [Record -> Header] /\ body \in [Record -> Value]
    BY <2>2, <1>1, Zenon
  <2> QED BY <2>1, <2>3, <1>1, Zenon DEF TypeOK, Mode
<1>5. /\ Indexed = {} /\ InLimbo = {} /\ InEpoch = {} /\ InCall = {} /\ Unscanned = {}
  BY <1>1, <1>2, <1>3, IndexedFact, EpochFact, LimboFact, CallFact, ZenonT(30) DEF Unscanned
<1>6. OnceInv
  BY <1>1, <1>2, <1>3, Zenon DEF OnceInv, CallOnce, IndexOnce, LimboOnce, EpochOnce
<1>7. ApartInv /\ BusyInv
  BY <1>1, <1>2, <1>5, Zenon DEF ApartInv, BusyInv
<1>8. ModeInv
  BY <1>1, <1>2, Zenon DEF ModeInv, Writing, Scanning
<1>9. Thread \subseteq Agreeing
  BY <1>2, Zenon DEF Agreeing, Writing, Dirtying
<1>10. CleanInv
  BY <1>1, Zenon DEF CleanInv, Clean
<1>11. NoTornRecord
  BY <1>1, Zenon DEF NoTornRecord, Surviving
<1>12. IndexInv /\ ReadInv
  BY <1>2, <1>3, Zenon DEF IndexInv, ReadInv
<1>13. KeepInv
  BY <1>1, <1>2, <1>5, Zenon DEF KeepInv, OlderReleased
<1>14. VerInv
  BY <1>2, <1>3, Zenon DEF VerInv, Writing
<1> QED
  BY <1>4, <1>6, <1>7, <1>8, <1>9, <1>10, <1>11, <1>12, <1>13, <1>14, Zenon DEF SInv

(* A step that changes nothing. *)
LEMMA StutterSafe ==
    ASSUME SInv, UNCHANGED vars
    PROVE  SInv'
<1>1. /\ hdr' = hdr /\ body' = body /\ phdr' = phdr /\ pbody' = pbody /\ busy' = busy
      /\ free' = free /\ index' = index /\ version' = version /\ limbo' = limbo
      /\ retired' = retired /\ th' = th /\ mode' = mode /\ todo' = todo /\ tomb' = tomb
      /\ issued' = issued /\ acked' = acked /\ recovered' = recovered
  BY Zenon DEF vars
<1>2. /\ Indexed' = Indexed /\ InLimbo' = InLimbo /\ InEpoch' = InEpoch /\ InCall' = InCall
      /\ Unscanned' = Unscanned /\ Clean' = Clean
  BY <1>1, SMTT(30) DEF Indexed, InLimbo, Limboed, InEpoch, InCall, Unscanned, Clean
<1>3. TypeOK' /\ ModeInv' /\ OnceInv'
  BY <1>1, <1>2 DEF SInv, TypeOK, ModeInv, OnceInv, CallOnce, IndexOnce, LimboOnce, EpochOnce
<1>4. ApartInv' /\ BusyInv' /\ IndexInv' /\ CleanInv'
  BY <1>1, <1>2, Zenon DEF SInv, ApartInv, BusyInv, IndexInv, CleanInv
<1>5. NoTornRecord' /\ ReadInv'
  BY <1>1, <1>2, Zenon DEF SInv, NoTornRecord, Surviving, Durable, ReadInv
<1>6. KeepInv'
  BY <1>1, <1>2, Zenon DEF SInv, KeepInv, OlderReleased
<1>7. VerInv'
  BY <1>1 DEF SInv, VerInv
<1>8. ASSUME NEW u \in Thread PROVE u \in Agreeing'
  <2>1. CASE th[u].pc \in Holding
    <3>1. th[u].rec \in Record
      BY <2>1, Zenon DEF SInv, BusyInv
    <3> QED BY <3>1, <1>1, AgreeFrame, Zenon DEF SInv
  <2>2. CASE th[u].pc \notin Holding
    BY <1>1, <2>2, AgreeWait, Zenon DEF SInv
  <2> QED BY <2>1, <2>2, Zenon
<1> QED BY <1>3, <1>4, <1>5, <1>6, <1>7, <1>8, Zenon DEF SInv

(* Only the begin of a call issues a write, one at a time. *)
LEMMA IssuedGrows ==
    ASSUME [Next]_vars
    PROVE  issued' = issued \/ \E w : issued' = issued \union {w}
<1>1. CASE \E t \in Thread, o \in Ops, k \in Key : Begin(t, o, k)
  <2>1. PICK t \in Thread, o \in Ops, k \in Key : Begin(t, o, k)
    BY <1>1, Zenon
  <2>2. \E w : issued' = issued \union {w}
    BY <2>1, Zenon DEF Begin
  <2> QED BY <2>2, Zenon
<1>2. CASE \E t \in Thread : \/ Acquire(t) \/ WriteNew(t) \/ Publish(t) \/ Invalidate(t)
                             \/ Rewrite(t) \/ FlushRecord(t) \/ SetControl(t)
  BY <1>2, Zenon DEF Acquire, WriteNew, Publish, Invalidate, Rewrite, FlushRecord, SetControl, Step, ghosts
<1>3. CASE \E t \in Thread : Insert(t) \/ UpdateMissing(t) \/ Expire(t) \/ Replace(t)
  BY <1>3, Zenon DEF Insert, UpdateMissing, Expire, Replace, Return
<1>4. CASE \E t \in Thread : ReadDone(t) \/ \E k \in Key : Lookup(t, k)
  BY <1>4, Zenon DEF ReadDone, Lookup, ghosts
<1>5. CASE \E t \in Thread : \E x \in retired : Reclaim(t, x)
  BY <1>5, Zenon DEF Reclaim, ghosts
<1>6. CASE (\E r \in Record : Evict(r)) \/ Crash
  BY <1>6, Zenon DEF Evict, Crash, ghosts
<1>7. CASE \E t \in Thread, r \in Record : RecoverRecord(t, r)
  BY <1>7, Zenon DEF RecoverRecord, ghosts
<1>8. CASE \E t \in Thread : \/ RecoverDrop(t) \/ RecoverRetire(t) \/ RecoverLoad(t)
                             \/ RecoverVersion(t)
  BY <1>8, Zenon DEF RecoverDrop, RecoverRetire, RecoverLoad, RecoverVersion, ghosts
<1>9. CASE RecoverDone \/ Reboot \/ CloseBegin \/ CloseLimboDone
  BY <1>9, Zenon DEF RecoverDone, Reboot, CloseBegin, CloseLimboDone, ghosts
<1>10. CASE \E t \in Thread : CloseLimbo(t)
  BY <1>10, Zenon DEF CloseLimbo, ghosts
<1>11. CASE \E x \in retired : EpochClear(x)
  BY <1>11, Zenon DEF EpochClear, ghosts
<1>12. CASE EpochClearDone \/ CloseDone
  BY <1>12, Zenon DEF EpochClearDone, CloseDone, ghosts
<1>13. CASE \E r \in Record : UnloadTombstone(r)
  BY <1>13, Zenon DEF UnloadTombstone, ghosts
<1>14. CASE UNCHANGED vars
  BY <1>14, Zenon DEF vars
<1> QED
  BY ZenonT(30), <1>1, <1>2, <1>3, <1>4, <1>5, <1>6, <1>7, <1>8, <1>9, <1>10, <1>11, <1>12, <1>13,
     <1>14, Zenon DEF Next

(* Tombstones are reclaimed only where no record is left in a limbo list. *)
LEMMA NextReclaim ==
    ASSUME SInv, ReclaimInv, ReclaimSafe, [Next]_vars
    PROVE  ReclaimInv'
<1>1. \/ mode' # "unload" \/ (mode' = mode /\ todo' \subseteq todo) \/ EpochClearDone
  <2>1. CASE \E t \in Thread, o \in Ops, k \in Key : Begin(t, o, k)
    BY <2>1 DEF Begin
  <2>2. CASE \E t \in Thread : \/ Acquire(t) \/ WriteNew(t) \/ Publish(t) \/ Invalidate(t)
                               \/ Rewrite(t) \/ FlushRecord(t) \/ SetControl(t)
    BY <2>2, ZenonT(30) DEF Acquire, WriteNew, Publish, Invalidate, Rewrite, FlushRecord, SetControl, Step
  <2>3. CASE \E t \in Thread : Insert(t) \/ UpdateMissing(t) \/ Expire(t) \/ Replace(t)
    BY <2>3, Zenon DEF Insert, UpdateMissing, Expire, Replace, Return
  <2>4. CASE \E t \in Thread : ReadDone(t) \/ \E k \in Key : Lookup(t, k)
    BY <2>4, Zenon DEF ReadDone, Lookup
  <2>5. CASE \E t \in Thread : \E x \in retired : Reclaim(t, x)
    BY <2>5, Zenon DEF Reclaim
  <2>6. CASE (\E r \in Record : Evict(r)) \/ Crash
    BY <2>6, Zenon DEF Evict, Crash
  <2>7. CASE \E t \in Thread, r \in Record : RecoverRecord(t, r)
    BY <2>7, Zenon DEF RecoverRecord
  <2>8. CASE \E t \in Thread : \/ RecoverDrop(t) \/ RecoverRetire(t) \/ RecoverLoad(t)
                               \/ RecoverVersion(t)
    BY <2>8, Zenon DEF RecoverDrop, RecoverRetire, RecoverLoad, RecoverVersion
  <2>9. CASE RecoverDone \/ Reboot \/ CloseBegin \/ CloseLimboDone \/ CloseDone
    BY <2>9, Zenon DEF RecoverDone, Reboot, CloseBegin, CloseLimboDone, CloseDone
  <2>10. CASE (\E t \in Thread : CloseLimbo(t)) \/ \E x \in retired : EpochClear(x)
    BY <2>10, Zenon DEF CloseLimbo, EpochClear
  <2>11. CASE \E r \in Record : UnloadTombstone(r)
    BY <2>11, Zenon DEF UnloadTombstone
  <2>12. CASE UNCHANGED vars
    BY <2>12, Zenon DEF vars
  <2> QED
    BY <2>1, <2>2, <2>3, <2>4, <2>5, <2>6, <2>7, <2>8, <2>9, <2>10, <2>11, <2>12, Zenon DEF Next
<1>2. ASSUME EpochClearDone, MaxLimbo # 0 PROVE todo' = {}
  <2>1. ~(tomb > ReclaimTomb)
    BY <1>2, LimitAssumption DEF ReclaimSafe, SInv, TypeOK
  <2>2. todo' = todo /\ mode = "clearing"
    BY <2>1, <1>2, Zenon DEF EpochClearDone
  <2> QED BY <2>2, Zenon DEF SInv, ModeInv
<1> QED BY <1>1, <1>2, Zenon DEF ReclaimInv
-----------------------------------------------------------------------------
(***************************************************************************)
(* What the invariant says of the properties.                              *)
(***************************************************************************)

(* An owner of a record is one of the places of the invariant. *)
LEMMA OwnerFact ==
    ASSUME NEW r, NEW z
    PROVE  z \in Owners(r) <=>
             \/ r \in free /\ z = <<"free">>
             \/ \E k \in Key : r \in index[k] /\ z = <<"index", k>>
             \/ \E t \in Thread : \E i \in DOMAIN limbo[t] :
                   limbo[t][i] = r /\ z = <<"limbo", t, i>>
             \/ \E y \in retired : y.rec = r /\ z = <<"epoch", y>>
             \/ \E t \in Thread : /\ th[t].pc \notin {"idle", "read"} /\ th[t].rec = r
                                  /\ z = <<"call", t>>
<1>1. z \in FreeOwner(r) <=> r \in free /\ z = <<"free">>
  BY Zenon DEF FreeOwner
<1>2. z \in IndexOwner(r) <=> \E k \in Key : r \in index[k] /\ z = <<"index", k>>
  BY Zenon DEF IndexOwner
<1>3. z \in LimboOwner(r) <=> \E t \in Thread : \E i \in DOMAIN limbo[t] :
                                limbo[t][i] = r /\ z = <<"limbo", t, i>>
  <2> DEFINE At(t) == {<<"limbo", t, i>> : i \in {i \in DOMAIN limbo[t] : limbo[t][i] = r}}
  <2>1. z \in LimboOwner(r) <=> \E t \in Thread : z \in At(t)
    BY Zenon DEF LimboOwner
  <2>2. ASSUME NEW t \in Thread
        PROVE  z \in At(t) <=> \E i \in DOMAIN limbo[t] : limbo[t][i] = r /\ z = <<"limbo", t, i>>
    BY Zenon
  <2> QED BY <2>1, <2>2, Zenon
<1>4. z \in EpochOwner(r) <=> \E y \in retired : y.rec = r /\ z = <<"epoch", y>>
  BY Zenon DEF EpochOwner
<1>5. z \in CallOwner(r) <=> \E t \in Thread : /\ th[t].pc \notin {"idle", "read"}
                                               /\ th[t].rec = r /\ z = <<"call", t>>
  BY Zenon DEF CallOwner, Active
<1>6. z \in Owners(r) <=> \/ z \in FreeOwner(r) \/ z \in IndexOwner(r) \/ z \in LimboOwner(r)
                         \/ z \in EpochOwner(r) \/ z \in CallOwner(r)
  BY Zenon DEF Owners
<1> QED BY <1>1, <1>2, <1>3, <1>4, <1>5, <1>6, ZenonT(30)

(* A thread that holds a record for a call or for a scan is in InCall. *)
LEMMA HolderFact ==
    ASSUME SInv, NEW t \in Thread, th[t].pc \notin {"idle", "read"}, th[t].rec \in Record
    PROVE  th[t].pc \in Holding
<1>1. th[t] \in Call
  BY Zenon DEF SInv, TypeOK
<1>2. th[t].pc \notin {"acquire", "load", "cas"}
  BY RecordAssumption, Zenon DEF SInv, ModeInv, Scanning
<1> QED BY <1>1, <1>2, Zenon DEF Call, Holding, Filling, Writing

(* The invariant forbids two owners. *)
LEMMA OneOwner == SInv => ExclusiveRecord
<1> SUFFICES ASSUME SInv, NEW r \in Record, NEW x \in Owners(r), NEW y \in Owners(r)
             PROVE  x = y
  BY Zenon DEF ExclusiveRecord
<1> DEFINE InF(z) == r \in free /\ z = <<"free">>
           InI(z) == \E k \in Key : r \in index[k] /\ z = <<"index", k>>
           InL(z) == \E t \in Thread : \E i \in DOMAIN limbo[t] :
                        limbo[t][i] = r /\ z = <<"limbo", t, i>>
           InE(z) == \E q \in retired : q.rec = r /\ z = <<"epoch", q>>
           InC(z) == \E t \in Thread : /\ th[t].pc \in Holding /\ th[t].rec = r
                                       /\ z = <<"call", t>>
<1>1. \A z \in Owners(r) : InF(z) \/ InI(z) \/ InL(z) \/ InE(z) \/ InC(z)
  <2> SUFFICES ASSUME NEW z \in Owners(r)
               PROVE  InF(z) \/ InI(z) \/ InL(z) \/ InE(z) \/ InC(z)
    BY Zenon
  <2>1. ASSUME NEW t \in Thread, th[t].pc \notin {"idle", "read"}, th[t].rec = r
        PROVE  th[t].pc \in Holding
    BY <2>1, HolderFact, ZenonT(30)
  <2>2. \/ InF(z) \/ InI(z) \/ InL(z) \/ InE(z)
        \/ \E t \in Thread : /\ th[t].pc \notin {"idle", "read"} /\ th[t].rec = r
                             /\ z = <<"call", t>>
    BY OwnerFact
  <2> QED BY <2>1, <2>2, Zenon
<1>2. /\ \A z : InF(z) => r \in free
      /\ \A z : InI(z) => r \in Indexed
      /\ \A z : InL(z) => r \in InLimbo
      /\ \A z : InE(z) => r \in InEpoch
      /\ \A z : InC(z) => r \in InCall
  BY IndexedFact, LimboFact, EpochFact, CallFact, ZenonT(30)
<1>3. InI(x) /\ InI(y) => x = y
  BY Zenon DEF SInv, OnceInv, IndexOnce
<1>4. InL(x) /\ InL(y) => x = y
  <2> SUFFICES ASSUME InL(x), InL(y) PROVE x = y
    BY Zenon
  <2>1. PICK t \in Thread : \E i \in DOMAIN limbo[t] : limbo[t][i] = r /\ x = <<"limbo", t, i>>
    BY Zenon
  <2>2. PICK i \in DOMAIN limbo[t] : limbo[t][i] = r /\ x = <<"limbo", t, i>>
    BY <2>1, Zenon
  <2>3. PICK u \in Thread : \E j \in DOMAIN limbo[u] : limbo[u][j] = r /\ y = <<"limbo", u, j>>
    BY Zenon
  <2>4. PICK j \in DOMAIN limbo[u] : limbo[u][j] = r /\ y = <<"limbo", u, j>>
    BY <2>3, Zenon
  <2>5. t = u /\ i = j
    <3>1. LimboOnce
      BY Zenon DEF SInv, OnceInv
    <3> QED BY <3>1, <2>2, <2>4 DEF LimboOnce
  <2> QED BY <2>2, <2>4, <2>5, Zenon
<1>5. InE(x) /\ InE(y) => x = y
  BY Zenon DEF SInv, OnceInv, EpochOnce
<1>6. InC(x) /\ InC(y) => x = y
  BY Zenon DEF SInv, OnceInv, CallOnce
<1>7. InF(x) /\ InF(y) => x = y
  BY Zenon
<1> HIDE DEF InF, InI, InL, InE, InC
<1>8. /\ r \in free => r \notin Indexed \union InLimbo \union InEpoch \union InCall
      /\ r \in Indexed => r \notin InLimbo \union InEpoch \union InCall
      /\ r \in InLimbo => r \notin InEpoch \union InCall
      /\ r \in InEpoch => r \notin InCall
  BY Zenon DEF SInv, ApartInv
<1> QED BY <1>1, <1>2, <1>3, <1>4, <1>5, <1>6, <1>7, <1>8, Zenon

(* When nothing leaks the invariant forbids a record without an owner. *)
LEMMA SomeOwner == SInv /\ NoLeak => NoLostRecord
<1> SUFFICES ASSUME SInv, NoLeak, Running, NEW r \in Record PROVE \E x : x \in Owners(r)
  BY Zenon DEF NoLostRecord
<1>1. mode = "open" /\ Unscanned = {}
  BY Zenon DEF Running, Unscanned
<1>2. r \in free \/ r \in busy \/ r \in InCall
  BY <1>1, Zenon DEF SInv, KeepInv
<1>3. r \in free \/ r \in Indexed \/ r \in InLimbo \/ r \in InEpoch \/ r \in InCall
  BY <1>1, <1>2, Zenon DEF SInv, KeepInv
<1>4. r \in InCall => \E t \in Thread : th[t].pc \notin {"idle", "read"} /\ th[t].rec = r
  BY CallFact, Zenon DEF Holding, Filling, Writing
<1>5. CASE r \in free
  <2>1. <<"free">> \in Owners(r)
    BY <1>5, OwnerFact, Zenon
  <2> QED BY <2>1, Zenon
<1>6. CASE r \in Indexed
  <2>1. PICK k \in Key : r \in index[k]
    BY <1>6, IndexedFact, Zenon
  <2>2. <<"index", k>> \in Owners(r)
    BY <2>1, OwnerFact, Zenon
  <2> QED BY <2>2, Zenon
<1>7. CASE r \in InLimbo
  <2>1. PICK t \in Thread : \E i \in DOMAIN limbo[t] : limbo[t][i] = r
    BY <1>7, LimboFact, Zenon
  <2>2. PICK i \in DOMAIN limbo[t] : limbo[t][i] = r
    BY <2>1, Zenon
  <2>3. <<"limbo", t, i>> \in Owners(r)
    BY <2>2, OwnerFact, Zenon
  <2> QED BY <2>3, Zenon
<1>8. CASE r \in InEpoch
  <2>1. PICK y \in retired : y.rec = r
    BY <1>8, EpochFact, Zenon
  <2>2. <<"epoch", y>> \in Owners(r)
    BY <2>1, OwnerFact, Zenon
  <2> QED BY <2>2, Zenon
<1>9. CASE r \in InCall
  <2>1. PICK t \in Thread : th[t].pc \notin {"idle", "read"} /\ th[t].rec = r
    BY <1>9, <1>4, Zenon
  <2>2. <<"call", t>> \in Owners(r)
    BY <2>1, OwnerFact, Zenon
  <2> QED BY <2>2, Zenon
<1> QED BY <1>3, <1>5, <1>6, <1>7, <1>8, <1>9, Zenon

(* In the open store no worker is left to raise the version table. *)
LEMMA Covered == SInv => VersionCovers
<1> SUFFICES ASSUME SInv, Running, NEW k \in Key, NEW r \in Found(k)
             PROVE  hdr[r].ver <= version[SlotOf[k]]
  BY Zenon DEF VersionCovers
<1>1. r \in index[k] /\ mode = "open"
  BY Zenon DEF Found, Running
<1>2. \A t \in Thread : th[t].pc \notin {"retire", "load", "cas"}
  BY <1>1, Zenon DEF SInv, ModeInv, Scanning
<1> QED BY <1>1, <1>2, Zenon DEF SInv, VerInv

-----------------------------------------------------------------------------
(***************************************************************************)
(* How records and threads change places.                                  *)
(***************************************************************************)

(* Taking the first record of a limbo list. *)
LEMMA LimboPop ==
    ASSUME limbo \in [Thread -> Seq(Record)], LimboOnce, NEW t \in Thread, limbo[t] # <<>>,
           limbo' = [limbo EXCEPT ![t] = Tail(@)]
    PROVE  /\ limbo' \in [Thread -> Seq(Record)] /\ LimboOnce'
           /\ Head(limbo[t]) \in InLimbo /\ Head(limbo[t]) \in Record
           /\ InLimbo' = InLimbo \ {Head(limbo[t])}
<1>1. /\ limbo[t] \in Seq(Record) /\ Len(limbo[t]) \in Nat \ {0}
      /\ Head(limbo[t]) = limbo[t][1] /\ 1 \in DOMAIN limbo[t]
      /\ DOMAIN limbo[t] = 1 .. Len(limbo[t])
  OBVIOUS
<1>2. /\ Tail(limbo[t]) \in Seq(Record) /\ DOMAIN Tail(limbo[t]) = 1 .. (Len(limbo[t]) - 1)
      /\ \A i \in DOMAIN Tail(limbo[t]) : Tail(limbo[t])[i] = limbo[t][i + 1]
  BY <1>1
<1>3. limbo' \in [Thread -> Seq(Record)] /\ limbo'[t] = Tail(limbo[t])
      /\ \A u \in Thread \ {t} : limbo'[u] = limbo[u]
  BY <1>2, Zenon
<1>4. ASSUME NEW u \in Thread, NEW i \in DOMAIN limbo'[u]
      PROVE  \E j \in DOMAIN limbo[u] : /\ limbo'[u][i] = limbo[u][j]
                                        /\ j = IF u = t THEN i + 1 ELSE i
  <2>1. CASE u # t
    BY <2>1, <1>3, <1>4, Zenon
  <2>2. CASE u = t
    <3>1. i \in 1 .. (Len(limbo[t]) - 1) /\ i + 1 \in DOMAIN limbo[t]
      BY <2>2, <1>1, <1>2, <1>3, <1>4
    <3> QED BY <3>1, <2>2, <1>2, <1>3, Zenon
  <2> QED BY <2>1, <2>2, Zenon
<1>5. LimboOnce'
  <2>1. ASSUME NEW u \in Thread, NEW v \in Thread, NEW i \in DOMAIN limbo'[u],
               NEW j \in DOMAIN limbo'[v], limbo'[u][i] = limbo'[v][j]
        PROVE  u = v /\ i = j
    <3>1. PICK a \in DOMAIN limbo[u] : limbo'[u][i] = limbo[u][a] /\ a = IF u = t THEN i + 1 ELSE i
      BY <1>4, Zenon
    <3>2. PICK b \in DOMAIN limbo[v] : limbo'[v][j] = limbo[v][b] /\ b = IF v = t THEN j + 1 ELSE j
      BY <1>4, Zenon
    <3>3. u = v /\ a = b
      BY <3>1, <3>2, <2>1 DEF LimboOnce
    <3>4. u = t => i \in Nat /\ j \in Nat
      BY <3>3, <1>2, <1>3, <1>1, <2>1
    <3> QED BY <3>1, <3>2, <3>3, <3>4
  <2> QED BY <2>1, Zenon DEF LimboOnce
<1>6. ASSUME NEW r PROVE r \in InLimbo' <=> r \in InLimbo \ {Head(limbo[t])}
  <2>1. ASSUME r \in InLimbo' PROVE r \in InLimbo \ {Head(limbo[t])}
    <3>0. PICK u \in Thread : \E i \in DOMAIN limbo'[u] : limbo'[u][i] = r
      BY <2>1, LimboFact, Zenon
    <3>1. PICK i \in DOMAIN limbo'[u] : limbo'[u][i] = r
      BY <3>0, Zenon
    <3>2. PICK a \in DOMAIN limbo[u] : r = limbo[u][a] /\ a = IF u = t THEN i + 1 ELSE i
      BY <3>1, <1>4
    <3>3. r \in InLimbo
      BY <3>2, LimboFact, Zenon
    <3>4. ASSUME r = Head(limbo[t]) PROVE FALSE
      <4>1. u = t /\ a = 1
        BY <3>2, <3>4, <1>1 DEF LimboOnce
      <4>2. i \in 1 .. (Len(limbo[t]) - 1)
        BY <4>1, <1>2, <1>3, Zenon
      <4> QED BY <4>1, <4>2, <3>2, <1>1
    <3> QED BY <3>3, <3>4, Zenon
  <2>2. ASSUME r \in InLimbo, r # Head(limbo[t]) PROVE r \in InLimbo'
    <3>0. PICK u \in Thread : \E i \in DOMAIN limbo[u] : limbo[u][i] = r
      BY <2>2, LimboFact, Zenon
    <3>1. PICK i \in DOMAIN limbo[u] : limbo[u][i] = r
      BY <3>0, Zenon
    <3>2. CASE u # t
      BY <3>1, <3>2, <1>3, LimboFact
    <3>3. CASE u = t
      <4>1. i - 1 \in DOMAIN Tail(limbo[t]) /\ Tail(limbo[t])[i - 1] = r
        BY <3>1, <3>3, <2>2, <1>1, <1>2
      <4> QED BY <4>1, <1>3, LimboFact
    <3> QED BY <3>2, <3>3, Zenon
  <2> QED BY <2>1, <2>2, Zenon
<1>7. InLimbo' = InLimbo \ {Head(limbo[t])}
  BY <1>6, Zenon
<1>8. Head(limbo[t]) \in InLimbo /\ Head(limbo[t]) \in Record
  BY <1>1, LimboFact
<1> QED BY <1>3, <1>5, <1>7, <1>8, Zenon

(* Appending a record to a limbo list. *)
LEMMA LimboPush ==
    ASSUME limbo \in [Thread -> Seq(Record)], LimboOnce, NEW t \in Thread,
           NEW r \in Record, r \notin InLimbo, limbo' = [limbo EXCEPT ![t] = Append(@, r)]
    PROVE  /\ limbo' \in [Thread -> Seq(Record)] /\ LimboOnce'
           /\ InLimbo' = InLimbo \union {r}
<1> DEFINE n == Len(limbo[t]) + 1
<1>1. /\ limbo[t] \in Seq(Record) /\ Len(limbo[t]) \in Nat
      /\ DOMAIN limbo[t] = 1 .. Len(limbo[t])
  OBVIOUS
<1>2. /\ limbo' \in [Thread -> Seq(Record)] /\ DOMAIN limbo'[t] = 1 .. n
      /\ \A i \in DOMAIN limbo[t] : i \in DOMAIN limbo'[t] /\ limbo'[t][i] = limbo[t][i]
      /\ limbo'[t][n] = r /\ n \in DOMAIN limbo'[t]
      /\ \A u \in Thread \ {t} : limbo'[u] = limbo[u]
  BY <1>1
<1>3. ASSUME NEW u \in Thread, NEW i \in DOMAIN limbo'[u]
      PROVE  \/ i \in DOMAIN limbo[u] /\ limbo'[u][i] = limbo[u][i] /\ limbo[u][i] # r
             \/ u = t /\ i = n /\ limbo'[u][i] = r
  <2>1. i \in DOMAIN limbo[u] \/ (u = t /\ i = n)
    BY <1>1, <1>2, <1>3
  <2>2. i \in DOMAIN limbo[u] => limbo'[u][i] = limbo[u][i] /\ limbo[u][i] # r
    BY <1>2, LimboFact
  <2> QED BY <2>1, <2>2, <1>2, Zenon
<1> HIDE DEF n
<1>4. LimboOnce'
  <2>1. ASSUME NEW u \in Thread, NEW v \in Thread, NEW i \in DOMAIN limbo'[u],
               NEW j \in DOMAIN limbo'[v], limbo'[u][i] = limbo'[v][j]
        PROVE  u = v /\ i = j
    BY <1>3, <2>1 DEF LimboOnce
  <2> QED BY <2>1, Zenon DEF LimboOnce
<1>5. ASSUME NEW s PROVE s \in InLimbo' <=> s \in InLimbo \union {r}
  <2>1. ASSUME s \in InLimbo' PROVE s \in InLimbo \union {r}
    <3>1. PICK u \in Thread : \E i \in DOMAIN limbo'[u] : limbo'[u][i] = s
      BY <2>1, LimboFact, Zenon
    <3>2. PICK i \in DOMAIN limbo'[u] : limbo'[u][i] = s
      BY <3>1, Zenon
    <3>3. (i \in DOMAIN limbo[u] /\ limbo[u][i] = s) \/ s = r
      BY <3>2, <1>3, Zenon
    <3>4. ASSUME s # r PROVE s \in InLimbo
      <4>1. i \in DOMAIN limbo[u] /\ limbo[u][i] = s
        BY <3>3, <3>4, Zenon
      <4> QED BY <4>1, LimboFact, Zenon
    <3> QED BY <3>4, Zenon
  <2>2. s \in InLimbo => s \in InLimbo'
    BY <1>2, LimboFact
  <2>3. r \in InLimbo'
    BY <1>2, LimboFact
  <2> QED BY <2>1, <2>2, <2>3, Zenon
<1>6. InLimbo' = InLimbo \union {r}
  BY <1>5, Zenon
<1> QED BY <1>2, <1>4, <1>6, Zenon

(* ThreadLimbo::release keeps the record or gives it to the allocator. *)
LEMMA LimboGive ==
    ASSUME limbo \in [Thread -> Seq(Record)], LimboOnce, NEW t \in Thread,
           NEW r \in Record, r \notin InLimbo, LimboRelease(t, r)
    PROVE  /\ limbo' \in [Thread -> Seq(Record)] /\ LimboOnce'
           /\ MaxLimbo = 0 => limbo' = limbo
           /\ \/ InLimbo' = InLimbo \union {r} /\ busy' = busy /\ free' = free
              \/ InLimbo' = InLimbo /\ busy' = busy \ {r} /\ free' = free \union {r}
<1>1. Len(limbo[t]) \in Nat
  OBVIOUS
<1>2. CASE Len(limbo[t]) < MaxLimbo
  <2>1. limbo' = [limbo EXCEPT ![t] = Append(@, r)] /\ busy' = busy /\ free' = free
    BY <1>2, Zenon DEF LimboRelease
  <2>2. limbo' \in [Thread -> Seq(Record)] /\ LimboOnce' /\ InLimbo' = InLimbo \union {r}
    BY <2>1, LimboPush, Zenon
  <2>3. MaxLimbo # 0
    BY <1>1, <1>2
  <2> QED BY <2>1, <2>2, <2>3, Zenon
<1>3. CASE ~(Len(limbo[t]) < MaxLimbo)
  <2>1. limbo' = limbo /\ busy' = busy \ {r} /\ free' = free \union {r}
    BY <1>3, Zenon DEF LimboRelease, SlabRelease
  <2>2. LimboOnce' /\ InLimbo' = InLimbo
    BY <2>1 DEF LimboOnce, InLimbo, Limboed
  <2> QED BY <2>1, <2>2, Zenon
<1> QED BY <1>2, <1>3, Zenon

(* A closure that has run is gone, and with it the record. *)
LEMMA EpochRun ==
    ASSUME EpochOnce, NEW x \in retired, retired' = retired \ {x}
    PROVE  /\ EpochOnce' /\ InEpoch' = InEpoch \ {x.rec} /\ x.rec \in InEpoch
<1>1. EpochOnce' /\ x.rec \in InEpoch
  BY EpochFact, Zenon DEF EpochOnce
<1>2. \A s : s \in InEpoch' <=> s \in InEpoch \ {x.rec}
  BY EpochFact, Zenon DEF EpochOnce
<1> QED BY <1>1, <1>2, Zenon

(* A thread that starts to hold a record. *)
LEMMA Enter ==
    ASSUME th \in [Thread -> Call], CallOnce, NEW t \in Thread, th[t].pc \notin Holding,
           NEW c \in Call, c.pc \in Holding, c.rec \notin InCall, th' = [th EXCEPT ![t] = c]
    PROVE  /\ th' \in [Thread -> Call] /\ CallOnce' /\ InCall' = InCall \union {c.rec}
           /\ th'[t] = c /\ \A u \in Thread \ {t} : th'[u] = th[u]
<1>1. /\ th' \in [Thread -> Call] /\ th'[t] = c /\ \A u \in Thread \ {t} : th'[u] = th[u]
  BY Zenon
<1>2. \A u \in Thread \ {t} : th[u].pc \in Holding => th[u].rec # c.rec
  BY CallFact, Zenon
<1>3. CallOnce'
  BY <1>1, <1>2 DEF CallOnce
<1>4. \A s : s \in InCall' <=> s \in InCall \union {c.rec}
  BY <1>1, CallFact
<1> QED BY <1>1, <1>3, <1>4, Zenon

(* A thread that no longer holds its record. *)
LEMMA Leave ==
    ASSUME th \in [Thread -> Call], CallOnce, NEW t \in Thread, th[t].pc \in Holding,
           NEW c \in Call, c.pc \notin Holding, th' = [th EXCEPT ![t] = c]
    PROVE  /\ th' \in [Thread -> Call] /\ CallOnce' /\ InCall' = InCall \ {th[t].rec}
           /\ th'[t] = c /\ \A u \in Thread \ {t} : th'[u] = th[u]
<1>1. /\ th' \in [Thread -> Call] /\ th'[t] = c /\ \A u \in Thread \ {t} : th'[u] = th[u]
  BY Zenon
<1>2. CallOnce'
  BY <1>1 DEF CallOnce
<1>3. \A s : s \in InCall' <=> s \in InCall \ {th[t].rec}
  BY <1>1, CallFact DEF CallOnce
<1> QED BY <1>1, <1>2, <1>3, Zenon

(* A thread that held no record and holds none. *)
LEMMA Aside ==
    ASSUME th \in [Thread -> Call], CallOnce, NEW t \in Thread, th[t].pc \notin Holding,
           NEW c \in Call, c.pc \notin Holding, th' = [th EXCEPT ![t] = c]
    PROVE  /\ th' \in [Thread -> Call] /\ CallOnce' /\ InCall' = InCall
           /\ th'[t] = c /\ \A u \in Thread \ {t} : th'[u] = th[u]
<1>1. /\ th' \in [Thread -> Call] /\ th'[t] = c /\ \A u \in Thread \ {t} : th'[u] = th[u]
  BY Zenon
<1>2. CallOnce'
  BY <1>1 DEF CallOnce
<1>3. \A s : s \in InCall' <=> s \in InCall
  BY <1>1, CallFact
<1> QED BY <1>1, <1>2, <1>3, Zenon

(* The index finds the record of a key, and no other. *)
LEMMA FoundFact ==
    ASSUME IndexInv, NEW k \in Key
    PROVE  Found(k) = index[k]
  BY ZenonT(30) DEF Found, IndexInv

(* Putting a record into the slot of its key, where there was none.        *)
LEMMA IndexAdd ==
    ASSUME index \in [Key -> SUBSET Record], IndexOnce, NEW k \in Key, NEW r \in Record,
           r \notin Indexed, index' = [index EXCEPT ![k] = @ \union {r}]
    PROVE  /\ index' \in [Key -> SUBSET Record] /\ IndexOnce' /\ Indexed' = Indexed \union {r}
           /\ index'[k] = index[k] \union {r} /\ \A l \in Key \ {k} : index'[l] = index[l]
<1>1. /\ index' \in [Key -> SUBSET Record] /\ index'[k] = index[k] \union {r}
      /\ \A l \in Key \ {k} : index'[l] = index[l]
  BY Zenon
<1>2. \A l \in Key : r \notin index[l]
  BY IndexedFact, Zenon
<1>3. IndexOnce'
  BY <1>1, <1>2 DEF IndexOnce
<1>4. \A s : s \in Indexed' <=> s \in Indexed \union {r}
  BY <1>1, IndexedFact, Zenon
<1> QED BY <1>1, <1>3, <1>4, Zenon

(* Putting a record into the slot of its key, in the place of another.     *)
LEMMA IndexSwing ==
    ASSUME index \in [Key -> SUBSET Record], IndexOnce, NEW k \in Key, NEW r \in Record,
           r \notin Indexed, NEW old \in index[k],
           index' = [index EXCEPT ![k] = (@ \ {old}) \union {r}]
    PROVE  /\ index' \in [Key -> SUBSET Record] /\ IndexOnce'
           /\ Indexed' = (Indexed \ {old}) \union {r} /\ old \in Indexed /\ old # r
           /\ index'[k] = (index[k] \ {old}) \union {r}
           /\ \A l \in Key \ {k} : index'[l] = index[l]
<1>1. /\ index' \in [Key -> SUBSET Record] /\ index'[k] = (index[k] \ {old}) \union {r}
      /\ \A l \in Key \ {k} : index'[l] = index[l]
  BY Zenon
<1>2. /\ \A l \in Key : r \notin index[l]
      /\ old \in Indexed /\ old # r
  BY IndexedFact, Zenon
<1>3. IndexOnce'
  BY <1>1, <1>2 DEF IndexOnce
<1>4. \A s : s \in Indexed' <=> s \in (Indexed \ {old}) \union {r}
  BY <1>1, IndexedFact DEF IndexOnce
<1> QED BY <1>1, <1>2, <1>3, <1>4, Zenon
-----------------------------------------------------------------------------
(***************************************************************************)
(* Crash and recovery, close and reboot: no call is running.               *)
(***************************************************************************)

(* No thread is inside of a call of a client. *)
NoCall == \A t \in Thread : th[t].pc \notin Writing \union {"read"}

(* A step of recovery or of close. *)
CalmStep ==
    /\ NoCall /\ NoCall' /\ issued' = issued /\ busy' \subseteq busy
    /\ hdr' = hdr /\ body' = body /\ phdr' = phdr /\ pbody' = pbody

(* No client is in the store while it recovers or closes. *)
LEMMA NoCallFact ==
    ASSUME SInv, mode # "open" \/ Active = {}
    PROVE  NoCall /\ (mode # "recover" => \A t \in Thread : th[t].pc \notin Holding)
<1>1. CASE mode # "open"
  BY <1>1, Zenon DEF SInv, ModeInv, NoCall, Holding, Filling, Scanning
<1>2. CASE Active = {}
  BY <1>2, Zenon DEF Active, NoCall, Holding, Filling, Writing
<1> QED BY <1>1, <1>2, Zenon

(* It keeps what the invariant says about lines, calls and readers. *)
LEMMA CalmLines ==
    ASSUME SInv, CalmStep
    PROVE  /\ Thread \subseteq Agreeing' /\ CleanInv' /\ NoTornRecord' /\ ReadInv'
           /\ \A r \in Record : phdr[r] = hdr[r] /\ pbody[r] = body[r]
<1>1. /\ NoCall /\ NoCall' /\ issued' = issued /\ busy' \subseteq busy
      /\ hdr' = hdr /\ body' = body /\ phdr' = phdr /\ pbody' = pbody
  BY Zenon DEF CalmStep
<1>2. Thread \subseteq Agreeing'
  BY <1>1, AgreeIdle, Zenon DEF NoCall
<1>3. \A r \in Record : r \in Clean
  <2>1. \A t \in Thread : th[t].pc \notin Dirtying
    BY <1>1, Zenon DEF NoCall, Dirtying, Writing
  <2> QED BY <2>1, Zenon DEF SInv, CleanInv
<1>4. Clean' = Clean
  BY <1>1, Zenon DEF Clean
<1>5. CleanInv' /\ \A r \in Record : phdr[r] = hdr[r] /\ pbody[r] = body[r]
  BY <1>3, <1>4, Zenon DEF CleanInv, Clean
<1>6. NoTornRecord'
  BY <1>1, Zenon DEF SInv, NoTornRecord, Surviving, Durable
<1>7. ReadInv'
  BY <1>1, Zenon DEF ReadInv, NoCall
<1> QED BY <1>2, <1>5, <1>6, <1>7, Zenon

(* A step that moves no thread and touches neither the index nor the       *)
(* version table.                                                          *)
LEMMA StillStep ==
    ASSUME SInv, th' = th, index' = index, version' = version, hdr' = hdr, busy' \subseteq busy
    PROVE  /\ CallOnce' /\ IndexOnce' /\ IndexInv' /\ VerInv'
           /\ Indexed' = Indexed /\ InCall' = InCall /\ (NoCall => NoCall')
  BY SOnce, SIndex, SVer, SMTT(30)
    DEF OnceInv, CallOnce, IndexOnce, IndexInv, VerInv, Indexed, InCall, NoCall

(* The limbo lists stay as they are. *)
LEMMA SameLimbo ==
    ASSUME SInv, limbo' = limbo
    PROVE  LimboOnce' /\ InLimbo' = InLimbo
  BY SOnce, SMTT(30) DEF OnceInv, LimboOnce, InLimbo, Limboed

(* The closures stay as they are. *)
LEMMA SameEpoch ==
    ASSUME SInv, retired' = retired
    PROVE  EpochOnce' /\ InEpoch' = InEpoch
  BY Zenon DEF SInv, OnceInv, EpochOnce, InEpoch

(* A crash keeps the invariant: every hired token is a record to scan, and *)
(* the lines are what the medium has.                                      *)
LEMMA CrashStep ==
    ASSUME SInv, Crash
    PROVE  SInv'
<1>1. /\ mode' = "recover" /\ hdr' = phdr /\ body' = pbody /\ phdr' = phdr /\ pbody' = pbody
      /\ index' = [k \in Key |-> {}] /\ version' = [s \in Slot |-> 0]
      /\ limbo' = [t \in Thread |-> <<>>] /\ retired' = {} /\ tomb' = 0 /\ free' = {}
      /\ th' = [t \in Thread |-> IdleCall] /\ todo' = busy /\ recovered' = TRUE
      /\ busy' = busy /\ issued' = issued /\ acked' = acked
  BY Zenon DEF Crash
<1>2. \A t \in Thread : /\ th'[t] = IdleCall /\ th'[t].pc = "idle" /\ th'[t].pc \notin Holding
                        /\ limbo'[t] = <<>> /\ DOMAIN limbo'[t] = {}
  BY <1>1, IdleFact
<1>3. \A k \in Key : index'[k] = {}
  BY <1>1, Zenon
<1>4. TypeOK'
  <2>1. /\ th' \in [Thread -> Call] /\ limbo' \in [Thread -> Seq(Record)]
        /\ index' \in [Key -> SUBSET Record] /\ version' \in [Slot -> Nat]
    BY <1>1, IdleFact
  <2> QED BY <2>1, <1>1, Zenon DEF SInv, TypeOK, Mode
<1>5. /\ Indexed' = {} /\ InLimbo' = {} /\ InEpoch' = {} /\ InCall' = {} /\ Unscanned' = busy
  <2>1. Indexed' = {} /\ InEpoch' = {}
    BY <1>1, <1>3, IndexedFact, EpochFact, Zenon
  <2>2. InLimbo' = {} /\ InCall' = {}
    BY <1>2, LimboFact, CallFact, Zenon
  <2> QED BY <2>1, <2>2, <1>1, Zenon DEF Unscanned
<1>6. OnceInv'
  BY <1>1, <1>2, <1>3, Zenon DEF OnceInv, CallOnce, IndexOnce, LimboOnce, EpochOnce
<1>7. ApartInv' /\ BusyInv'
  BY <1>1, <1>2, <1>5, Zenon DEF SInv, TypeOK, ApartInv, BusyInv
<1>8. ModeInv'
  BY <1>1, <1>2, Zenon DEF ModeInv, Writing, Scanning
<1>9. Thread \subseteq Agreeing'
  BY <1>2, AgreeIdle, Zenon DEF Writing
<1>10. CleanInv'
  BY <1>1, Zenon DEF CleanInv, Clean
<1>11. NoTornRecord'
  BY <1>1, Zenon DEF SInv, NoTornRecord, Surviving, Durable
<1>12. IndexInv' /\ ReadInv'
  BY <1>2, <1>3, Zenon DEF IndexInv, ReadInv
<1>13. KeepInv'
  BY <1>1, <1>2, <1>5, Zenon DEF KeepInv, OlderReleased
<1>14. VerInv'
  BY <1>2, <1>3, Zenon DEF VerInv, Writing
<1> QED
  BY <1>4, <1>6, <1>7, <1>8, <1>9, <1>10, <1>11, <1>12, <1>13, <1>14, Zenon DEF SInv

(* The start of the destructor, and the end of its first part. *)
LEMMA CloseBeginStep ==
    ASSUME SInv, CloseBegin \/ CloseLimboDone
    PROVE  SInv'
<1>1. /\ mode \in {"open", "closing"} /\ mode' \in {"closing", "clearing"}
      /\ mode # "open" \/ (Active = {} /\ "close" \in Faults)
      /\ hdr' = hdr /\ body' = body /\ phdr' = phdr /\ pbody' = pbody
      /\ busy' = busy /\ free' = free /\ index' = index /\ version' = version
      /\ limbo' = limbo /\ retired' = retired /\ tomb' = tomb /\ issued' = issued
      /\ acked' = acked /\ recovered' = recovered /\ th' = th /\ todo' = todo
  <2>1. CASE CloseBegin
    BY <2>1, Zenon DEF CloseBegin, Running, lines, volatile, ghosts
  <2>2. CASE CloseLimboDone
    BY <2>2, Zenon DEF CloseLimboDone, lines, volatile, ghosts
  <2> QED BY <2>1, <2>2, Zenon
<1>2. "close" \in Faults /\ todo = {}
  BY <1>1, Zenon DEF SInv, ModeInv
<1>3. NoCall /\ \A t \in Thread : th[t].pc \notin Holding
  BY <1>1, NoCallFact, Zenon
<1>4. /\ CallOnce' /\ IndexOnce' /\ IndexInv' /\ VerInv'
      /\ Indexed' = Indexed /\ InCall' = InCall /\ NoCall'
  BY <1>1, <1>3, StillStep, Zenon
<1>5. LimboOnce' /\ InLimbo' = InLimbo /\ EpochOnce' /\ InEpoch' = InEpoch
  BY <1>1, SameLimbo, SameEpoch, Zenon
<1>6. Unscanned' = {} /\ Unscanned = {}
  BY <1>1, Zenon DEF Unscanned
<1>7. TypeOK'
  BY <1>1, Zenon DEF SInv, TypeOK, Mode
<1>8. OnceInv' /\ ApartInv' /\ BusyInv'
  BY <1>1, <1>4, <1>5, <1>6, Zenon DEF SInv, OnceInv, ApartInv, BusyInv
<1>9. ModeInv'
  BY <1>1, <1>2, <1>3, Zenon DEF ModeInv, NoCall, Holding, Filling, Scanning, SInv
<1>10. Thread \subseteq Agreeing' /\ CleanInv' /\ NoTornRecord' /\ ReadInv'
  BY <1>1, <1>3, <1>4, CalmLines, Zenon DEF CalmStep
<1>11. KeepInv'
  BY <1>1, <1>4, <1>5, <1>6, Zenon DEF SInv, KeepInv, OlderReleased
<1> QED BY <1>4, <1>7, <1>8, <1>9, <1>10, <1>11, Zenon DEF SInv

(* Releasing the records of the limbo lists keeps the invariant. *)
LEMMA CloseLimboStep ==
    ASSUME SInv, NEW t \in Thread, CloseLimbo(t)
    PROVE  SInv'
<1> DEFINE r == Head(limbo[t])
<1>1. /\ mode = "closing" /\ mode' = mode /\ limbo[t] # <<>>
      /\ limbo' = [limbo EXCEPT ![t] = Tail(@)] /\ busy' = busy \ {r} /\ free' = free \union {r}
      /\ hdr' = hdr /\ body' = body /\ phdr' = phdr /\ pbody' = pbody
      /\ index' = index /\ version' = version /\ retired' = retired /\ tomb' = tomb
      /\ issued' = issued /\ acked' = acked /\ recovered' = recovered /\ th' = th /\ todo' = todo
  BY Zenon DEF CloseLimbo, SlabRelease, lines, ghosts
<1>2. NoCall /\ \A u \in Thread : th[u].pc \notin Holding
  BY <1>1, NoCallFact, Zenon
<1>3. /\ CallOnce' /\ IndexOnce' /\ IndexInv' /\ VerInv'
      /\ Indexed' = Indexed /\ InCall' = InCall /\ NoCall'
  BY <1>1, <1>2, StillStep, Zenon
<1>4. EpochOnce' /\ InEpoch' = InEpoch /\ Unscanned' = Unscanned
  BY <1>1, SameEpoch, Zenon DEF Unscanned
<1>5. /\ limbo' \in [Thread -> Seq(Record)] /\ LimboOnce' /\ r \in InLimbo /\ r \in Record
      /\ InLimbo' = InLimbo \ {r}
  BY <1>1, LimboPop, Zenon DEF SInv, TypeOK, OnceInv
<1> HIDE DEF r
<1>6. TypeOK'
  BY <1>1, <1>5, Zenon DEF SInv, TypeOK
<1>7. /\ r \notin Indexed /\ r \notin InEpoch /\ r \notin InCall /\ r \notin Unscanned
      /\ r \in busy
  BY <1>5, Zenon DEF SInv, ApartInv
<1>8. OnceInv' /\ ApartInv'
  BY <1>1, <1>3, <1>4, <1>5, <1>7, ZenonT(30) DEF SInv, OnceInv, ApartInv
<1>9. BusyInv' /\ ModeInv'
  BY <1>1, <1>2, <1>3, Zenon DEF SInv, BusyInv, ModeInv
<1>10. Thread \subseteq Agreeing' /\ CleanInv' /\ NoTornRecord' /\ ReadInv'
  BY <1>1, <1>2, <1>3, CalmLines, Zenon DEF CalmStep
<1>11. KeepInv'
  <2>1. MaxLimbo # 0
    BY <1>1, Zenon DEF SInv, KeepInv
  <2> QED BY <2>1, <1>1, <1>3, <1>4, <1>5, <1>7, Zenon DEF SInv, KeepInv, OlderReleased
<1> QED BY <1>3, <1>6, <1>8, <1>9, <1>10, <1>11, Zenon DEF SInv

(* The thread that runs the destructor is one of them. *)
LEMMA CloserFact == Closer \in Thread
  BY ThreadAssumption, Zenon DEF Closer

(* Clearing the epoch keeps the invariant. *)
LEMMA EpochClearStep ==
    ASSUME SInv, NEW x \in retired, EpochClear(x)
    PROVE  SInv'
<1>1. /\ mode = "clearing" /\ mode' = mode /\ retired' = retired \ {x}
      /\ hdr' = hdr /\ body' = body /\ phdr' = phdr /\ pbody' = pbody
      /\ index' = index /\ version' = version /\ tomb' = tomb
      /\ issued' = issued /\ acked' = acked /\ recovered' = recovered /\ th' = th /\ todo' = todo
      /\ \/ LimboRelease(Closer, x.rec)
         \/ busy' = busy \ {x.rec} /\ free' = free \union {x.rec} /\ limbo' = limbo
  BY Zenon DEF EpochClear, SlabRelease, lines, ghosts
<1>2. NoCall /\ \A u \in Thread : th[u].pc \notin Holding
  BY <1>1, NoCallFact, Zenon
<1>3. /\ EpochOnce' /\ InEpoch' = InEpoch \ {x.rec} /\ x.rec \in InEpoch
  BY <1>1, EpochRun, Zenon DEF SInv, OnceInv
<1>4. /\ x.rec \in Record /\ x.rec \notin InLimbo /\ x.rec \notin Indexed /\ x.rec \notin InCall
      /\ x.rec \notin Unscanned /\ x.rec \in busy
  BY <1>3, Zenon DEF SInv, ApartInv, TypeOK
<1>5. /\ limbo' \in [Thread -> Seq(Record)] /\ LimboOnce' /\ (MaxLimbo = 0 => limbo' = limbo)
      /\ \/ InLimbo' = InLimbo \union {x.rec} /\ busy' = busy /\ free' = free
         \/ InLimbo' = InLimbo /\ busy' = busy \ {x.rec} /\ free' = free \union {x.rec}
  <2>1. CASE LimboRelease(Closer, x.rec)
    BY <2>1, <1>4, LimboGive, CloserFact, Zenon DEF SInv, TypeOK, OnceInv
  <2>2. CASE busy' = busy \ {x.rec} /\ free' = free \union {x.rec} /\ limbo' = limbo
    BY <2>2, SameLimbo, Zenon DEF SInv, TypeOK
  <2> QED BY <2>1, <2>2, <1>1, Zenon
<1>6. busy' \subseteq busy /\ Unscanned' = Unscanned
  BY <1>1, <1>5, Zenon DEF Unscanned
<1>7. /\ CallOnce' /\ IndexOnce' /\ IndexInv' /\ VerInv'
      /\ Indexed' = Indexed /\ InCall' = InCall /\ NoCall'
  BY <1>1, <1>2, <1>6, StillStep, Zenon
<1>8. TypeOK'
  BY <1>1, <1>4, <1>5, Zenon DEF SInv, TypeOK
<1>9. OnceInv' /\ ApartInv'
  BY <1>3, <1>4, <1>5, <1>6, <1>7, SOnce, SApart, SMTT(30) DEF OnceInv, ApartInv
<1>10. BusyInv' /\ ModeInv'
  BY <1>1, <1>2, <1>7, Zenon DEF SInv, BusyInv, ModeInv
<1>11. Thread \subseteq Agreeing' /\ CleanInv' /\ NoTornRecord' /\ ReadInv'
  BY <1>1, <1>2, <1>6, <1>7, CalmLines, Zenon DEF CalmStep
<1>12. KeepInv'
  BY <1>1, <1>3, <1>4, <1>5, <1>6, <1>7, Zenon DEF SInv, KeepInv, OlderReleased
<1> QED BY <1>7, <1>8, <1>9, <1>10, <1>11, <1>12, Zenon DEF SInv

(* The choice of the tombstones to reclaim keeps the invariant: with every *)
(* closure run and no limbo, a hired token is that of an indexed record.   *)
LEMMA EpochClearDoneStep ==
    ASSUME SInv, EpochClearDone
    PROVE  SInv'
<1>1. /\ mode = "clearing" /\ mode' = "unload" /\ retired = {} /\ retired' = retired
      /\ hdr' = hdr /\ body' = body /\ phdr' = phdr /\ pbody' = pbody
      /\ busy' = busy /\ free' = free /\ index' = index /\ version' = version
      /\ limbo' = limbo /\ issued' = issued /\ acked' = acked /\ recovered' = recovered
      /\ th' = th
      /\ \/ todo' = {r \in UNION {index[k] : k \in Key} : hdr[r].tomb} /\ tomb' = 0
         \/ todo' = todo /\ tomb' = tomb
  BY Zenon DEF EpochClearDone, lines, ghosts
<1>2. NoCall /\ \A u \in Thread : th[u].pc \notin Holding
  BY <1>1, NoCallFact, Zenon
<1>3. /\ CallOnce' /\ IndexOnce' /\ IndexInv' /\ VerInv'
      /\ Indexed' = Indexed /\ InCall' = InCall /\ NoCall'
  BY <1>1, <1>2, StillStep, Zenon
<1>4. LimboOnce' /\ InLimbo' = InLimbo /\ EpochOnce' /\ InEpoch' = InEpoch
  BY <1>1, SameLimbo, SameEpoch, Zenon
<1>5. Unscanned' = {} /\ Unscanned = {} /\ todo = {} /\ "close" \in Faults
  BY <1>1, Zenon DEF Unscanned, SInv, ModeInv
<1>6. todo' \subseteq Indexed /\ \A r \in todo' : hdr[r].tomb
  BY <1>1, <1>5, Zenon DEF Indexed
<1>7. TypeOK'
  <2>1. todo' \subseteq Record
    BY <1>6, Zenon DEF SInv, ApartInv, TypeOK
  <2> QED BY <2>1, <1>1, SType, SMTT(30) DEF TypeOK, Mode
<1>8. OnceInv' /\ ApartInv' /\ BusyInv'
  BY <1>1, <1>3, <1>4, <1>5, Zenon DEF SInv, OnceInv, ApartInv, BusyInv
<1>9. ModeInv'
  <2>1. \A u \in Thread : /\ th'[u].pc \notin Writing \union {"read"}
                          /\ th'[u].pc \notin Scanning
                          /\ th'[u].pc \in {"acquire", "load", "cas"} => th'[u].rec = None
    BY <1>1, <1>2, Zenon DEF SInv, ModeInv, NoCall
  <2> QED BY <2>1, <1>1, <1>3, <1>5, <1>6, Zenon DEF ModeInv
<1>10. Thread \subseteq Agreeing' /\ CleanInv' /\ NoTornRecord' /\ ReadInv'
  BY <1>1, <1>2, <1>3, CalmLines, Zenon DEF CalmStep
<1>11. NoLeak => OlderReleased'
  <2>1. ASSUME NoLeak PROVE busy \subseteq Indexed
    <3>1. \A t \in Thread : limbo[t] = <<>>
      BY <2>1, <1>5, Zenon DEF SInv, KeepInv, NoLeak
    <3>2. \A t \in Thread : DOMAIN limbo[t] = {}
      BY <3>1
    <3>3. InLimbo = {} /\ InCall = {} /\ InEpoch = {}
      BY <3>2, <1>1, <1>2, LimboFact, CallFact, EpochFact, Zenon
    <3> QED BY <3>3, <2>1, <1>5, Zenon DEF SInv, KeepInv
  <2>2. Indexed \subseteq busy
    BY Zenon DEF SInv, ApartInv
  <2>3. NoLeak => busy' = UNION {index'[k] : k \in Key}
    BY <2>1, <2>2, <1>1, <1>3, Zenon DEF Indexed
  <2> QED BY <2>3, Zenon DEF OlderReleased
<1>12. KeepInv'
  BY <1>1, <1>3, <1>4, <1>5, <1>11, Zenon DEF SInv, KeepInv, NoLeak
<1> QED BY <1>3, <1>7, <1>8, <1>9, <1>10, <1>12, Zenon DEF SInv

(* Reclaiming a tombstone keeps the invariant. *)
LEMMA UnloadTombstoneStep ==
    ASSUME SInv, NEW r \in Record, UnloadTombstone(r)
    PROVE  SInv'
<1>1. /\ mode = "unload" /\ mode' = mode /\ r \in todo /\ todo' = todo \ {r}
      /\ index' = [k \in Key |-> index[k] \ {r}] /\ busy' = busy \ {r} /\ free' = free \union {r}
      /\ hdr' = hdr /\ body' = body /\ phdr' = phdr /\ pbody' = pbody
      /\ version' = version /\ limbo' = limbo /\ retired' = retired /\ tomb' = tomb
      /\ issued' = issued /\ acked' = acked /\ recovered' = recovered /\ th' = th
  BY Zenon DEF UnloadTombstone, SlabRelease, lines, ghosts
<1>2. NoCall /\ \A u \in Thread : th[u].pc \notin Holding
  BY <1>1, NoCallFact, Zenon
<1>3. /\ todo \subseteq Indexed /\ (\A s \in todo : hdr[s].tomb) /\ r \in Indexed /\ r \in busy
      /\ r \notin InLimbo /\ r \notin InEpoch /\ r \notin InCall
  BY <1>1, Zenon DEF SInv, ModeInv, ApartInv
<1>4. /\ \A k \in Key : index'[k] = index[k] \ {r}
      /\ index' \in [Key -> SUBSET Record]
  BY <1>1, Zenon DEF SInv, TypeOK
<1>5. Indexed' = Indexed \ {r}
  <2>1. \A s : s \in Indexed' <=> s \in Indexed \ {r}
    BY <1>4, IndexedFact
  <2> QED BY <2>1, Zenon
<1>6. LimboOnce' /\ InLimbo' = InLimbo /\ EpochOnce' /\ InEpoch' = InEpoch
  BY <1>1, SameLimbo, SameEpoch, Zenon
<1>7. Unscanned' = {} /\ Unscanned = {} /\ InCall' = InCall /\ CallOnce' /\ NoCall'
  BY <1>1, <1>2, Zenon DEF Unscanned, InCall, SInv, OnceInv, CallOnce, NoCall
<1>8. IndexOnce' /\ IndexInv' /\ VerInv'
  BY <1>1, <1>4, SOnce, SIndex, SVer, SMTT(30) DEF OnceInv, IndexOnce, IndexInv, VerInv
<1>9. TypeOK'
  BY <1>1, <1>4, Zenon DEF SInv, TypeOK
<1>10. OnceInv' /\ ApartInv' /\ BusyInv'
  BY <1>1, <1>2, <1>3, <1>5, <1>6, <1>7, <1>8, ZenonT(30) DEF SInv, OnceInv, ApartInv, BusyInv
<1>11. ModeInv'
  <2>1. \A u \in Thread : th'[u].pc \notin Writing \union {"read"} /\ th'[u].pc \notin Scanning
    BY <1>1, <1>2, Zenon DEF SInv, ModeInv, NoCall
  <2> QED BY <2>1, <1>1, <1>3, <1>5, Zenon DEF SInv, ModeInv
<1>12. Thread \subseteq Agreeing' /\ CleanInv' /\ NoTornRecord' /\ ReadInv'
  BY <1>1, <1>2, <1>7, CalmLines, Zenon DEF CalmStep
<1>13. KeepInv'
  <2>1. OlderReleased => busy = Indexed
    BY <1>1, Zenon DEF OlderReleased, Indexed
  <2>2. OlderReleased => busy' = UNION {index'[k] : k \in Key}
    BY <2>1, <1>1, <1>5, Zenon DEF Indexed
  <2>3. OlderReleased => OlderReleased'
    BY <2>2, Zenon DEF OlderReleased
  <2> QED BY <2>3, <1>1, <1>5, <1>6, <1>7, Zenon DEF SInv, KeepInv
<1> QED BY <1>8, <1>9, <1>10, <1>11, <1>12, <1>13, Zenon DEF SInv

(* The end of the destructor keeps the invariant: the lists that are lost  *)
(* with the process are empty, or records leak.                            *)
LEMMA CloseDoneStep ==
    ASSUME SInv, CloseDone
    PROVE  SInv'
<1>1. /\ mode = "unload" /\ mode' = "closed" /\ todo = {} /\ todo' = todo
      /\ limbo' = [t \in Thread |-> <<>>] /\ busy' = busy /\ free' = free
      /\ hdr' = hdr /\ body' = body /\ phdr' = phdr /\ pbody' = pbody
      /\ index' = index /\ version' = version /\ retired' = retired /\ tomb' = tomb
      /\ issued' = issued /\ acked' = acked /\ recovered' = recovered /\ th' = th
  BY Zenon DEF CloseDone, lines, ghosts
<1>2. NoCall /\ \A u \in Thread : th[u].pc \notin Holding
  BY <1>1, NoCallFact, Zenon
<1>3. /\ CallOnce' /\ IndexOnce' /\ IndexInv' /\ VerInv'
      /\ Indexed' = Indexed /\ InCall' = InCall /\ NoCall'
  BY <1>1, <1>2, StillStep, Zenon
<1>4. EpochOnce' /\ InEpoch' = InEpoch
  BY <1>1, SameEpoch, Zenon
<1>5. \A t \in Thread : limbo'[t] = <<>> /\ DOMAIN limbo'[t] = {}
  BY <1>1
<1>6. InLimbo' = {} /\ LimboOnce' /\ limbo' \in [Thread -> Seq(Record)]
  BY <1>1, <1>5, LimboFact DEF LimboOnce
<1>7. Unscanned' = {} /\ Unscanned = {} /\ "close" \in Faults /\ retired = {}
  BY <1>1, Zenon DEF Unscanned, SInv, ModeInv
<1>8. TypeOK'
  BY <1>1, <1>6, Zenon DEF SInv, TypeOK, Mode
<1>9. OnceInv' /\ ApartInv' /\ BusyInv'
  BY <1>1, <1>3, <1>4, <1>6, <1>7, ZenonT(30) DEF SInv, OnceInv, ApartInv, BusyInv
<1>10. ModeInv'
  <2>1. \A u \in Thread : /\ th'[u].pc \notin Writing \union {"read"}
                          /\ th'[u].pc \notin Scanning
                          /\ th'[u].pc \in {"acquire", "load", "cas"} => th'[u].rec = None
    BY <1>1, <1>2, Zenon DEF SInv, ModeInv, NoCall
  <2> QED BY <2>1, <1>1, <1>7, Zenon DEF ModeInv
<1>11. Thread \subseteq Agreeing' /\ CleanInv' /\ NoTornRecord' /\ ReadInv'
  BY <1>1, <1>2, <1>3, CalmLines, Zenon DEF CalmStep
<1>12. NoLeak => InLimbo = {}
  <2>1. NoLeak => \A t \in Thread : limbo[t] = <<>>
    BY <1>7, Zenon DEF SInv, KeepInv, NoLeak
  <2>2. NoLeak => \A t \in Thread : DOMAIN limbo[t] = {}
    BY <2>1
  <2> QED BY <2>2, LimboFact, Zenon
<1>13. KeepInv'
  BY <1>1, <1>3, <1>4, <1>5, <1>6, <1>7, <1>12, ZenonT(30) DEF SInv, KeepInv, OlderReleased
<1> QED BY <1>3, <1>8, <1>9, <1>10, <1>11, <1>13, Zenon DEF SInv

(* The end of recovery and a reboot keep the invariant: nobody holds a     *)
(* record, so every region without a hired token is free.                  *)
LEMMA OpenedStep ==
    ASSUME SInv, RecoverDone \/ Reboot
    PROVE  SInv'
<1>1. /\ (mode = "recover" /\ Active = {} /\ todo = {}) \/ mode = "closed"
      /\ mode' = "open" /\ free' = Record \ busy /\ busy' = busy
      /\ hdr' = hdr /\ body' = body /\ phdr' = phdr /\ pbody' = pbody
      /\ index' = index /\ version' = version /\ retired' = retired /\ tomb' = tomb
      /\ issued' = issued /\ recovered' = recovered /\ th' = th /\ limbo' = limbo
      /\ todo' = todo
      /\ \/ acked' = acked
         \/ acked' = [k \in Key |-> {Content(hdr[r], body[r]) : r \in index[k]}]
  <2>1. CASE RecoverDone
    BY <2>1, Zenon DEF RecoverDone, lines, volatile
  <2>2. CASE Reboot
    BY <2>2, Zenon DEF Reboot, lines, volatile, ghosts
  <2> QED BY <2>1, <2>2, Zenon
<1>2. NoCall /\ (\A u \in Thread : th[u].pc \notin Holding) /\ todo = {}
  <2>1. mode # "recover" => todo = {} /\ NoCall /\ \A u \in Thread : th[u].pc \notin Holding
    BY <1>1, NoCallFact, Zenon DEF SInv, ModeInv
  <2>2. Active = {} => NoCall /\ \A u \in Thread : th[u].pc \notin Holding
    BY Zenon DEF Active, NoCall, Holding, Filling, Writing
  <2> QED BY <2>1, <2>2, <1>1, Zenon
<1>3. /\ CallOnce' /\ IndexOnce' /\ IndexInv' /\ VerInv'
      /\ Indexed' = Indexed /\ InCall' = InCall /\ NoCall'
  BY <1>1, <1>2, StillStep, Zenon
<1>4. LimboOnce' /\ InLimbo' = InLimbo /\ EpochOnce' /\ InEpoch' = InEpoch
  BY <1>1, SameLimbo, SameEpoch, Zenon
<1>5. Unscanned' = {} /\ Unscanned = {} /\ InCall = {}
  BY <1>1, <1>2, CallFact, Zenon DEF Unscanned
<1>6. TypeOK'
  <2>1. acked' \in [Key -> SUBSET Write]
    <3>1. ASSUME NEW k \in Key, NEW r \in index[k] PROVE Content(hdr[r], body[r]) \in Write
      <4>1. hdr[r] \in Header /\ body[r] \in Value /\ hdr[r].key = k
        BY Zenon DEF SInv, TypeOK, IndexInv
      <4>2. hdr[r].ver \in Nat /\ hdr[r].tomb \in BOOLEAN
        BY <4>1, Zenon DEF Header
      <4> QED BY <4>1, <4>2, Zenon DEF Content, Write, Value
    <3>2. [k \in Key |-> {Content(hdr[r], body[r]) : r \in index[k]}] \in [Key -> SUBSET Write]
      BY <3>1, Zenon
    <3> QED BY <3>2, <1>1, Zenon DEF SInv, TypeOK
  <2> QED BY <2>1, <1>1, Zenon DEF SInv, TypeOK, Mode
<1>7. OnceInv' /\ ApartInv' /\ BusyInv'
  BY <1>1, <1>2, <1>3, <1>4, <1>5, ZenonT(30) DEF SInv, OnceInv, ApartInv, BusyInv
<1>8. ModeInv'
  <2>1. \A u \in Thread : /\ th'[u].pc \notin Writing \union {"read"}
                          /\ th'[u].pc \notin Scanning
                          /\ th'[u].pc \in {"acquire", "load", "cas"} => th'[u].rec = None
    BY <1>1, <1>2, Zenon DEF SInv, ModeInv, NoCall, Active, Scanning
  <2> QED BY <2>1, <1>1, <1>2, Zenon DEF ModeInv
<1>9. Thread \subseteq Agreeing' /\ CleanInv' /\ NoTornRecord' /\ ReadInv'
  BY <1>1, <1>2, <1>3, CalmLines, Zenon DEF CalmStep
<1>10. KeepInv'
  BY <1>1, <1>3, <1>4, <1>5, ZenonT(30) DEF SInv, KeepInv, OlderReleased, TypeOK
<1> QED BY <1>3, <1>6, <1>7, <1>8, <1>9, <1>10, Zenon DEF SInv

(* A step of a recovery worker. *)
ScanStep(t) ==
    /\ mode = "recover" /\ mode' = mode /\ th[t].pc \notin Writing \union {"read"}
    /\ th'[t].pc \in {"idle"} \union Scanning /\ th'[t] \in Call
    /\ th'[t].pc \in Scanning \ {"drop"} => th'[t].key \in Key
    /\ th'[t].pc \in Scanning \ {"drop", "retire"} => th'[t].rec = None
    /\ th' = [th EXCEPT ![t] = th'[t]]
    /\ hdr' = hdr /\ body' = body /\ phdr' = phdr /\ pbody' = pbody
    /\ issued' = issued /\ acked' = acked /\ recovered' = recovered
    /\ limbo' = limbo /\ busy' \subseteq busy

(* It keeps what the invariant says about modes, lines and limbo. *)
LEMMA ScanLines ==
    ASSUME SInv, NEW t \in Thread, ScanStep(t)
    PROVE  /\ ModeInv' /\ Thread \subseteq Agreeing' /\ CleanInv' /\ NoTornRecord' /\ ReadInv'
           /\ LimboOnce' /\ InLimbo' = InLimbo /\ OlderReleased'
           /\ th' \in [Thread -> Call] /\ \A u \in Thread \ {t} : th'[u] = th[u]
           /\ \A r \in Record : phdr[r] = hdr[r] /\ pbody[r] = body[r]
<1>1. /\ mode = "recover" /\ mode' = mode /\ th[t].pc \notin Writing \union {"read"}
      /\ th'[t].pc \in {"idle"} \union Scanning /\ th'[t] \in Call
      /\ th'[t].pc \in Scanning \ {"drop"} => th'[t].key \in Key
      /\ th'[t].pc \in Scanning \ {"drop", "retire"} => th'[t].rec = None
      /\ th' = [th EXCEPT ![t] = th'[t]]
      /\ hdr' = hdr /\ body' = body /\ phdr' = phdr /\ pbody' = pbody
      /\ issued' = issued /\ limbo' = limbo /\ busy' \subseteq busy
  BY Zenon DEF ScanStep
<1>2. /\ th' \in [Thread -> Call] /\ \A u \in Thread \ {t} : th'[u] = th[u]
  BY <1>1, Zenon DEF SInv, TypeOK
<1>3. NoCall
  BY <1>1, NoCallFact, Zenon
<1>4. NoCall'
  BY <1>1, <1>2, <1>3, Zenon DEF NoCall, Writing, Scanning
<1>5. /\ Thread \subseteq Agreeing' /\ CleanInv' /\ NoTornRecord' /\ ReadInv'
      /\ \A r \in Record : phdr[r] = hdr[r] /\ pbody[r] = body[r]
  BY <1>1, <1>3, <1>4, CalmLines, Zenon DEF CalmStep
<1>6. LimboOnce' /\ InLimbo' = InLimbo
  BY <1>1, SameLimbo, Zenon
<1>7. ModeInv'
  <2>1. ASSUME NEW u \in Thread
        PROVE  /\ th'[u].pc \notin Writing \union {"read"}
               /\ th'[u].pc \in Scanning \ {"drop"} => th'[u].key \in Key
               /\ th'[u].pc \in {"acquire", "load", "cas"} => th'[u].rec = None
    <3>1. CASE u # t
      BY <3>1, <1>2, <1>4, ZenonT(30) DEF SInv, ModeInv, NoCall
    <3>2. CASE u = t
      <4>1. th'[t].pc # "acquire"
        BY <1>4, Zenon DEF NoCall, Writing
      <4>2. th'[t].pc \in {"load", "cas"} => th'[t].rec = None
        BY <1>1, Zenon DEF Scanning
      <4> QED BY <4>1, <4>2, <3>2, <1>1, <1>4, Zenon DEF NoCall
    <3> QED BY <3>1, <3>2, Zenon
  <2> QED BY <2>1, <1>1, Zenon DEF ModeInv
<1>8. OlderReleased'
  BY <1>1, Zenon DEF OlderReleased
<1> QED BY <1>2, <1>5, <1>6, <1>7, <1>8, Zenon

(* A worker that drops a record keeps the invariant. *)
LEMMA RecoverDropStep ==
    ASSUME SInv, NEW t \in Thread, RecoverDrop(t)
    PROVE  SInv'
<1> DEFINE r == th[t].rec
<1>1. /\ mode = "recover" /\ mode' = mode /\ th[t].pc = "drop" /\ todo' = todo
      /\ th' = [th EXCEPT ![t] = IdleCall] /\ busy' = busy \ {r} /\ free' = free \union {r}
      /\ hdr' = hdr /\ body' = body /\ phdr' = phdr /\ pbody' = pbody
      /\ index' = index /\ version' = version /\ retired' = retired /\ tomb' = tomb
      /\ issued' = issued /\ acked' = acked /\ recovered' = recovered /\ limbo' = limbo
  BY Zenon DEF RecoverDrop, SlabRelease, lines, volatile, ghosts
<1>2. th[t].pc \in Holding /\ th[t].pc \notin Writing \union {"read"}
  BY <1>1, Zenon DEF Holding, Filling, Writing
<1>3. /\ th' \in [Thread -> Call] /\ CallOnce' /\ InCall' = InCall \ {r}
      /\ th'[t] = IdleCall /\ \A u \in Thread \ {t} : th'[u] = th[u]
  BY <1>1, <1>2, IdleFact, Leave, Zenon DEF SInv, TypeOK, OnceInv
<1>4. /\ r \in Record /\ r \in busy /\ r \in InCall /\ r \notin Indexed /\ r \notin InLimbo
      /\ r \notin InEpoch /\ r \notin Unscanned
      /\ \A u \in Thread \ {t} : th[u].pc \in Holding => th[u].rec # r
  BY <1>1, <1>2, Elsewhere, CallFact, Zenon DEF SInv, BusyInv
<1>5. ScanStep(t)
  BY <1>1, <1>2, <1>3, IdleFact, Zenon DEF ScanStep, Scanning
<1>6. /\ ModeInv' /\ Thread \subseteq Agreeing' /\ CleanInv' /\ NoTornRecord' /\ ReadInv'
      /\ LimboOnce' /\ InLimbo' = InLimbo /\ OlderReleased'
  BY <1>5, ScanLines, Zenon
<1>7. /\ Indexed' = Indexed /\ IndexOnce' /\ EpochOnce' /\ InEpoch' = InEpoch
      /\ Unscanned' = Unscanned
  BY <1>1, SameEpoch, Zenon DEF Indexed, SInv, OnceInv, IndexOnce, Unscanned
<1>8. TypeOK'
  BY <1>1, <1>3, <1>4, Zenon DEF SInv, TypeOK
<1>9. OnceInv' /\ ApartInv'
  BY <1>1, <1>3, <1>4, <1>6, <1>7, ZenonT(30) DEF SInv, OnceInv, ApartInv
<1>10. BusyInv'
  BY <1>1, <1>3, <1>4, IdleFact, Zenon DEF SInv, BusyInv
<1>11. IndexInv'
  BY <1>1, Zenon DEF SInv, IndexInv
<1>12. KeepInv'
  BY <1>1, <1>3, <1>4, <1>6, <1>7, ZenonT(30) DEF SInv, KeepInv
<1>13. VerInv'
  <2>1. \A u \in Thread : th[u].pc \in {"retire", "load", "cas"} => th'[u] = th[u]
    BY <1>1, <1>3, Zenon
  <2>2. \A u \in Thread : th'[u].pc \in Writing => th'[u].ver < version'[SlotOf[th'[u].key]]
    BY <1>1, <1>3, IdleFact, SVer, SMTT(30) DEF VerInv, Holding, Filling
  <2>3. index' = index /\ hdr' = hdr /\ version' = version
    BY <1>1, Zenon
  <2> QED BY <2>1, <2>2, <2>3, SVer, SMTT(30) DEF VerInv
<1> QED BY <1>6, <1>8, <1>9, <1>10, <1>11, <1>12, <1>13, Zenon DEF SInv

(* A worker that retires the older record keeps the invariant. *)
LEMMA RecoverRetireStep ==
    ASSUME SInv, NEW t \in Thread, RecoverRetire(t)
    PROVE  SInv'
<1> DEFINE r == th[t].rec
           c == [th[t] EXCEPT !.pc = "load", !.rec = None]
           z == [rec |-> r, waits |-> {}, to |-> "slab"]
<1>1. /\ mode = "recover" /\ mode' = mode /\ th[t].pc = "retire" /\ todo' = todo
      /\ th' = [th EXCEPT ![t] = c] /\ retired' = retired \union {z}
      /\ busy' = busy /\ free' = free
      /\ hdr' = hdr /\ body' = body /\ phdr' = phdr /\ pbody' = pbody
      /\ index' = index /\ version' = version /\ tomb' = tomb
      /\ issued' = issued /\ acked' = acked /\ recovered' = recovered /\ limbo' = limbo
  BY Zenon DEF RecoverRetire, lines, ghosts
<1>2. /\ th[t].pc \in Holding /\ th[t].pc \notin Writing \union {"read"} /\ th[t] \in Call
      /\ th[t].key \in Key
  BY <1>1, Zenon DEF Holding, Filling, Writing, SInv, TypeOK, ModeInv, Scanning
<1>3. /\ c \in Call /\ c.pc = "load" /\ c.key = th[t].key /\ c.ver = th[t].ver /\ c.rec = None
      /\ c.pc \notin Holding
  BY <1>2, Zenon DEF Call, Holding, Filling, Writing
<1>4. /\ r \in Record /\ r \in busy /\ r \in InCall /\ r \notin Indexed /\ r \notin InLimbo
      /\ r \notin InEpoch /\ r \notin Unscanned
      /\ \A u \in Thread \ {t} : th[u].pc \in Holding => th[u].rec # r
  BY <1>1, <1>2, Elsewhere, CallFact, Zenon DEF SInv, BusyInv
<1>5. z \in Closure /\ z.rec = r
  BY <1>4, Zenon DEF Closure
<1> HIDE DEF c, z
<1>6. /\ th' \in [Thread -> Call] /\ CallOnce' /\ InCall' = InCall \ {r}
      /\ th'[t] = c /\ \A u \in Thread \ {t} : th'[u] = th[u]
  BY <1>1, <1>2, <1>3, Leave, Zenon DEF SInv, TypeOK, OnceInv
<1>7. ScanStep(t)
  BY <1>1, <1>2, <1>3, <1>6, Zenon DEF ScanStep, Scanning
<1>8. /\ ModeInv' /\ Thread \subseteq Agreeing' /\ CleanInv' /\ NoTornRecord' /\ ReadInv'
      /\ LimboOnce' /\ InLimbo' = InLimbo /\ OlderReleased'
  BY <1>7, ScanLines, Zenon
<1>9. EpochOnce' /\ InEpoch' = InEpoch \union {r}
  <2>1. \A x \in retired : x.rec # r
    BY <1>4, EpochFact, Zenon
  <2>2. EpochOnce'
    BY <2>1, <1>1, <1>5, Zenon DEF SInv, OnceInv, EpochOnce
  <2>3. \A s : s \in InEpoch' <=> s \in InEpoch \union {r}
    BY <1>1, <1>5, EpochFact, Zenon
  <2> QED BY <2>2, <2>3, Zenon
<1>10. Indexed' = Indexed /\ IndexOnce' /\ Unscanned' = Unscanned
  BY <1>1, Zenon DEF Indexed, SInv, OnceInv, IndexOnce, Unscanned
<1>11. TypeOK'
  BY <1>1, <1>5, <1>6, Zenon DEF SInv, TypeOK
<1>12. OnceInv' /\ ApartInv'
  BY <1>1, <1>4, <1>6, <1>8, <1>9, <1>10, SOnce, SApart, SMTT(30) DEF OnceInv, ApartInv
<1>13. BusyInv'
  BY <1>1, <1>3, <1>6, Zenon DEF SInv, BusyInv
<1>14. IndexInv'
  BY <1>1, Zenon DEF SInv, IndexInv
<1>15. KeepInv'
  BY <1>1, <1>4, <1>6, <1>8, <1>9, <1>10, Zenon DEF SInv, KeepInv
<1>16. VerInv'
  <2>1. \A u \in Thread : th[u].pc \in {"retire", "load", "cas"} =>
           /\ th'[u].pc \in {"retire", "load", "cas"} /\ th'[u].key = th[u].key
           /\ th'[u].ver = th[u].ver
    BY <1>1, <1>3, <1>6, ZenonT(30)
  <2>2. \A u \in Thread : th'[u].pc \notin Writing
    BY <1>8, <1>1, Zenon DEF ModeInv
  <2>3. ASSUME NEW k \in Key, NEW i \in index'[k]
        PROVE  \/ hdr'[i].ver <= version'[SlotOf[k]]
               \/ \E u \in Thread : /\ th'[u].pc \in {"retire", "load", "cas"}
                                    /\ th'[u].key = k /\ th'[u].ver = hdr'[i].ver
    <3>1. CASE hdr[i].ver <= version[SlotOf[k]]
      BY <3>1, <1>1, Zenon
    <3>2. CASE ~(hdr[i].ver <= version[SlotOf[k]])
      <4>1. PICK u \in Thread : /\ th[u].pc \in {"retire", "load", "cas"}
                                /\ th[u].key = k /\ th[u].ver = hdr[i].ver
        BY <3>2, <1>1, Zenon DEF SInv, VerInv
      <4> QED BY <4>1, <2>1, <1>1, Zenon
    <3> QED BY <3>1, <3>2, Zenon
  <2> QED BY <2>2, <2>3, Zenon DEF VerInv
<1> QED BY <1>8, <1>11, <1>12, <1>13, <1>14, <1>15, <1>16, Zenon DEF SInv

(* Raising the version table keeps the invariant: a worker leaves only     *)
(* when the counter of the slot has reached the version of its record,     *)
(* and no counter goes back.                                               *)
LEMMA RecoverVersionStep ==
    ASSUME SInv, NEW t \in Thread, RecoverLoad(t) \/ RecoverVersion(t)
    PROVE  SInv'
<1> DEFINE s == SlotOf[th[t].key]
<1>1. /\ mode = "recover" /\ mode' = mode /\ th[t].pc \in {"load", "cas"} /\ todo' = todo
      /\ busy' = busy /\ free' = free /\ retired' = retired
      /\ hdr' = hdr /\ body' = body /\ phdr' = phdr /\ pbody' = pbody
      /\ index' = index /\ tomb' = tomb
      /\ issued' = issued /\ acked' = acked /\ recovered' = recovered /\ limbo' = limbo
  <2>1. CASE RecoverLoad(t)
    BY <2>1, Zenon DEF RecoverLoad, lines, volatile, ghosts
  <2>2. CASE RecoverVersion(t)
    BY <2>2, Zenon DEF RecoverVersion, lines, ghosts
  <2> QED BY <2>1, <2>2, Zenon
<1>2. /\ th[t].pc \notin Holding /\ th[t].pc \notin Writing \union {"read"} /\ th[t] \in Call
      /\ th[t].key \in Key /\ s \in Slot /\ version[s] \in Nat /\ th[t].ver \in Nat
      /\ th[t].rec = None /\ th \in [Thread -> Call] /\ version \in [Slot -> Nat]
  <2>1. /\ th[t].pc \notin Holding /\ th[t].pc \notin Writing \union {"read"} /\ th[t] \in Call
        /\ th[t].key \in Key /\ th[t].rec = None
    BY <1>1, Zenon DEF Holding, Filling, Writing, SInv, TypeOK, ModeInv, Scanning
  <2>2. s \in Slot /\ version[s] \in Nat
    BY <2>1, Zenon DEF Slot, SInv, TypeOK
  <2> QED BY <2>1, <2>2, Zenon DEF Call, SInv, TypeOK
<1>3. PICK d \in Call :
        /\ th' = [th EXCEPT ![t] = d]
        /\ \/ /\ d.pc = "cas" /\ d.key = th[t].key /\ d.ver = th[t].ver /\ d.rec = None
              /\ version' = version
           \/ /\ d = IdleCall
              /\ version' = [version EXCEPT ![s] = IF th[t].ver > @ THEN th[t].ver ELSE @]
  <2> DEFINE n == [th[t] EXCEPT !.pc = "cas", !.val = version[s]]
  <2>1. n \in Call /\ n.pc = "cas" /\ n.key = th[t].key /\ n.ver = th[t].ver /\ n.rec = None
    BY <1>2, Zenon DEF Call, Value
  <2>2. CASE RecoverLoad(t)
    <3>1. th' = [th EXCEPT ![t] = n] /\ version' = version
      BY <2>2, Zenon DEF RecoverLoad, volatile
    <3> QED BY <3>1, <2>1, Zenon
  <2>3. CASE RecoverVersion(t) /\ th[t].ver > th[t].val /\ version[s] # th[t].val
    <3>1. th' = [th EXCEPT ![t].val = version[s]] /\ version' = version /\ th[t].pc = "cas"
      BY <2>3, Zenon DEF RecoverVersion
    <3>2. [th[t] EXCEPT !.val = version[s]] = n
      BY <3>1, <1>2, Zenon DEF Call
    <3>3. th' = [th EXCEPT ![t] = n]
      BY <3>1, <3>2, Zenon
    <3> QED BY <3>1, <3>3, <2>1, Zenon
  <2>4. CASE RecoverVersion(t) /\ ~(th[t].ver > th[t].val /\ version[s] # th[t].val)
    <3>1. /\ th' = [th EXCEPT ![t] = IdleCall]
          /\ version' = [version EXCEPT ![s] = IF th[t].ver > @ THEN th[t].ver ELSE @]
      BY <2>4, Zenon DEF RecoverVersion
    <3> QED BY <3>1, IdleFact, Zenon
  <2> QED BY <2>2, <2>3, <2>4, Zenon
<1>4. d.pc \notin Holding /\ d.pc \in {"cas", "idle"}
  BY <1>3, IdleFact, Zenon DEF Holding, Filling, Writing
<1>5. /\ th' \in [Thread -> Call] /\ CallOnce' /\ InCall' = InCall
      /\ th'[t] = d /\ \A u \in Thread \ {t} : th'[u] = th[u]
  BY <1>2, <1>3, <1>4, Aside, Zenon DEF SInv, OnceInv
<1>6. ScanStep(t)
  <2>1. th'[t].pc \in {"idle"} \union Scanning /\ th'[t] \in Call
    BY <1>4, <1>5, Zenon DEF Scanning
  <2>2. /\ th'[t].pc \in Scanning \ {"drop"} => th'[t].key \in Key
        /\ th'[t].pc \in Scanning \ {"drop", "retire"} => th'[t].rec = None
    BY <1>2, <1>3, <1>5, IdleFact, Zenon DEF Scanning
  <2>3. th' = [th EXCEPT ![t] = th'[t]]
    BY <1>3, <1>5, Zenon
  <2> QED BY <2>1, <2>2, <2>3, <1>1, <1>2, Zenon DEF ScanStep
<1>7. /\ ModeInv' /\ Thread \subseteq Agreeing' /\ CleanInv' /\ NoTornRecord' /\ ReadInv'
      /\ LimboOnce' /\ InLimbo' = InLimbo /\ OlderReleased'
  BY <1>6, ScanLines, Zenon
<1>8. /\ Indexed' = Indexed /\ IndexOnce' /\ Unscanned' = Unscanned
      /\ EpochOnce' /\ InEpoch' = InEpoch
  BY <1>1, SameEpoch, ZenonT(30) DEF Indexed, SInv, OnceInv, IndexOnce, Unscanned
<1>9. /\ version' \in [Slot -> Nat] /\ \A l \in Slot : version'[l] >= version[l]
      /\ d = IdleCall => version'[s] >= th[t].ver
  BY <1>2, <1>3, IdleFact
<1>10. TypeOK'
  BY <1>1, <1>5, <1>9, Zenon DEF SInv, TypeOK
<1>11. OnceInv' /\ ApartInv'
  BY <1>1, <1>5, <1>7, <1>8, ZenonT(30) DEF SInv, OnceInv, ApartInv
<1>12. BusyInv'
  BY <1>1, <1>4, <1>5, Zenon DEF SInv, BusyInv
<1>13. IndexInv'
  BY <1>1, Zenon DEF SInv, IndexInv
<1>14. KeepInv'
  BY <1>1, <1>5, <1>7, <1>8, Zenon DEF SInv, KeepInv
<1>15. VerInv'
  <2>1. ASSUME NEW k \in Key, NEW r \in index'[k]
        PROVE  \/ hdr'[r].ver <= version'[SlotOf[k]]
               \/ \E u \in Thread : /\ th'[u].pc \in {"retire", "load", "cas"}
                                    /\ th'[u].key = k /\ th'[u].ver = hdr'[r].ver
    <3>1. SlotOf[k] \in Slot /\ hdr[r].ver \in Nat /\ r \in index[k]
      BY <1>1, ZenonT(30) DEF Slot, SInv, TypeOK, Header
    <3>2. CASE hdr[r].ver <= version[SlotOf[k]]
      <4>1. version[SlotOf[k]] \in Nat /\ version'[SlotOf[k]] \in Nat
            /\ version'[SlotOf[k]] >= version[SlotOf[k]]
        BY <3>1, <1>2, <1>9, Zenon
      <4>2. hdr[r].ver <= version'[SlotOf[k]]
        BY <4>1, <3>1, <3>2
      <4> QED BY <4>2, <1>1, Zenon
    <3>3. CASE \E u \in Thread : /\ th[u].pc \in {"retire", "load", "cas"}
                                 /\ th[u].key = k /\ th[u].ver = hdr[r].ver
      <4>1. PICK u \in Thread : /\ th[u].pc \in {"retire", "load", "cas"}
                                /\ th[u].key = k /\ th[u].ver = hdr[r].ver
        BY <3>3, Zenon
      <4>2. CASE u = t /\ d = IdleCall
        <5>1. version'[SlotOf[k]] >= hdr[r].ver /\ version'[SlotOf[k]] \in Nat
          BY <4>1, <4>2, <1>9, <3>1, Zenon
        <5> QED BY <5>1, <3>1, <1>1, Zenon
      <4>3. CASE ~(u = t /\ d = IdleCall)
        BY <4>1, <4>3, <1>1, <1>3, <1>5, Zenon
      <4> QED BY <4>2, <4>3, Zenon
    <3> QED BY <3>1, <3>2, <3>3, Zenon DEF SInv, VerInv
  <2>2. \A u \in Thread : th'[u].pc \notin Writing
    BY <1>7, <1>1, Zenon DEF ModeInv
  <2> QED BY <2>1, <2>2, Zenon DEF VerInv
<1> QED BY <1>7, <1>10, <1>11, <1>12, <1>13, <1>14, <1>15, ZenonT(30) DEF SInv

(* A record that the scan accepts is a write, so its key is a key. *)
LEMMA ScannedFact ==
    ASSUME SInv, mode = "recover", NEW r \in todo, ~hdr[r].inv
    PROVE  /\ hdr[r].key \in Key /\ hdr[r].ver \in Nat /\ r \in Record
           /\ r \in Surviving /\ phdr[r] = hdr[r] /\ pbody[r] = body[r]
<1>1. r \in Unscanned /\ r \in Record /\ r \in busy
  BY Zenon DEF Unscanned, SInv, ApartInv, TypeOK
<1>2. NoCall
  BY NoCallFact, Zenon
<1>3. phdr[r] = hdr[r] /\ pbody[r] = body[r]
  BY <1>1, <1>2, CleanUnless, Zenon DEF NoCall, Dirtying, Writing
<1>4. Durable(r) \in issued /\ r \in Surviving
  BY <1>1, <1>3, Zenon DEF SInv, NoTornRecord, Surviving
<1>5. Durable(r) \in Write
  BY <1>4, Zenon DEF SInv, TypeOK
<1>6. Durable(r).key = phdr[r].key /\ Durable(r).ver = phdr[r].ver
  BY Zenon DEF Durable, Content
<1>7. phdr[r].key \in Key /\ phdr[r].ver \in Nat
  BY <1>5, <1>6, Zenon DEF Write
<1> QED BY <1>1, <1>3, <1>4, <1>7, Zenon

(* The call of a worker that goes on with record r. *)
LEMMA RebuildFact ==
    ASSUME SInv, NEW t \in Thread, th[t].pc = "idle", NEW pc \in Scanning,
           NEW r \in Record \union {None}, NEW h \in Header, Rebuild(t, pc, r, h)
    PROVE  \E c \in Call : /\ th' = [th EXCEPT ![t] = c] /\ c.pc = pc /\ c.rec = r
                           /\ c.key = h.key /\ c.ver = h.ver
<1> DEFINE c == [IdleCall EXCEPT !.pc = pc, !.rec = r, !.key = h.key, !.ver = h.ver]
<1>1. c.pc = pc /\ c.rec = r /\ c.key = h.key /\ c.ver = h.ver
  BY Zenon DEF IdleCall
<1>2. c \in Call
  <2>1. h.key \in Key \union {None} /\ h.ver \in Nat
    BY Zenon DEF Header
  <2> QED BY <2>1, Zenon DEF IdleCall, Call, Scanning, Value
<1>3. th' = [th EXCEPT ![t] = c]
  BY Zenon DEF Rebuild
<1> HIDE DEF c
<1> QED BY <1>1, <1>2, <1>3, Zenon

(* A worker that takes a record to drop it keeps the invariant. *)
LEMMA ScanDropStep ==
    ASSUME SInv, NEW t \in Thread, NEW r \in Record, RecoverRecord(t, r),
           Rebuild(t, "drop", r, hdr[r]), index' = index
    PROVE  SInv'
<1>1. /\ mode = "recover" /\ mode' = mode /\ th[t].pc = "idle" /\ r \in todo
      /\ todo' = todo \ {r} /\ version' = version
      /\ busy' = busy /\ free' = free /\ retired' = retired
      /\ hdr' = hdr /\ body' = body /\ phdr' = phdr /\ pbody' = pbody
      /\ issued' = issued /\ acked' = acked /\ recovered' = recovered /\ limbo' = limbo
      /\ tomb' = IF ~hdr[r].inv /\ hdr[r].tomb THEN tomb + 1 ELSE tomb
  BY Zenon DEF RecoverRecord, lines, ghosts
<1>2. hdr[r] \in Header /\ tomb' \in Nat
  BY <1>1, SType, SMTT(30) DEF TypeOK
<1>3. PICK c \in Call : /\ th' = [th EXCEPT ![t] = c] /\ c.pc = "drop" /\ c.rec = r
                        /\ c.key = hdr[r].key /\ c.ver = hdr[r].ver
  BY <1>1, <1>2, RebuildFact, SMTT(30) DEF Scanning
<1>4. /\ th[t].pc \notin Holding /\ th[t].pc \notin Writing \union {"read"} /\ c.pc \in Holding
      /\ th \in [Thread -> Call] /\ CallOnce
  BY <1>1, <1>3, Zenon DEF Holding, Filling, Writing, SInv, TypeOK, OnceInv
<1>5. /\ r \in Unscanned /\ r \notin Indexed /\ r \notin InLimbo /\ r \notin InEpoch
      /\ r \notin InCall /\ r \in busy /\ r \notin free
  BY <1>1, Zenon DEF Unscanned, SInv, ApartInv
<1>6. /\ th' \in [Thread -> Call] /\ CallOnce' /\ InCall' = InCall \union {r}
      /\ th'[t] = c /\ \A u \in Thread \ {t} : th'[u] = th[u]
  BY <1>3, <1>4, <1>5, Enter, Zenon
<1>7. ScanStep(t)
  <2>1. th' = [th EXCEPT ![t] = th'[t]]
    BY <1>3, <1>6, Zenon
  <2> QED BY <2>1, <1>1, <1>3, <1>4, <1>6, Zenon DEF ScanStep, Scanning
<1>8. /\ ModeInv' /\ Thread \subseteq Agreeing' /\ CleanInv' /\ NoTornRecord' /\ ReadInv'
      /\ LimboOnce' /\ InLimbo' = InLimbo /\ OlderReleased'
  BY <1>7, ScanLines, Zenon
<1>9. /\ Indexed' = Indexed /\ IndexOnce' /\ Unscanned' = Unscanned \ {r}
      /\ EpochOnce' /\ InEpoch' = InEpoch
  BY <1>1, SameEpoch, Zenon DEF Indexed, SInv, OnceInv, IndexOnce, Unscanned
<1>10. TypeOK'
  BY <1>1, <1>2, <1>6, ZenonT(30) DEF SInv, TypeOK
<1>11. OnceInv' /\ ApartInv'
  BY <1>1, <1>5, <1>6, <1>8, <1>9, SOnce, SApart, SMTT(30) DEF OnceInv, ApartInv
<1>12. BusyInv'
  BY <1>1, <1>3, <1>5, <1>6, Zenon DEF SInv, BusyInv
<1>13. IndexInv'
  BY <1>1, Zenon DEF SInv, IndexInv
<1>14. KeepInv'
  BY <1>1, <1>5, <1>6, <1>8, <1>9, ZenonT(30) DEF SInv, KeepInv
<1>15. VerInv'
  <2>1. \A u \in Thread : th[u].pc \in {"retire", "load", "cas"} => th'[u] = th[u]
    BY <1>1, <1>6, Zenon
  <2>2. \A u \in Thread : th'[u].pc \notin Writing
    BY <1>8, <1>1, Zenon DEF ModeInv
  <2>3. index' = index /\ hdr' = hdr /\ version' = version
    BY <1>1, Zenon
  <2> QED BY <2>1, <2>2, <2>3, SVer, SMTT(30) DEF VerInv
<1> QED BY <1>8, <1>10, <1>11, <1>12, <1>13, <1>14, <1>15, Zenon DEF SInv

(* A worker that puts a record into the index keeps the invariant: an      *)
(* older record of the key is its to retire, and the version of the new    *)
(* one is on the way to the table.                                         *)
LEMMA ScanKeepStep ==
    ASSUME SInv, NEW t \in Thread, NEW r \in Record, RecoverRecord(t, r), ~hdr[r].inv,
           index' = [index EXCEPT ![hdr[r].key] = (@ \ Found(hdr[r].key)) \union {r}],
           \/ Found(hdr[r].key) = {} /\ Rebuild(t, "load", None, hdr[r])
           \/ \E old \in Found(hdr[r].key) : Rebuild(t, "retire", old, hdr[r])
    PROVE  SInv'
<1> DEFINE k == hdr[r].key
<1>1. /\ mode = "recover" /\ mode' = mode /\ th[t].pc = "idle" /\ r \in todo
      /\ todo' = todo \ {r} /\ version' = version
      /\ busy' = busy /\ free' = free /\ retired' = retired
      /\ hdr' = hdr /\ body' = body /\ phdr' = phdr /\ pbody' = pbody
      /\ issued' = issued /\ acked' = acked /\ recovered' = recovered /\ limbo' = limbo
      /\ tomb' = IF ~hdr[r].inv /\ hdr[r].tomb THEN tomb + 1 ELSE tomb
  BY ZenonT(30) DEF RecoverRecord, lines, ghosts
<1>2. hdr[r] \in Header /\ tomb' \in Nat /\ k \in Key /\ hdr[r].ver \in Nat
  BY <1>1, ScannedFact, SType, SMTT(30) DEF TypeOK
<1>3. Found(k) = index[k] /\ \A i \in index[k] : \A j \in index[k] : i = j
  BY <1>2, FoundFact, SIndex, SMTT(30) DEF IndexInv
<1>4. /\ th[t].pc \notin Holding /\ th[t].pc \notin Writing \union {"read"}
      /\ th \in [Thread -> Call] /\ CallOnce /\ IndexOnce /\ index \in [Key -> SUBSET Record]
  BY <1>1, ZenonT(30) DEF Holding, Filling, Writing, SInv, TypeOK, OnceInv
<1>5. /\ r \in Unscanned /\ r \notin Indexed /\ r \notin InLimbo /\ r \notin InEpoch
      /\ r \notin InCall /\ r \in busy /\ r \notin free
  BY <1>1, Zenon DEF Unscanned, SInv, ApartInv
<1>6. \E c \in Call :
        /\ th' = [th EXCEPT ![t] = c] /\ c.key = k /\ c.ver = hdr[r].ver
        /\ \/ /\ c.pc = "load" /\ c.rec = None /\ index[k] = {}
              /\ index' = [index EXCEPT ![k] = @ \union {r}]
           \/ /\ c.pc = "retire" /\ c.rec \in index[k]
              /\ index' = [index EXCEPT ![k] = (@ \ {c.rec}) \union {r}]
  <2>1. CASE Found(k) = {} /\ Rebuild(t, "load", None, hdr[r])
    <3>1. PICK c \in Call : /\ th' = [th EXCEPT ![t] = c] /\ c.pc = "load" /\ c.rec = None
                            /\ c.key = k /\ c.ver = hdr[r].ver
      BY <2>1, <1>1, <1>2, RebuildFact DEF Scanning
    <3>2. index[k] = {} /\ index' = [index EXCEPT ![k] = @ \union {r}]
      BY <2>1, <1>3, Zenon
    <3> QED BY <3>1, <3>2, ZenonT(30)
  <2>2. CASE \E old \in Found(k) : Rebuild(t, "retire", old, hdr[r])
    <3>1. PICK old \in index[k] : Rebuild(t, "retire", old, hdr[r])
      BY <2>2, <1>3, ZenonT(30)
    <3>2. PICK c \in Call : /\ th' = [th EXCEPT ![t] = c] /\ c.pc = "retire" /\ c.rec = old
                            /\ c.key = k /\ c.ver = hdr[r].ver
      <4>1. old \in Record
        BY <1>2, <1>4, Zenon
      <4> QED BY <4>1, <3>1, <1>1, <1>2, RebuildFact DEF Scanning
    <3>3. index[k] \ Found(k) = index[k] \ {old}
      BY <3>1, <1>3, ZenonT(30)
    <3>4. index' = [index EXCEPT ![k] = (@ \ {old}) \union {r}]
      BY <3>3, ZenonT(30)
    <3> QED BY <3>1, <3>2, <3>4, Zenon
  <2> QED BY <2>1, <2>2, Zenon
<1>7. PICK c \in Call :
        /\ th' = [th EXCEPT ![t] = c] /\ c.key = k /\ c.ver = hdr[r].ver
        /\ \/ /\ c.pc = "load" /\ c.rec = None /\ index[k] = {}
              /\ index' = [index EXCEPT ![k] = @ \union {r}]
           \/ /\ c.pc = "retire" /\ c.rec \in index[k]
              /\ index' = [index EXCEPT ![k] = (@ \ {c.rec}) \union {r}]
  BY <1>6, ZenonT(30)
<1> HIDE DEF k
<1>8. /\ index' \in [Key -> SUBSET Record] /\ IndexOnce' /\ index'[k] = {r}
      /\ (\A l \in Key \ {k} : index'[l] = index[l])
      /\ CallOnce' /\ th' \in [Thread -> Call]
      /\ th'[t] = c /\ \A u \in Thread \ {t} : th'[u] = th[u]
      /\ \/ c.pc = "load" /\ Indexed' = Indexed \union {r} /\ InCall' = InCall
         \/ /\ c.pc = "retire" /\ Indexed' = (Indexed \ {c.rec}) \union {r} /\ c.rec \in Indexed
            /\ c.rec # r /\ InCall' = InCall \union {c.rec}
  <2>1. CASE c.pc = "load"
    <3>1. c.pc \notin Holding
      BY <2>1, ZenonT(30) DEF Holding, Filling, Writing
    <3>2. /\ th' \in [Thread -> Call] /\ CallOnce' /\ InCall' = InCall
          /\ th'[t] = c /\ \A u \in Thread \ {t} : th'[u] = th[u]
      BY <3>1, <1>4, <1>7, Aside, ZenonT(30)
    <3>3. /\ index' \in [Key -> SUBSET Record] /\ IndexOnce' /\ Indexed' = Indexed \union {r}
          /\ index'[k] = index[k] \union {r} /\ \A l \in Key \ {k} : index'[l] = index[l]
      BY <2>1, <1>2, <1>4, <1>5, <1>7, IndexAdd, ZenonT(30)
    <3> QED BY <2>1, <3>2, <3>3, <1>7, ZenonT(30)
  <2>2. CASE c.pc = "retire"
    <3>1. /\ c.pc \in Holding /\ c.rec \in index[k]
          /\ index' = [index EXCEPT ![k] = (@ \ {c.rec}) \union {r}]
      BY <2>2, <1>7, ZenonT(30) DEF Holding, Filling
    <3>2. /\ index' \in [Key -> SUBSET Record] /\ IndexOnce'
          /\ Indexed' = (Indexed \ {c.rec}) \union {r} /\ c.rec \in Indexed /\ c.rec # r
          /\ index'[k] = (index[k] \ {c.rec}) \union {r}
          /\ \A l \in Key \ {k} : index'[l] = index[l]
      BY <3>1, <1>2, <1>4, <1>5, IndexSwing, ZenonT(30)
    <3>3. c.rec \notin InCall
      BY <3>2, ZenonT(30) DEF SInv, ApartInv
    <3>4. /\ th' \in [Thread -> Call] /\ CallOnce' /\ InCall' = InCall \union {c.rec}
          /\ th'[t] = c /\ \A u \in Thread \ {t} : th'[u] = th[u]
      BY <3>1, <3>3, <1>4, <1>7, Enter, ZenonT(30)
    <3>5. index'[k] = {r}
      BY <3>1, <3>2, <1>3, ZenonT(30)
    <3> QED BY <2>2, <3>2, <3>4, <3>5, ZenonT(30)
  <2> QED BY <2>1, <2>2, <1>7, ZenonT(30)
<1>9. ScanStep(t)
  <2>1. th' = [th EXCEPT ![t] = th'[t]]
    BY <1>7, <1>8, ZenonT(30)
  <2> QED BY <2>1, <1>1, <1>2, <1>4, <1>7, <1>8, ZenonT(30) DEF ScanStep, Scanning
<1>10. /\ ModeInv' /\ Thread \subseteq Agreeing' /\ CleanInv' /\ NoTornRecord' /\ ReadInv'
       /\ LimboOnce' /\ InLimbo' = InLimbo /\ OlderReleased'
  BY <1>9, ScanLines, ZenonT(30)
<1>11. Unscanned' = Unscanned \ {r} /\ EpochOnce' /\ InEpoch' = InEpoch
  BY <1>1, SameEpoch, ZenonT(30) DEF Unscanned
<1>12. TypeOK'
  BY <1>1, <1>2, <1>8, ZenonT(30) DEF SInv, TypeOK
<1>13. OnceInv'
  BY <1>8, <1>10, <1>11, ZenonT(30) DEF OnceInv
<1>14. ApartInv'
  <2>1. CASE Indexed' = Indexed \union {r} /\ InCall' = InCall
    BY <2>1, <1>1, <1>5, <1>10, <1>11, ZenonT(30) DEF SInv, ApartInv
  <2>2. CASE /\ Indexed' = (Indexed \ {c.rec}) \union {r} /\ c.rec \in Indexed
             /\ c.rec # r /\ InCall' = InCall \union {c.rec}
    BY <2>2, <1>1, <1>5, <1>10, <1>11, SApart, SMTT(30) DEF ApartInv
  <2> QED BY <2>1, <2>2, <1>8, ZenonT(30)
<1>15. BusyInv'
  <2>1. c.pc = "retire" => c.rec \in busy /\ c.rec \in Record
    BY <1>8, ZenonT(30) DEF SInv, ApartInv, TypeOK
  <2>2. c.pc \notin {"write", "publish"} /\ (c.pc \in Holding => c.pc = "retire")
    BY <1>8, ZenonT(30) DEF Holding, Filling, Writing
  <2> QED BY <2>1, <2>2, <1>1, <1>8, ZenonT(30) DEF SInv, BusyInv
<1>16. IndexInv'
  <2>1. hdr[r].key = k
    BY Zenon DEF k
  <2>2. ASSUME NEW l \in Key \ {k}, NEW s \in index'[l]
        PROVE  hdr'[s].key = l /\ ~hdr'[s].inv /\ \A q \in index'[l] : q = s
    BY <2>2, <1>1, <1>8, SIndex, ZenonT(30) DEF IndexInv
  <2>3. ASSUME NEW s \in index'[k]
        PROVE  hdr'[s].key = k /\ ~hdr'[s].inv /\ \A q \in index'[k] : q = s
    BY <2>1, <2>3, <1>1, <1>8, ZenonT(30)
  <2> QED BY <2>2, <2>3, ZenonT(30) DEF IndexInv
<1>17. KeepInv'
  BY <1>1, <1>5, <1>8, <1>10, <1>11, Zenon DEF SInv, KeepInv
<1>18. VerInv'
  <2>1. \A u \in Thread : th[u].pc \in {"retire", "load", "cas"} => th'[u] = th[u]
    BY <1>1, <1>8, Zenon
  <2>2. \A u \in Thread : th'[u].pc \notin Writing
    BY <1>10, <1>1, Zenon DEF ModeInv
  <2>3. ASSUME NEW l \in Key, NEW i \in index'[l]
        PROVE  \/ hdr'[i].ver <= version'[SlotOf[l]]
               \/ \E u \in Thread : /\ th'[u].pc \in {"retire", "load", "cas"}
                                    /\ th'[u].key = l /\ th'[u].ver = hdr'[i].ver
    <3>1. CASE l = k
      BY <3>1, <1>1, <1>7, <1>8, ZenonT(30)
    <3>2. CASE l # k
      BY <3>2, <2>1, <1>1, <1>8, SVer, SMTT(30) DEF VerInv
    <3> QED BY <3>1, <3>2, Zenon
  <2> QED BY <2>2, <2>3, ZenonT(30) DEF VerInv
<1> QED BY <1>10, <1>12, <1>13, <1>14, <1>15, <1>16, <1>17, <1>18, Zenon DEF SInv

(* A worker of the recovery scan keeps the invariant. *)
LEMMA RecoverRecordStep ==
    ASSUME SInv, NEW t \in Thread, NEW r \in Record, RecoverRecord(t, r)
    PROVE  SInv'
<1>1. CASE Rebuild(t, "drop", r, hdr[r]) /\ index' = index
  BY <1>1, ScanDropStep, Zenon
<1>2. CASE /\ ~hdr[r].inv
           /\ index' = [index EXCEPT ![hdr[r].key] = (@ \ Found(hdr[r].key)) \union {r}]
           /\ \/ Found(hdr[r].key) = {} /\ Rebuild(t, "load", None, hdr[r])
              \/ \E old \in Found(hdr[r].key) : Rebuild(t, "retire", old, hdr[r])
  BY <1>2, ScanKeepStep, Zenon
<1> QED BY <1>1, <1>2, Zenon DEF RecoverRecord
-----------------------------------------------------------------------------
(***************************************************************************)
(* The steps of an open store that write no line.                          *)
(***************************************************************************)

(* A thread that leaves the epoch removes no closure, and no other guard   *)
(* from the ones a closure waits for.                                      *)
LEMMA EpochLeft ==
    ASSUME retired \subseteq Closure, EpochOnce, NEW t \in Thread, retired' = Left(t)
    PROVE  /\ retired' \subseteq Closure /\ EpochOnce' /\ InEpoch' = InEpoch
           /\ \A x \in retired, u \in Thread \ {t} :
                 u \in x.waits => \E y \in retired' : y.rec = x.rec /\ u \in y.waits
<1> DEFINE L(x) == [x EXCEPT !.waits = @ \ {t}]
<1>1. \A x \in retired : /\ L(x) \in Closure /\ L(x).rec = x.rec
                         /\ L(x).waits = x.waits \ {t} /\ L(x) \in retired'
  <2> SUFFICES ASSUME NEW x \in retired
               PROVE  /\ L(x) \in Closure /\ L(x).rec = x.rec
                      /\ L(x).waits = x.waits \ {t} /\ L(x) \in retired'
    BY Zenon
  <2>1. x \in Closure /\ L(x) \in retired'
    BY Zenon DEF Left
  <2> QED BY <2>1, Zenon DEF Closure
<1>2. \A y \in retired' : \E x \in retired : y = L(x)
  BY Zenon DEF Left
<1> HIDE DEF L
<1>3. retired' \subseteq Closure
  BY <1>1, <1>2, Zenon
<1>4. EpochOnce'
  BY <1>1, <1>2 DEF EpochOnce
<1>5. InEpoch' = InEpoch
  <2>1. \A r : r \in InEpoch' <=> r \in InEpoch
    BY <1>1, <1>2, EpochFact
  <2> QED BY <2>1, Zenon
<1>6. \A x \in retired, u \in Thread \ {t} :
         u \in x.waits => \E y \in retired' : y.rec = x.rec /\ u \in y.waits
  BY <1>1, Zenon
<1> QED BY <1>3, <1>4, <1>5, <1>6, Zenon

(* A record that is retired waits for every other call that is running. *)
LEMMA EpochRetire ==
    ASSUME retired \subseteq Closure, EpochOnce, NEW t \in Thread,
           NEW r \in Record, r \notin InEpoch, retired' = Closures(t, r)
    PROVE  /\ retired' \subseteq Closure /\ EpochOnce' /\ InEpoch' = InEpoch \union {r}
           /\ \A x \in retired, u \in Thread \ {t} :
                 u \in x.waits => \E y \in retired' : y.rec = x.rec /\ u \in y.waits
           /\ \E y \in retired' : y.rec = r /\ y.waits = Active \ {t}
<1> DEFINE L(x) == [x EXCEPT !.waits = @ \ {t}]
           z == [rec |-> r, waits |-> Active \ {t}, to |-> "limbo"]
<1>1. \A x \in retired : /\ L(x) \in Closure /\ L(x).rec = x.rec
                         /\ L(x).waits = x.waits \ {t} /\ L(x) \in retired'
  <2> SUFFICES ASSUME NEW x \in retired
               PROVE  /\ L(x) \in Closure /\ L(x).rec = x.rec
                      /\ L(x).waits = x.waits \ {t} /\ L(x) \in retired'
    BY Zenon
  <2>1. x \in Closure /\ L(x) \in retired'
    BY Zenon DEF Left, Closures
  <2> QED BY <2>1, Zenon DEF Closure
<1>2. z \in retired' /\ \A y \in retired' : y = z \/ \E x \in retired : y = L(x)
  BY Zenon DEF Left, Closures
<1>3. z.rec = r /\ z.waits = Active \ {t} /\ z \in Closure
  BY Zenon DEF Closure, Active
<1> HIDE DEF L, z
<1>4. retired' \subseteq Closure
  BY <1>1, <1>2, <1>3, Zenon
<1>5. \A x \in retired : x.rec # r
  BY EpochFact, Zenon
<1>6. EpochOnce'
  BY <1>1, <1>2, <1>3, <1>5 DEF EpochOnce
<1>7. InEpoch' = InEpoch \union {r}
  <2>1. \A s : s \in InEpoch' <=> s \in InEpoch \union {r}
    BY <1>1, <1>2, <1>3, EpochFact
  <2> QED BY <2>1, Zenon
<1>8. \A x \in retired, u \in Thread \ {t} :
         u \in x.waits => \E y \in retired' : y.rec = x.rec /\ u \in y.waits
  BY <1>1, Zenon
<1> QED BY <1>2, <1>3, <1>4, <1>6, <1>7, <1>8, Zenon

(* What a reader may count on: its record is in the index, or a closure    *)
(* that waits for the reader has it.                                       *)
Guarded(u, r) == r \in Indexed \/ \E x \in retired : x.rec = r /\ u \in x.waits

(* A step of thread t of an open store that writes no line. *)
OpenStep(t) ==
    /\ mode = "open" /\ mode' = mode /\ todo' = todo
    /\ hdr' = hdr /\ body' = body /\ phdr' = phdr /\ pbody' = pbody
    /\ \A u \in Thread \ {t} : th'[u] = th[u]
    /\ th[t].pc \notin Dirtying
    /\ th'[t].pc \in {"idle", "read", "acquire", "write", "invalidate"}
    /\ th'[t].pc = "acquire" => th'[t].rec = None
    /\ issued \subseteq issued' /\ busy' \subseteq busy
    /\ t \in Agreeing'
    /\ \A k \in Key : index[k] # {} => index'[k] # {}

(* It keeps what the invariant says about the lines. *)
LEMMA OpenLines ==
    ASSUME SInv, TypeOK', NEW t \in Thread, OpenStep(t)
    PROVE  ModeInv' /\ Thread \subseteq Agreeing' /\ CleanInv' /\ NoTornRecord' /\ OlderReleased'
<1>1. /\ mode = "open" /\ mode' = mode /\ todo' = todo
      /\ hdr' = hdr /\ body' = body /\ phdr' = phdr /\ pbody' = pbody
      /\ issued \subseteq issued' /\ busy' \subseteq busy
  BY Zenon DEF OpenStep
<1>2. /\ \A u \in Thread \ {t} : th'[u] = th[u]
      /\ th[t].pc \notin Dirtying
      /\ th'[t].pc \in {"idle", "read", "acquire", "write", "invalidate"}
      /\ th'[t].pc = "acquire" => th'[t].rec = None
      /\ t \in Agreeing' /\ \A k \in Key : index[k] # {} => index'[k] # {}
  BY Zenon DEF OpenStep
<1>3. ModeInv'
  <2>1. \A u \in Thread : /\ th'[u].pc \in Writing \union {"read"} => mode' = "open"
                          /\ th'[u].pc \in Scanning => mode' = "recover"
                          /\ th'[u].pc \in Scanning \ {"drop"} => th'[u].key \in Key
                          /\ th'[u].pc \in {"acquire", "load", "cas"} => th'[u].rec = None
    BY <1>1, <1>2, Zenon DEF SInv, ModeInv, Scanning, Writing
  <2> QED BY <2>1, <1>1, ZenonT(30) DEF SInv, ModeInv
<1>4. ASSUME NEW u \in Thread \ {t} PROVE u \in Agreeing'
  <2>1. CASE th[u].pc \in Holding
    <3>1. th[u].rec \in Record
      BY <2>1, Zenon DEF SInv, BusyInv
    <3> QED BY <3>1, <1>1, <1>2, AgreeFrame, Zenon DEF SInv
  <2>2. CASE th[u].pc \notin Holding
    BY <1>1, <1>2, <2>2, AgreeWait, Zenon DEF SInv
  <2> QED BY <2>1, <2>2, Zenon
<1>5. CleanInv'
  <2>1. Clean' = Clean
    BY <1>1, Zenon DEF Clean
  <2>2. \A u \in Thread : th[u].pc \in Dirtying => th'[u] = th[u]
    BY <1>2, Zenon
  <2> QED BY <2>1, <2>2, SClean, SMTT(30) DEF CleanInv
<1>6. NoTornRecord'
  BY <1>1, Zenon DEF SInv, NoTornRecord, Surviving, Durable
<1>7. OlderReleased'
  BY <1>1, Zenon DEF OlderReleased
<1> QED BY <1>2, <1>3, <1>4, <1>5, <1>6, <1>7, Zenon

(* It keeps every reader's record when it keeps the guards of the others. *)
LEMMA OpenRead ==
    ASSUME SInv, NEW t \in Thread, OpenStep(t),
           \A u \in Thread \ {t} : th[u].pc = "read" /\ Guarded(u, th[u].rec)
               => th[u].rec \in Indexed' \/ \E x \in retired' : x.rec = th[u].rec /\ u \in x.waits,
           th'[t].pc = "read" =>
             /\ th'[t].rec \in Record /\ th'[t].rec \in Indexed'
             /\ hdr[th'[t].rec] = [inv |-> FALSE, tomb |-> FALSE, ver |-> th'[t].ver,
                                   key |-> th'[t].key]
             /\ body[th'[t].rec] = th'[t].val
    PROVE  ReadInv'
<1>1. hdr' = hdr /\ body' = body /\ \A u \in Thread \ {t} : th'[u] = th[u]
  BY Zenon DEF OpenStep
<1>2. ASSUME NEW u \in Thread \ {t}, th[u].pc = "read"
      PROVE  /\ th[u].rec \in Record
             /\ hdr[th[u].rec] = [inv |-> FALSE, tomb |-> FALSE, ver |-> th[u].ver, key |-> th[u].key]
             /\ body[th[u].rec] = th[u].val /\ Guarded(u, th[u].rec)
  BY <1>2, Zenon DEF SInv, ReadInv, Guarded
<1> QED BY <1>1, <1>2, ZenonT(30) DEF ReadInv

(* A record that is ready for the index holds the write of its call. *)
LEMMA ReadyFact ==
    ASSUME SInv, NEW t \in Thread, th[t].pc = "index"
    PROVE  LET r == th[t].rec IN
           /\ hdr[r].key = th[t].key /\ hdr[r].ver = th[t].ver /\ ~hdr[r].inv
           /\ hdr[r].tomb = (th[t].op = "remove") /\ Content(hdr[r], body[r]) = Intent(th[t])
<1>1. ~hdr[th[t].rec].inv /\ Content(hdr[th[t].rec], body[th[t].rec]) = Intent(th[t])
  BY Zenon DEF SInv, Agreeing
<1> QED BY <1>1, Zenon DEF Content, Intent

(* What a call that returns leaves alone, and what is known of its record. *)
LEMMA ReturnFact ==
    ASSUME SInv, NEW t \in Thread, Return(t)
    PROVE  /\ mode = "open" /\ th[t].pc = "index" /\ mode' = mode /\ todo' = todo
           /\ hdr' = hdr /\ body' = body /\ phdr' = phdr /\ pbody' = pbody
           /\ version' = version /\ issued' = issued /\ recovered' = recovered
           /\ tomb' \in Nat /\ Unscanned' = Unscanned
           /\ th' \in [Thread -> Call] /\ CallOnce' /\ InCall' = InCall \ {th[t].rec}
           /\ th'[t] = IdleCall /\ \A u \in Thread \ {t} : th'[u] = th[u]
           /\ th[t].rec \in Record /\ th[t].key \in Key /\ th[t].rec \in busy
           /\ th[t].rec \in InCall /\ th[t].rec \notin Indexed /\ th[t].rec \notin InLimbo
           /\ th[t].rec \notin InEpoch /\ th[t].rec \notin Unscanned /\ th[t].rec \notin free
           /\ \A u \in Thread \ {t} : th[u].pc \in Holding => th[u].rec # th[t].rec
<1>1. /\ mode = "open" /\ th[t].pc = "index" /\ mode' = mode /\ todo' = todo
      /\ hdr' = hdr /\ body' = body /\ phdr' = phdr /\ pbody' = pbody
      /\ version' = version /\ issued' = issued /\ recovered' = recovered
      /\ th' = [th EXCEPT ![t] = IdleCall]
      /\ tomb' = IF th[t].op = "remove" THEN tomb + 1 ELSE tomb
  BY Zenon DEF Return, Running, lines
<1>2. tomb' \in Nat /\ Unscanned' = Unscanned
  BY <1>1, SType, SMTT(30) DEF TypeOK, Unscanned
<1>3. /\ th[t].pc \in Filling /\ th[t].pc \in Holding
      /\ th[t].pc \notin {"write", "publish"}
  BY <1>1, Zenon DEF Holding, Filling, Writing
<1>4. /\ th' \in [Thread -> Call] /\ CallOnce' /\ InCall' = InCall \ {th[t].rec}
      /\ th'[t] = IdleCall /\ \A u \in Thread \ {t} : th'[u] = th[u]
  <2>1. th \in [Thread -> Call] /\ CallOnce
    BY Zenon DEF SInv, TypeOK, OnceInv
  <2> QED BY <2>1, <1>1, <1>3, IdleFact, Leave, Zenon
<1>5. th[t].rec \in Record /\ th[t].key \in Key /\ th[t].rec \in busy
  BY <1>1, <1>3, CallKnown, Zenon
<1>6. /\ th[t].rec \notin Indexed /\ th[t].rec \notin InLimbo
      /\ th[t].rec \notin InEpoch /\ th[t].rec \notin Unscanned /\ th[t].rec \notin free
      /\ \A u \in Thread \ {t} : th[u].pc \in Holding => th[u].rec # th[t].rec
  BY <1>3, Elsewhere, Zenon DEF SInv
<1>7. th[t].rec \in InCall
  BY <1>3, CallFact, Zenon
<1> QED BY <1>1, <1>2, <1>4, <1>5, <1>6, <1>7, Zenon

(* A call that returns may put its record in the index; the versions are   *)
(* covered either way, and the records of the other calls keep their       *)
(* tokens.                                                                 *)
LEMMA ReturnRest ==
    ASSUME SInv, NEW t \in Thread, Return(t), busy' = busy \/ busy' = busy \ {th[t].rec},
           \A k \in Key : \A r \in index'[k] : r \in index[k] \/ (r = th[t].rec /\ k = th[t].key),
           \A k \in Key : index[k] # {} => index'[k] # {}
    PROVE  OpenStep(t) /\ BusyInv' /\ VerInv'
<1>1. /\ mode = "open" /\ th[t].pc = "index" /\ mode' = mode /\ todo' = todo
      /\ hdr' = hdr /\ body' = body /\ phdr' = phdr /\ pbody' = pbody
      /\ version' = version /\ issued' = issued /\ th'[t] = IdleCall
      /\ \A u \in Thread \ {t} : th'[u] = th[u]
      /\ \A u \in Thread \ {t} : th[u].pc \in Holding => th[u].rec # th[t].rec
  BY ReturnFact, Zenon
<1>2. th'[t].pc = "idle" /\ th'[t].pc \notin Holding /\ th'[t].pc \notin Writing
  BY <1>1, IdleFact, Zenon DEF Holding, Filling
<1>3. OpenStep(t)
  BY <1>1, <1>2, AgreeIdle, Zenon DEF OpenStep, Dirtying
<1>4. BusyInv'
  BY <1>1, <1>2, SBusy, SMTT(30) DEF BusyInv
<1>5. VerInv'
  <2>1. hdr[th[t].rec].ver = th[t].ver /\ th[t].ver < version[SlotOf[th[t].key]]
    BY <1>1, ReadyFact, Zenon DEF SInv, VerInv, Writing
  <2>2. th[t].ver \in Nat /\ version[SlotOf[th[t].key]] \in Nat
    <3>1. th[t].pc \in Filling
      BY <1>1, Zenon DEF Filling, Writing
    <3>2. th[t].ver \in Nat /\ th[t].key \in Key
      BY <3>1, CallKnown, Zenon
    <3>3. SlotOf[th[t].key] \in Slot
      BY <3>2, Zenon DEF Slot
    <3> QED BY <3>2, <3>3, SType, Zenon DEF TypeOK
  <2>3. hdr[th[t].rec].ver <= version[SlotOf[th[t].key]]
    BY <2>1, <2>2
  <2>4. \A u \in Thread : th[u].pc \in {"retire", "load", "cas"} => th'[u] = th[u]
    BY <1>1, Zenon
  <2>5. \A u \in Thread : th'[u].pc \in Writing => th'[u].ver < version'[SlotOf[th'[u].key]]
    BY <1>1, <1>2, ZenonT(30) DEF SInv, VerInv
  <2>6. \A k \in Key : \A r \in index[k] :
          \/ hdr[r].ver <= version[SlotOf[k]]
          \/ \E u \in Thread : /\ th[u].pc \in {"retire", "load", "cas"}
                               /\ th[u].key = k /\ th[u].ver = hdr[r].ver
    BY Zenon DEF SInv, VerInv
  <2>7. \A k \in Key : \A r \in index'[k] :
          \/ hdr'[r].ver <= version'[SlotOf[k]]
          \/ \E u \in Thread : /\ th'[u].pc \in {"retire", "load", "cas"}
                               /\ th'[u].key = k /\ th'[u].ver = hdr'[r].ver
    BY <2>3, <2>4, <2>6, <1>1, SMTT(30)
  <2> QED BY <2>5, <2>7, Zenon DEF VerInv
<1> QED BY <1>3, <1>4, <1>5, Zenon

(* The guards of the other readers survive a step that keeps the closures  *)
(* that wait for them.                                                     *)
LEMMA KeepGuards ==
    ASSUME NEW t \in Thread, Indexed \subseteq Indexed',
           \A x \in retired, u \in Thread \ {t} :
                 u \in x.waits => \E y \in retired' : y.rec = x.rec /\ u \in y.waits
    PROVE  \A u \in Thread \ {t} : th[u].pc = "read" /\ Guarded(u, th[u].rec)
               => th[u].rec \in Indexed' \/ \E x \in retired' : x.rec = th[u].rec /\ u \in x.waits
  BY DEF Guarded

(* The record that a call gets: the first of its limbo list, whose token   *)
(* stays hired, or a free region.                                          *)
LEMMA AcquiredFact ==
    ASSUME SInv, NEW t \in Thread, NEW a \in Acquired(t), free' = free \ {a.rec},
           limbo' = IF a.pc = "write" THEN limbo ELSE [limbo EXCEPT ![t] = Tail(@)]
    PROVE  /\ a.rec \in Record /\ a.rec \notin Indexed /\ a.rec \notin InEpoch
           /\ a.rec \notin InCall /\ a.rec \notin Unscanned /\ a.rec \notin free'
           /\ a.rec \notin InLimbo' /\ InLimbo' \subseteq InLimbo
           /\ InLimbo \subseteq InLimbo' \union {a.rec}
           /\ limbo' \in [Thread -> Seq(Record)] /\ LimboOnce'
           /\ a.pc \in {"write", "invalidate"} /\ (a.rec \in busy <=> a.pc = "invalidate")
           /\ MaxLimbo = 0 => limbo' = limbo
<1>1. /\ limbo \in [Thread -> Seq(Record)] /\ LimboOnce /\ ApartInv
      /\ free \subseteq Record
  BY Zenon DEF SInv, OnceInv, TypeOK
<1>2. MaxLimbo = 0 => limbo[t] = <<>>
  BY Zenon DEF SInv, KeepInv
<1>3. CASE limbo[t] # <<>>
  <2>1. a = [rec |-> Head(limbo[t]), pc |-> "invalidate"]
    BY <1>3, Zenon DEF Acquired
  <2>2. a.rec = Head(limbo[t]) /\ a.pc = "invalidate"
    BY <2>1, Zenon
  <2>3. limbo' = [limbo EXCEPT ![t] = Tail(@)]
    BY <2>2, Zenon
  <2>4. /\ limbo' \in [Thread -> Seq(Record)] /\ LimboOnce' /\ a.rec \in InLimbo
        /\ a.rec \in Record /\ InLimbo' = InLimbo \ {a.rec}
    BY <2>2, <2>3, <1>1, <1>3, LimboPop, Zenon
  <2> QED BY <2>2, <2>4, <1>1, <1>2, <1>3, Zenon DEF ApartInv
<1>4. CASE limbo[t] = <<>>
  <2>1. PICK r \in free : a = [rec |-> r, pc |-> "write"]
    BY <1>4, Zenon DEF Acquired
  <2>2. a.rec = r /\ a.pc = "write" /\ limbo' = limbo
    BY <2>1, Zenon
  <2>3. InLimbo' = InLimbo /\ LimboOnce'
    BY <2>2, <1>1 DEF InLimbo, Limboed, LimboOnce
  <2> QED BY <2>2, <2>3, <1>1, Zenon DEF ApartInv
<1> QED BY <1>3, <1>4, Zenon

(* A call that begins keeps the invariant: its version is below the one    *)
(* that the table holds now.                                               *)
LEMMA BeginStep ==
    ASSUME SInv, Cardinality(issued) \in Nat,
           NEW t \in Thread, NEW o \in Ops, NEW k \in Key, Begin(t, o, k)
    PROVE  SInv'
<1> DEFINE c == [pc |-> "acquire", op |-> o, key |-> k, ver |-> version[SlotOf[k]],
                 val |-> IF o = "remove" THEN 0 ELSE Cardinality(issued) + 1, rec |-> None]
<1>1. /\ mode = "open" /\ th[t].pc = "idle" /\ mode' = mode /\ todo' = todo
      /\ hdr' = hdr /\ body' = body /\ phdr' = phdr /\ pbody' = pbody /\ busy' = busy
      /\ free' = free /\ index' = index /\ limbo' = limbo /\ retired' = retired
      /\ tomb' = tomb /\ acked' = acked /\ recovered' = recovered
      /\ version' = [version EXCEPT ![SlotOf[k]] = @ + 1]
      /\ o \in {"update", "remove"} \ MissingKeys => Found(k) # {}
  BY Zenon DEF Begin, Running, lines
<1>2. th' = [th EXCEPT ![t] = c] /\ issued' = issued \union {Intent(c)}
  BY Zenon DEF Begin
<1>3. /\ Cardinality(issued) \in Nat /\ o \in {"upsert", "update", "remove"}
      /\ SlotOf[k] \in Slot /\ version[SlotOf[k]] \in Nat /\ version \in [Slot -> Nat]
  BY OpAssumption, ZenonT(30) DEF SInv, TypeOK, Slot
<1>4. /\ c.pc = "acquire" /\ c.op = o /\ c.key = k /\ c.ver = version[SlotOf[k]]
      /\ c.rec = None /\ (c.op = "remove" => c.val = 0) /\ c.val \in Nat
  BY <1>3
<1>5. c \in Call /\ Intent(c) \in Write
  BY <1>3, <1>4, Zenon DEF Call, Intent, Write, Value
<1> HIDE DEF c
<1>6. /\ th' \in [Thread -> Call] /\ CallOnce' /\ InCall' = InCall
      /\ th'[t] = c /\ \A u \in Thread \ {t} : th'[u] = th[u]
  <2>1. th \in [Thread -> Call] /\ CallOnce /\ th[t].pc \notin Holding /\ c.pc \notin Holding
    BY <1>1, <1>4, ZenonT(30) DEF SInv, TypeOK, OnceInv, Holding, Filling, Writing
  <2> QED BY <2>1, <1>2, <1>5, Aside, ZenonT(30)
<1>7. version' \in [Slot -> Nat] /\ \A s \in Slot : version'[s] >= version[s]
      /\ version'[SlotOf[k]] = version[SlotOf[k]] + 1
  BY <1>1, <1>3
<1>8. TypeOK'
  <2>1. issued' \subseteq Write
    BY <1>2, <1>5, Zenon DEF SInv, TypeOK
  <2> QED BY <2>1, <1>1, <1>6, <1>7, ZenonT(30) DEF SInv, TypeOK
<1>9. OpenStep(t)
  <2>1. t \in Agreeing'
    <3>1. th'[t].op \in {"update", "remove"} \ MissingKeys => index'[th'[t].key] # {}
      BY <1>1, <1>4, <1>6, FoundFact, Zenon DEF SInv
    <3>2. Intent(th'[t]) \in issued'
      BY <1>2, <1>6, Zenon
    <3> QED BY <3>1, <3>2, <1>3, <1>4, <1>6, Zenon DEF Agreeing, Dirtying
  <2> QED BY <2>1, <1>1, <1>2, <1>4, <1>6, Zenon DEF OpenStep, Dirtying
<1>10. /\ Indexed' = Indexed /\ InEpoch' = InEpoch /\ Unscanned' = Unscanned
       /\ InLimbo' = InLimbo
  BY <1>1, SMTT(30) DEF Indexed, InEpoch, Unscanned, InLimbo, Limboed
<1>11. OnceInv'
  BY <1>1, <1>6, SOnce, SMTT(30) DEF OnceInv, IndexOnce, LimboOnce, EpochOnce
<1>12. ApartInv'
  BY <1>1, <1>6, <1>10, SApart, ZenonT(30) DEF ApartInv
<1>13. BusyInv'
  <2>1. th'[t].pc \notin Holding
    BY <1>4, <1>6, Zenon DEF Holding, Filling, Writing
  <2> QED BY <2>1, <1>1, <1>6, ZenonT(30) DEF SInv, BusyInv
<1>14. IndexInv'
  BY <1>1, Zenon DEF SInv, IndexInv
<1>15. ReadInv'
  <2>1. th'[t].pc # "read"
    BY <1>4, <1>6, Zenon
  <2> QED BY <2>1, <1>1, <1>9, <1>10, OpenRead, Zenon DEF Guarded
<1>16. KeepInv'
  <2>1. OlderReleased'
    BY <1>8, <1>9, OpenLines, Zenon
  <2> QED BY <2>1, <1>1, <1>6, <1>10, ZenonT(30) DEF SInv, KeepInv
<1>17. VerInv'
  <2>1. \A l \in Key : SlotOf[l] \in Slot
    BY Zenon DEF Slot
  <2>2. \A l \in Key : \A r \in index[l] : hdr[r].ver \in Nat
    BY Zenon DEF SInv, TypeOK, Header
  <2>3. \A u \in Thread \ {t} : th[u].pc \in Writing => th[u].key \in Key /\ th[u].ver \in Nat
    BY ZenonT(30) DEF SInv, TypeOK, Call, Agreeing
  <2>4. \A u \in Thread : th'[u].pc \in Writing => th'[u].ver < version'[SlotOf[th'[u].key]]
    <3> SUFFICES ASSUME NEW u \in Thread, th'[u].pc \in Writing
                 PROVE  th'[u].ver < version'[SlotOf[th'[u].key]]
      BY Zenon
    <3>1. CASE u = t
      <4>1. th'[u].ver = version[SlotOf[k]] /\ th'[u].key = k
        BY <3>1, <1>4, <1>6, Zenon
      <4>2. version[SlotOf[k]] \in Nat /\ version'[SlotOf[k]] = version[SlotOf[k]] + 1
        BY <1>3, <1>7, Zenon
      <4> QED BY <4>1, <4>2
    <3>2. CASE u # t
      <4>1. /\ th'[u] = th[u] /\ th[u].ver < version[SlotOf[th[u].key]]
            /\ th[u].ver \in Nat /\ SlotOf[th[u].key] \in Slot
        BY <3>2, <1>6, <2>1, <2>3, SVer, ZenonT(30) DEF VerInv
      <4>2. /\ version[SlotOf[th[u].key]] \in Nat /\ version'[SlotOf[th[u].key]] \in Nat
            /\ version'[SlotOf[th[u].key]] >= version[SlotOf[th[u].key]]
        BY <4>1, <1>3, <1>7, Zenon
      <4> QED BY <4>1, <4>2
    <3> QED BY <3>1, <3>2, Zenon
  <2>5. th[t].pc \notin {"retire", "load", "cas"}
    BY <1>1, Zenon
  <2>6. ASSUME NEW l \in Key, NEW r \in index[l], hdr[r].ver <= version[SlotOf[l]]
        PROVE  hdr[r].ver <= version'[SlotOf[l]]
    <3>1. /\ hdr[r].ver \in Nat /\ version[SlotOf[l]] \in Nat /\ version'[SlotOf[l]] \in Nat
          /\ version'[SlotOf[l]] >= version[SlotOf[l]]
      BY <2>1, <2>2, <1>3, <1>7, Zenon
    <3> QED BY <3>1, <2>6
  <2>7. index' = index /\ hdr' = hdr
    BY <1>1, Zenon
  <2>8. ASSUME NEW l \in Key, NEW r \in index'[l]
        PROVE  \/ hdr'[r].ver <= version'[SlotOf[l]]
               \/ \E u \in Thread : /\ th'[u].pc \in {"retire", "load", "cas"}
                                   /\ th'[u].key = l /\ th'[u].ver = hdr'[r].ver
    <3>1. r \in index[l]
      BY <2>7, <2>8, Zenon
    <3>2. CASE hdr[r].ver <= version[SlotOf[l]]
      BY <3>1, <3>2, <2>6, <2>7, Zenon
    <3>3. CASE \E u \in Thread : /\ th[u].pc \in {"retire", "load", "cas"}
                               /\ th[u].key = l /\ th[u].ver = hdr[r].ver
      BY <3>3, <2>5, <2>7, <1>6, Zenon
    <3> QED BY <3>1, <3>2, <3>3, SVer, Zenon DEF VerInv
  <2> QED BY <2>4, <2>8, Zenon DEF VerInv
<1> QED
  BY <1>8, <1>9, <1>11, <1>12, <1>13, <1>14, <1>15, <1>16, <1>17, OpenLines, ZenonT(30) DEF SInv

(* What Acquire does to the thread that takes a record. *)
LEMMA AcquireMove ==
    ASSUME th \in [Thread -> Call], NEW t \in Thread, NEW a \in Acquired(t),
           a.pc \in {"write", "invalidate"}, a.rec \in Record,
           th' = [th EXCEPT ![t].pc = a.pc, ![t].rec = a.rec]
    PROVE  \E c \in Call : /\ th' = [th EXCEPT ![t] = c] /\ c.pc = a.pc /\ c.rec = a.rec
                           /\ c.op = th[t].op /\ c.key = th[t].key /\ c.ver = th[t].ver
                           /\ c.val = th[t].val
<1> DEFINE c == [th[t] EXCEPT !.pc = a.pc, !.rec = a.rec]
<1>1. th' = [th EXCEPT ![t] = c]
  BY Zenon
<1>2. /\ c \in Call /\ c.pc = a.pc /\ c.rec = a.rec /\ c.op = th[t].op
      /\ c.key = th[t].key /\ c.ver = th[t].ver /\ c.val = th[t].val
  BY Zenon DEF Call
<1> HIDE DEF c
<1> QED BY <1>1, <1>2, Zenon

(* A call that takes a record keeps the invariant: it has the record for   *)
(* itself.                                                                 *)
LEMMA AcquireStep ==
    ASSUME SInv, NEW t \in Thread, Acquire(t)
    PROVE  SInv'
<1>1. /\ mode = "open" /\ th[t].pc = "acquire" /\ mode' = mode /\ todo' = todo
      /\ hdr' = hdr /\ body' = body /\ phdr' = phdr /\ pbody' = pbody /\ busy' = busy
      /\ index' = index /\ version' = version /\ retired' = retired /\ tomb' = tomb
      /\ issued' = issued /\ acked' = acked /\ recovered' = recovered
  BY Zenon DEF Acquire, Running, lines, ghosts
<1>2. PICK a \in Acquired(t) :
         /\ th' = [th EXCEPT ![t].pc = a.pc, ![t].rec = a.rec]
         /\ limbo' = IF a.pc = "write" THEN limbo ELSE [limbo EXCEPT ![t] = Tail(@)]
         /\ free' = free \ {a.rec}
  BY Zenon DEF Acquire
<1>3. /\ a.rec \in Record /\ a.rec \notin Indexed /\ a.rec \notin InEpoch
      /\ a.rec \notin InCall /\ a.rec \notin Unscanned /\ a.rec \notin free'
      /\ a.rec \notin InLimbo' /\ InLimbo' \subseteq InLimbo
      /\ InLimbo \subseteq InLimbo' \union {a.rec}
      /\ limbo' \in [Thread -> Seq(Record)] /\ LimboOnce'
      /\ a.pc \in {"write", "invalidate"} /\ (a.rec \in busy <=> a.pc = "invalidate")
      /\ MaxLimbo = 0 => limbo' = limbo
  BY <1>2, AcquiredFact, Zenon
<1>4. PICK c \in Call : /\ th' = [th EXCEPT ![t] = c] /\ c.pc = a.pc /\ c.rec = a.rec
                        /\ c.op = th[t].op /\ c.key = th[t].key /\ c.ver = th[t].ver
                        /\ c.val = th[t].val
  <2>1. th \in [Thread -> Call]
    BY SType, Zenon DEF TypeOK
  <2>2. /\ a.pc \in {"write", "invalidate"} /\ a.rec \in Record
        /\ th' = [th EXCEPT ![t].pc = a.pc, ![t].rec = a.rec]
    BY <1>2, <1>3, Zenon
  <2> QED BY <2>1, <2>2, AcquireMove, Zenon
<1>5. /\ th' \in [Thread -> Call] /\ CallOnce' /\ InCall' = InCall \union {a.rec}
      /\ th'[t] = c /\ \A u \in Thread \ {t} : th'[u] = th[u]
  <2>1. th \in [Thread -> Call] /\ CallOnce /\ th[t].pc \notin Holding /\ c.pc \in Holding
    BY <1>1, <1>3, <1>4, ZenonT(30) DEF SInv, TypeOK, OnceInv, Holding, Filling, Writing
  <2> QED BY <2>1, <1>3, <1>4, Enter, ZenonT(30)
<1>6. TypeOK'
  BY <1>1, <1>2, <1>3, <1>5, ZenonT(30) DEF SInv, TypeOK
<1>7. OpenStep(t)
  <2>1. t \in Agreeing'
    <3>1. /\ th[t].key \in Key /\ th[t].op \in {"upsert", "update", "remove"}
          /\ Intent(th[t]) \in issued /\ (th[t].op = "remove" => th[t].val = 0)
          /\ th[t].op \in {"update", "remove"} \ MissingKeys => index[th[t].key] # {}
      BY <1>1, Zenon DEF SInv, Agreeing, Writing
    <3>2. Intent(th'[t]) = Intent(th[t])
      BY <1>4, <1>5, Zenon DEF Intent
    <3>3. th'[t].pc \in {"write", "invalidate"}
      BY <1>3, <1>4, <1>5, Zenon
    <3>4. /\ th'[t].key \in Key /\ th'[t].op \in {"upsert", "update", "remove"}
          /\ Intent(th'[t]) \in issued' /\ (th'[t].op = "remove" => th'[t].val = 0)
          /\ th'[t].op \in {"update", "remove"} \ MissingKeys => index'[th'[t].key] # {}
      BY <3>1, <3>2, <1>1, <1>4, <1>5, Zenon
    <3> QED BY <3>3, <3>4, Zenon DEF Agreeing, Dirtying
  <2>2. th'[t].pc \in {"write", "invalidate"} /\ th[t].pc \notin Dirtying
    BY <1>1, <1>3, <1>4, <1>5, Zenon DEF Dirtying
  <2> QED BY <2>1, <2>2, <1>1, <1>5, Zenon DEF OpenStep
<1>8. Indexed' = Indexed /\ InEpoch' = InEpoch /\ Unscanned' = Unscanned
  BY <1>1, Zenon DEF Indexed, InEpoch, Unscanned
<1>9. OnceInv'
  BY <1>1, <1>3, <1>5, ZenonT(30) DEF SInv, OnceInv, IndexOnce, EpochOnce
<1>10. ApartInv'
  <2>1. /\ ApartInv /\ InCall' = InCall \union {a.rec}
        /\ Indexed' = Indexed /\ InEpoch' = InEpoch /\ Unscanned' = Unscanned
        /\ busy' = busy /\ free' = free \ {a.rec}
    BY <1>1, <1>2, <1>5, <1>8, SApart, Zenon
  <2> QED BY <2>1, <1>3, ZenonT(30) DEF ApartInv
<1>11. BusyInv'
  <2>1. /\ th'[t].rec = a.rec /\ a.rec \in Record
        /\ (a.rec \in busy' <=> th'[t].pc \notin {"write", "publish"})
    BY <1>1, <1>3, <1>4, <1>5, Zenon
  <2> QED BY <2>1, <1>1, <1>5, ZenonT(30) DEF SInv, BusyInv
<1>12. IndexInv'
  BY <1>1, Zenon DEF SInv, IndexInv
<1>13. ReadInv'
  <2>1. th'[t].pc # "read"
    BY <1>3, <1>4, <1>5, Zenon
  <2> QED BY <2>1, <1>1, <1>7, <1>8, OpenRead, Zenon DEF Guarded
<1>14. KeepInv'
  <2>1. OlderReleased'
    BY <1>6, <1>7, OpenLines, Zenon
  <2>2. free \subseteq free' \union {a.rec}
    BY <1>2, ZenonT(30)
  <2> QED BY <2>1, <2>2, <1>1, <1>3, <1>5, <1>8, ZenonT(30) DEF SInv, KeepInv
<1>15. VerInv'
  <2>1. \A u \in Thread : /\ th'[u].ver = th[u].ver /\ th'[u].key = th[u].key
                          /\ th'[u].pc \in Writing => th[u].pc \in Writing
                          /\ th[u].pc \in {"retire", "load", "cas"} => th'[u] = th[u]
    BY <1>1, <1>4, <1>5, ZenonT(30) DEF Writing
  <2>2. \A u \in Thread : th'[u].pc \in Writing => th'[u].ver < version'[SlotOf[th'[u].key]]
    BY <2>1, <1>1, SVer, ZenonT(30) DEF VerInv
  <2>3. ASSUME NEW l \in Key, NEW r \in index'[l]
        PROVE  \/ hdr'[r].ver <= version'[SlotOf[l]]
               \/ \E u \in Thread : /\ th'[u].pc \in {"retire", "load", "cas"}
                                   /\ th'[u].key = l /\ th'[u].ver = hdr'[r].ver
    <3>1. r \in index[l] /\ hdr' = hdr /\ version' = version
      BY <2>3, <1>1, Zenon
    <3>2. \/ hdr[r].ver <= version[SlotOf[l]]
          \/ \E u \in Thread : /\ th[u].pc \in {"retire", "load", "cas"}
                              /\ th[u].key = l /\ th[u].ver = hdr[r].ver
      BY <3>1, SVer, Zenon DEF VerInv
    <3> QED BY <3>1, <3>2, <2>1, Zenon
  <2> QED BY <2>2, <2>3, Zenon DEF VerInv
<1> QED
  BY <1>6, <1>7, <1>9, <1>10, <1>11, <1>12, <1>13, <1>14, <1>15, OpenLines, ZenonT(30) DEF SInv

(* What is acknowledged is a set of writes. *)
LEMMA AckFact ==
    ASSUME SInv, NEW t \in Thread, th[t].pc = "index"
    PROVE  Acknowledged(Intent(th[t])) \in [Key -> SUBSET Write]
<1>1. Intent(th[t]) \in Write /\ acked \in [Key -> SUBSET Write]
  <2>1. th[t].pc \in Filling
    BY Zenon DEF Filling, Writing
  <2>2. Intent(th[t]) \in issued
    BY <2>1, CallKnown, Zenon
  <2> QED BY <2>2, SType, Zenon DEF TypeOK
<1>2. Intent(th[t]).key \in Key
  BY <1>1, Zenon DEF Write
<1> QED BY <1>1, <1>2, Zenon DEF Acknowledged

(* A record that enters the index keeps the invariant: a remove finds a    *)
(* record of its key, so no record is in the index and in limbo.           *)
LEMMA InsertStep ==
    ASSUME SInv, "remove" \notin MissingKeys, NEW t \in Thread, Insert(t)
    PROVE  SInv'
<1> DEFINE c == th[t]
<1>1. /\ Return(t) /\ c.op # "update" /\ Found(c.key) = {} /\ retired' = Left(t)
      /\ index' = [index EXCEPT ![c.key] = @ \union {c.rec}]
      /\ c.op # "remove" => /\ acked' = Acknowledged(Intent(c)) /\ limbo' = limbo
                            /\ busy' = busy /\ free' = free
  BY Zenon DEF Insert
<1>2. /\ mode = "open" /\ c.pc = "index" /\ mode' = mode /\ todo' = todo
      /\ hdr' = hdr /\ body' = body /\ phdr' = phdr /\ pbody' = pbody
      /\ version' = version /\ issued' = issued /\ recovered' = recovered
      /\ tomb' \in Nat /\ Unscanned' = Unscanned
      /\ th' \in [Thread -> Call] /\ CallOnce' /\ InCall' = InCall \ {c.rec}
      /\ th'[t] = IdleCall
  BY <1>1, ReturnFact, Zenon
<1>3. /\ c.rec \in Record /\ c.key \in Key /\ c.rec \in busy
      /\ c.rec \in InCall /\ c.rec \notin Indexed /\ c.rec \notin InLimbo
      /\ c.rec \notin InEpoch /\ c.rec \notin Unscanned /\ c.rec \notin free
  BY <1>1, ReturnFact, Zenon
<1>4. index[c.key] = {} /\ c.op # "remove"
  <2>1. c.pc \in Filling
    BY <1>2, Zenon DEF Filling, Writing
  <2>2. c.op \in {"update", "remove"} \ MissingKeys => index[c.key] # {}
    BY <2>1, CallKnown, Zenon
  <2> QED BY <2>2, <1>1, <1>2, <1>3, FoundFact, Zenon DEF SInv
<1>5. acked' = Acknowledged(Intent(c)) /\ limbo' = limbo /\ busy' = busy /\ free' = free
  BY <1>1, <1>4, Zenon
<1>6. /\ index' \in [Key -> SUBSET Record] /\ IndexOnce' /\ Indexed' = Indexed \union {c.rec}
      /\ index'[c.key] = index[c.key] \union {c.rec}
      /\ \A l \in Key \ {c.key} : index'[l] = index[l]
  BY <1>1, <1>3, IndexAdd, ZenonT(30) DEF SInv, TypeOK, OnceInv
<1>7. /\ retired' \subseteq Closure /\ EpochOnce' /\ InEpoch' = InEpoch
      /\ \A x \in retired, u \in Thread \ {t} :
            u \in x.waits => \E y \in retired' : y.rec = x.rec /\ u \in y.waits
  BY <1>1, EpochLeft, ZenonT(30) DEF SInv, TypeOK, OnceInv
<1>8. InLimbo' = InLimbo /\ LimboOnce'
  BY <1>5, SameLimbo, Zenon
<1>9. OpenStep(t) /\ BusyInv' /\ VerInv'
  BY <1>1, <1>3, <1>5, <1>6, ReturnRest, ZenonT(30)
<1>10. TypeOK'
  BY <1>2, <1>5, <1>6, <1>7, AckFact, ZenonT(30) DEF SInv, TypeOK
<1>11. OnceInv'
  BY <1>2, <1>6, <1>7, <1>8, ZenonT(30) DEF OnceInv
<1>12. ApartInv'
  <2>1. /\ ApartInv /\ Indexed' = Indexed \union {c.rec} /\ InCall' = InCall \ {c.rec}
        /\ InLimbo' = InLimbo /\ InEpoch' = InEpoch /\ Unscanned' = Unscanned
        /\ busy' = busy /\ free' = free
    BY <1>2, <1>5, <1>6, <1>7, <1>8, SApart, Zenon
  <2> QED BY <2>1, <1>3, ZenonT(30) DEF ApartInv
<1>13. IndexInv'
  <2>1. hdr[c.rec].key = c.key /\ ~hdr[c.rec].inv
    BY <1>2, ReadyFact, Zenon
  <2>2. hdr' = hdr /\ index'[c.key] = {c.rec} /\ \A l \in Key \ {c.key} : index'[l] = index[l]
    BY <1>2, <1>4, <1>6, Zenon
  <2>3. ASSUME NEW l \in Key, NEW r \in index'[l]
        PROVE  hdr'[r].key = l /\ ~hdr'[r].inv /\ \A q \in index'[l] : q = r
    <3>1. CASE l = c.key
      BY <3>1, <2>1, <2>2, <2>3, Zenon
    <3>2. CASE l # c.key
      BY <3>2, <2>2, <2>3, SIndex, Zenon DEF IndexInv
    <3> QED BY <3>1, <3>2, Zenon
  <2> QED BY <2>3, Zenon DEF IndexInv
<1>14. ReadInv'
  <2>1. th'[t].pc # "read"
    BY <1>2, IdleFact, Zenon
  <2> QED BY <2>1, <1>6, <1>7, <1>9, OpenRead, KeepGuards, Zenon
<1>15. ModeInv' /\ Thread \subseteq Agreeing' /\ CleanInv' /\ NoTornRecord' /\ OlderReleased'
  BY <1>9, <1>10, OpenLines, Zenon
<1>16. KeepInv'
  BY <1>2, <1>3, <1>5, <1>6, <1>7, <1>8, <1>15, ZenonT(30) DEF SInv, KeepInv
<1> QED BY <1>9, <1>10, <1>11, <1>12, <1>13, <1>14, <1>15, <1>16, ZenonT(30) DEF SInv

(* An update of an absent key keeps the invariant: its record goes back.   *)
LEMMA UpdateMissingStep ==
    ASSUME SInv, NEW t \in Thread, UpdateMissing(t)
    PROVE  SInv'
<1> DEFINE c == th[t]
<1>1. /\ Return(t) /\ retired' = Left(t) /\ LimboRelease(t, c.rec)
      /\ index' = index /\ acked' = acked
  BY Zenon DEF UpdateMissing
<1>2. /\ mode = "open" /\ c.pc = "index" /\ mode' = mode /\ todo' = todo
      /\ hdr' = hdr /\ body' = body /\ phdr' = phdr /\ pbody' = pbody
      /\ version' = version /\ issued' = issued /\ recovered' = recovered
      /\ tomb' \in Nat /\ Unscanned' = Unscanned
      /\ th' \in [Thread -> Call] /\ CallOnce' /\ InCall' = InCall \ {c.rec}
      /\ th'[t] = IdleCall
  BY <1>1, ReturnFact, Zenon
<1>3. /\ c.rec \in Record /\ c.key \in Key /\ c.rec \in busy
      /\ c.rec \in InCall /\ c.rec \notin Indexed /\ c.rec \notin InLimbo
      /\ c.rec \notin InEpoch /\ c.rec \notin Unscanned /\ c.rec \notin free
  BY <1>1, ReturnFact, Zenon
<1>4. /\ limbo' \in [Thread -> Seq(Record)] /\ LimboOnce' /\ (MaxLimbo = 0 => limbo' = limbo)
      /\ \/ InLimbo' = InLimbo \union {c.rec} /\ busy' = busy /\ free' = free
         \/ InLimbo' = InLimbo /\ busy' = busy \ {c.rec} /\ free' = free \union {c.rec}
  BY <1>1, <1>3, LimboGive, ZenonT(30) DEF SInv, TypeOK, OnceInv
<1>5. Indexed' = Indexed /\ IndexOnce'
  BY <1>1, Zenon DEF SInv, OnceInv, IndexOnce, Indexed
<1>6. /\ retired' \subseteq Closure /\ EpochOnce' /\ InEpoch' = InEpoch
      /\ \A x \in retired, u \in Thread \ {t} :
            u \in x.waits => \E y \in retired' : y.rec = x.rec /\ u \in y.waits
  BY <1>1, EpochLeft, Zenon DEF SInv, TypeOK, OnceInv
<1>7. OpenStep(t) /\ BusyInv' /\ VerInv'
  BY <1>1, <1>4, ReturnRest, Zenon
<1>8. TypeOK'
  BY <1>1, <1>2, <1>3, <1>4, <1>6, ZenonT(30) DEF SInv, TypeOK
<1>9. OnceInv'
  BY <1>2, <1>4, <1>5, <1>6, ZenonT(30) DEF OnceInv
<1>10. ApartInv'
  <2>1. /\ ApartInv /\ Indexed' = Indexed /\ InCall' = InCall \ {c.rec}
        /\ InEpoch' = InEpoch /\ Unscanned' = Unscanned
    BY <1>2, <1>5, <1>6, SApart, Zenon
  <2>2. CASE InLimbo' = InLimbo \union {c.rec} /\ busy' = busy /\ free' = free
    BY <2>1, <2>2, <1>3, ZenonT(30) DEF ApartInv
  <2>3. CASE InLimbo' = InLimbo /\ busy' = busy \ {c.rec} /\ free' = free \union {c.rec}
    BY <2>1, <2>3, <1>3, ZenonT(30) DEF ApartInv
  <2> QED BY <2>2, <2>3, <1>4, Zenon
<1>11. IndexInv'
  BY <1>1, <1>2, Zenon DEF SInv, IndexInv
<1>12. ReadInv'
  <2>1. th'[t].pc # "read"
    BY <1>2, IdleFact, Zenon
  <2> QED BY <2>1, <1>5, <1>6, <1>7, OpenRead, KeepGuards, Zenon
<1>13. ModeInv' /\ Thread \subseteq Agreeing' /\ CleanInv' /\ NoTornRecord' /\ OlderReleased'
  BY <1>7, <1>8, OpenLines, Zenon
<1>14. KeepInv'
  BY <1>2, <1>3, <1>4, <1>5, <1>6, <1>13, ZenonT(30) DEF SInv, KeepInv
<1> QED BY <1>7, <1>8, <1>9, <1>10, <1>11, <1>12, <1>13, <1>14, ZenonT(30) DEF SInv

(* An expired record keeps the invariant: it goes to the epoch.            *)
LEMMA ExpireStep ==
    ASSUME SInv, NEW t \in Thread, Expire(t)
    PROVE  SInv'
<1> DEFINE c == th[t]
<1>1. /\ Return(t) /\ retired' = Closures(t, c.rec) /\ acked' = Acknowledged(Intent(c))
      /\ index' = index /\ limbo' = limbo /\ busy' = busy /\ free' = free
  BY Zenon DEF Expire
<1>2. /\ mode = "open" /\ c.pc = "index" /\ mode' = mode /\ todo' = todo
      /\ hdr' = hdr /\ body' = body /\ phdr' = phdr /\ pbody' = pbody
      /\ version' = version /\ issued' = issued /\ recovered' = recovered
      /\ tomb' \in Nat /\ Unscanned' = Unscanned
      /\ th' \in [Thread -> Call] /\ CallOnce' /\ InCall' = InCall \ {c.rec}
      /\ th'[t] = IdleCall
  BY <1>1, ReturnFact, Zenon
<1>3. /\ c.rec \in Record /\ c.key \in Key /\ c.rec \in busy
      /\ c.rec \in InCall /\ c.rec \notin Indexed /\ c.rec \notin InLimbo
      /\ c.rec \notin InEpoch /\ c.rec \notin Unscanned /\ c.rec \notin free
  BY <1>1, ReturnFact, ZenonT(30)
<1>4. InLimbo' = InLimbo /\ LimboOnce' /\ Indexed' = Indexed /\ IndexOnce'
  BY <1>1, SOnce, SMTT(30) DEF OnceInv, InLimbo, Limboed, LimboOnce, IndexOnce, Indexed
<1>5. /\ retired' \subseteq Closure /\ EpochOnce' /\ InEpoch' = InEpoch \union {c.rec}
      /\ \A x \in retired, u \in Thread \ {t} :
            u \in x.waits => \E y \in retired' : y.rec = x.rec /\ u \in y.waits
  BY <1>1, <1>3, EpochRetire, ZenonT(30) DEF SInv, TypeOK, OnceInv
<1>6. OpenStep(t) /\ BusyInv' /\ VerInv'
  BY <1>1, ReturnRest, Zenon
<1>7. TypeOK'
  BY <1>1, <1>2, <1>5, AckFact, ZenonT(30) DEF SInv, TypeOK
<1>8. OnceInv'
  BY <1>2, <1>4, <1>5, ZenonT(30) DEF OnceInv
<1>9. ApartInv'
  <2>1. /\ ApartInv /\ Indexed' = Indexed /\ InCall' = InCall \ {c.rec}
        /\ InLimbo' = InLimbo /\ InEpoch' = InEpoch \union {c.rec} /\ Unscanned' = Unscanned
        /\ busy' = busy /\ free' = free
    BY <1>1, <1>2, <1>4, <1>5, SApart, Zenon
  <2> QED BY <2>1, <1>3, ZenonT(30) DEF ApartInv
<1>10. IndexInv'
  BY <1>1, <1>2, Zenon DEF SInv, IndexInv
<1>11. ReadInv'
  <2>1. th'[t].pc # "read"
    BY <1>2, IdleFact, Zenon
  <2> QED BY <2>1, <1>4, <1>5, <1>6, OpenRead, KeepGuards, ZenonT(30)
<1>12. ModeInv' /\ Thread \subseteq Agreeing' /\ CleanInv' /\ NoTornRecord' /\ OlderReleased'
  BY <1>6, <1>7, OpenLines, Zenon
<1>13. KeepInv'
  BY <1>1, <1>2, <1>3, <1>4, <1>5, <1>12, ZenonT(30) DEF SInv, KeepInv
<1> QED BY <1>6, <1>7, <1>8, <1>9, <1>10, <1>11, <1>12, <1>13, Zenon DEF SInv

(* Swinging a slot keeps the invariant: the record that leaves the index   *)
(* goes to the epoch, which waits for every reader of it.                  *)
LEMMA ReplaceStep ==
    ASSUME SInv, NEW t \in Thread, Replace(t)
    PROVE  SInv'
<1> DEFINE c == th[t]
<1>0. Return(t) /\ acked' = Acknowledged(Intent(c)) /\ limbo' = limbo /\ busy' = busy /\ free' = free
  BY Zenon DEF Replace
<1>2. /\ mode = "open" /\ c.pc = "index" /\ mode' = mode /\ todo' = todo
      /\ hdr' = hdr /\ body' = body /\ phdr' = phdr /\ pbody' = pbody
      /\ version' = version /\ issued' = issued /\ recovered' = recovered
      /\ tomb' \in Nat /\ Unscanned' = Unscanned
      /\ th' \in [Thread -> Call] /\ CallOnce' /\ InCall' = InCall \ {c.rec}
      /\ th'[t] = IdleCall
  BY <1>0, ReturnFact, Zenon
<1>3. /\ c.rec \in Record /\ c.key \in Key /\ c.rec \in busy
      /\ c.rec \in InCall /\ c.rec \notin Indexed /\ c.rec \notin InLimbo
      /\ c.rec \notin InEpoch /\ c.rec \notin Unscanned /\ c.rec \notin free
  BY <1>0, ReturnFact, Zenon
<1>1. PICK old \in index[c.key] :
         /\ index' = [index EXCEPT ![c.key] = (@ \ {old}) \union {c.rec}]
         /\ retired' = Closures(t, old)
  BY <1>3, FoundFact, ZenonT(30) DEF Replace, SInv
<1>4. InLimbo' = InLimbo /\ LimboOnce'
  BY <1>0, SOnce, SMTT(30) DEF OnceInv, InLimbo, Limboed, LimboOnce
<1>5. /\ index' \in [Key -> SUBSET Record] /\ IndexOnce'
      /\ Indexed' = (Indexed \ {old}) \union {c.rec} /\ old \in Indexed /\ old # c.rec
      /\ index'[c.key] = (index[c.key] \ {old}) \union {c.rec}
      /\ \A l \in Key \ {c.key} : index'[l] = index[l]
  BY <1>1, <1>3, IndexSwing, ZenonT(30) DEF SInv, TypeOK, OnceInv
<1>6. /\ old \in Record /\ old \notin InLimbo /\ old \notin InEpoch /\ old \notin InCall
      /\ old \notin Unscanned /\ old \in busy /\ old \notin free
  BY <1>5, ZenonT(30) DEF SInv, ApartInv, TypeOK
<1>7. /\ retired' \subseteq Closure /\ EpochOnce' /\ InEpoch' = InEpoch \union {old}
      /\ \A x \in retired, u \in Thread \ {t} :
            u \in x.waits => \E y \in retired' : y.rec = x.rec /\ u \in y.waits
      /\ \E y \in retired' : y.rec = old /\ y.waits = Active \ {t}
  BY <1>1, <1>6, EpochRetire, ZenonT(30) DEF SInv, TypeOK, OnceInv
<1>8. OpenStep(t) /\ BusyInv' /\ VerInv'
  BY <1>0, <1>3, <1>5, ReturnRest, Zenon
<1>9. TypeOK'
  BY <1>0, <1>2, <1>5, <1>7, AckFact, ZenonT(30) DEF SInv, TypeOK
<1>10. OnceInv'
  BY <1>2, <1>4, <1>5, <1>7, Zenon DEF OnceInv
<1>11. ApartInv'
  <2>1. /\ ApartInv /\ InCall' = InCall \ {c.rec} /\ InLimbo' = InLimbo
        /\ InEpoch' = InEpoch \union {old} /\ Unscanned' = Unscanned
        /\ busy' = busy /\ free' = free
    BY <1>0, <1>2, <1>4, <1>7, SApart, Zenon
  <2>2. Indexed' = (Indexed \ {old}) \union {c.rec} /\ old # c.rec
    BY <1>5, Zenon
  <2>3. /\ Indexed' \intersect InLimbo' = {} /\ Indexed' \intersect InEpoch' = {}
        /\ Indexed' \intersect InCall' = {} /\ Indexed' \intersect Unscanned' = {}
        /\ Indexed' \subseteq busy'
    BY <2>1, <2>2, <1>3, ZenonT(30) DEF ApartInv
  <2>4. /\ InLimbo' \intersect InEpoch' = {} /\ InEpoch' \intersect InCall' = {}
        /\ InEpoch' \intersect Unscanned' = {} /\ InEpoch' \subseteq busy'
    BY <2>1, <1>6, ZenonT(30) DEF ApartInv
  <2> QED BY <2>1, <2>3, <2>4, ZenonT(30) DEF ApartInv
<1>12. IndexInv'
  <2>1. hdr[c.rec].key = c.key /\ ~hdr[c.rec].inv
    BY <1>2, ReadyFact, Zenon
  <2>2. \A s \in index[c.key] : s = old
    BY <1>3, Zenon DEF SInv, IndexInv
  <2>3. /\ hdr' = hdr /\ \A q \in index'[c.key] : q = c.rec
        /\ \A l \in Key \ {c.key} : index'[l] = index[l]
    BY <2>2, <1>2, <1>5, Zenon
  <2>4. ASSUME NEW l \in Key, NEW r \in index'[l]
        PROVE  hdr'[r].key = l /\ ~hdr'[r].inv /\ \A q \in index'[l] : q = r
    <3>1. CASE l = c.key
      BY <3>1, <2>1, <2>3, <2>4, Zenon
    <3>2. CASE l # c.key
      BY <3>2, <2>3, <2>4, SIndex, Zenon DEF IndexInv
    <3> QED BY <3>1, <3>2, Zenon
  <2> QED BY <2>4, Zenon DEF IndexInv
<1>13. ReadInv'
  <2>1. th'[t].pc # "read"
    BY <1>2, IdleFact, ZenonT(30)
  <2>2. ASSUME NEW u \in Thread \ {t}, th[u].pc = "read", Guarded(u, th[u].rec)
        PROVE  th[u].rec \in Indexed' \/ \E x \in retired' : x.rec = th[u].rec /\ u \in x.waits
    <3>1. u \in Active \ {t}
      BY <2>2, Zenon DEF Active
    <3> QED BY <3>1, <2>2, <1>5, <1>7 DEF Guarded
  <2> QED BY <2>1, <2>2, <1>8, OpenRead, Zenon
<1>14. ModeInv' /\ Thread \subseteq Agreeing' /\ CleanInv' /\ NoTornRecord' /\ OlderReleased'
  BY <1>8, <1>9, OpenLines, Zenon
<1>15. KeepInv'
  BY <1>0, <1>2, <1>3, <1>4, <1>5, <1>7, <1>14, ZenonT(30) DEF SInv, KeepInv
<1> QED BY <1>8, <1>9, <1>10, <1>11, <1>12, <1>13, <1>14, <1>15, ZenonT(30) DEF SInv

(* A lookup keeps the invariant: its record is in the index. *)
LEMMA LookupStep ==
    ASSUME SInv, NEW t \in Thread, NEW k \in Key, Lookup(t, k)
    PROVE  SInv'
<1>1. /\ mode = "open" /\ th[t].pc = "idle" /\ mode' = mode /\ todo' = todo
      /\ hdr' = hdr /\ body' = body /\ phdr' = phdr /\ pbody' = pbody
      /\ busy' = busy /\ free' = free /\ index' = index /\ version' = version
      /\ limbo' = limbo /\ retired' = retired /\ tomb' = tomb /\ issued' = issued
      /\ acked' = acked /\ recovered' = recovered
  BY Zenon DEF Lookup, Running, lines, volatile, ghosts
<1> DEFINE call(r) == [IdleCall EXCEPT !.pc = "read", !.key = k, !.rec = r,
                                       !.ver = hdr[r].ver, !.val = body[r]]
<1>2. PICK r \in index[k] : ~hdr[r].tomb /\ th' = [th EXCEPT ![t] = call(r)]
  BY FoundFact, Zenon DEF Lookup, SInv
<1> DEFINE c == call(r)
<1>3. r \in Record /\ r \in Indexed /\ hdr[r] \in Header /\ body[r] \in Value /\ hdr[r].ver \in Nat
  <2>1. r \in Record /\ r \in Indexed
    BY IndexedFact, Zenon DEF SInv, TypeOK
  <2>2. hdr[r] \in Header /\ body[r] \in Value
    BY <2>1, Zenon DEF SInv, TypeOK
  <2> QED BY <2>1, <2>2, Zenon DEF Header
<1>4. c.pc = "read" /\ c.key = k /\ c.rec = r /\ c.ver = hdr[r].ver /\ c.val = body[r]
  BY Zenon DEF IdleCall
<1>5. c \in Call
  BY <1>3, Zenon DEF IdleCall, Call
<1>6. th' = [th EXCEPT ![t] = c]
  BY <1>2, Zenon
<1>7. hdr[r] = [inv |-> FALSE, tomb |-> FALSE, ver |-> hdr[r].ver, key |-> k]
  <2>1. ~hdr[r].inv /\ hdr[r].key = k
    BY Zenon DEF SInv, IndexInv
  <2> QED BY <2>1, <1>2, <1>3, Zenon DEF Header
<1> HIDE DEF c, call
<1>8. /\ th' \in [Thread -> Call] /\ CallOnce' /\ InCall' = InCall
      /\ th'[t] = c /\ \A u \in Thread \ {t} : th'[u] = th[u]
  <2>1. th \in [Thread -> Call] /\ CallOnce /\ th[t].pc \notin Holding /\ c.pc \notin Holding
    BY <1>1, <1>4, ZenonT(30) DEF SInv, TypeOK, OnceInv, Holding, Filling, Writing
  <2> QED BY <2>1, <1>5, <1>6, Aside, Zenon
<1>9. /\ Indexed' = Indexed /\ InLimbo' = InLimbo /\ InEpoch' = InEpoch /\ Unscanned' = Unscanned
      /\ IndexOnce' /\ LimboOnce' /\ EpochOnce'
  BY <1>1, SOnce, SMTT(30)
    DEF Indexed, InLimbo, Limboed, InEpoch, Unscanned, OnceInv, IndexOnce, LimboOnce,
        EpochOnce
<1>10. TypeOK'
  BY <1>1, <1>8, Zenon DEF SInv, TypeOK
<1>11. th'[t].pc \notin Writing /\ th'[t].pc \notin Holding
  BY <1>4, <1>8, Zenon DEF Holding, Filling, Writing
<1>12. OpenStep(t)
  BY <1>1, <1>4, <1>8, <1>11, AgreeIdle, Zenon DEF OpenStep, Dirtying
<1>13. OnceInv'
  BY <1>8, <1>9, Zenon DEF OnceInv
<1>14. ApartInv'
  BY <1>1, <1>8, <1>9, ZenonT(30) DEF SInv, ApartInv
<1>15. BusyInv'
  BY <1>1, <1>8, <1>11, ZenonT(30) DEF SInv, BusyInv
<1>16. IndexInv'
  BY <1>1, Zenon DEF SInv, IndexInv
<1>17. ReadInv'
  <2>1. /\ th'[t].rec \in Record /\ th'[t].rec \in Indexed'
        /\ hdr[th'[t].rec] = [inv |-> FALSE, tomb |-> FALSE, ver |-> th'[t].ver,
                              key |-> th'[t].key]
        /\ body[th'[t].rec] = th'[t].val
    BY <1>3, <1>4, <1>7, <1>8, <1>9, Zenon
  <2> QED BY <2>1, <1>1, <1>9, <1>12, OpenRead, Zenon DEF Guarded
<1>18. ModeInv' /\ Thread \subseteq Agreeing' /\ CleanInv' /\ NoTornRecord' /\ OlderReleased'
  BY <1>10, <1>12, OpenLines, Zenon
<1>19. KeepInv'
  BY <1>1, <1>8, <1>9, <1>18, ZenonT(30) DEF SInv, KeepInv
<1>20. VerInv'
  <2>1. \A u \in Thread : th[u].pc \in {"retire", "load", "cas"} => th'[u] = th[u]
    BY <1>1, <1>8, Zenon
  <2>2. \A u \in Thread : th'[u].pc \in Writing => th'[u].ver < version'[SlotOf[th'[u].key]]
    BY <1>1, <1>8, <1>11, ZenonT(30) DEF SInv, VerInv
  <2>3. index' = index /\ hdr' = hdr /\ version' = version
    BY <1>1, Zenon
  <2>4. ASSUME NEW l \in Key, NEW i \in index'[l]
        PROVE  \/ hdr'[i].ver <= version'[SlotOf[l]]
               \/ \E u \in Thread : /\ th'[u].pc \in {"retire", "load", "cas"}
                                   /\ th'[u].key = l /\ th'[u].ver = hdr'[i].ver
    <3>1. \/ hdr[i].ver <= version[SlotOf[l]]
          \/ \E u \in Thread : /\ th[u].pc \in {"retire", "load", "cas"}
                              /\ th[u].key = l /\ th[u].ver = hdr[i].ver
      BY <2>3, <2>4, SVer, Zenon DEF VerInv
    <3> QED BY <3>1, <2>1, <2>3, Zenon
  <2> QED BY <2>2, <2>4, Zenon DEF VerInv
<1> QED BY <1>10, <1>13, <1>14, <1>15, <1>16, <1>17, <1>18, <1>19, <1>20, ZenonT(30) DEF SInv

(* A reader that drops its guard keeps the invariant. *)
LEMMA ReadDoneStep ==
    ASSUME SInv, NEW t \in Thread, ReadDone(t)
    PROVE  SInv'
<1>1. /\ mode = "open" /\ th[t].pc = "read" /\ mode' = mode /\ todo' = todo
      /\ hdr' = hdr /\ body' = body /\ phdr' = phdr /\ pbody' = pbody
      /\ busy' = busy /\ free' = free /\ index' = index /\ version' = version
      /\ limbo' = limbo /\ retired' = Left(t) /\ tomb' = tomb /\ issued' = issued
      /\ acked' = acked /\ recovered' = recovered /\ th' = [th EXCEPT ![t] = IdleCall]
  BY Zenon DEF ReadDone, Running, lines, ghosts
<1>2. /\ th' \in [Thread -> Call] /\ CallOnce' /\ InCall' = InCall
      /\ th'[t] = IdleCall /\ \A u \in Thread \ {t} : th'[u] = th[u]
  <2>1. th \in [Thread -> Call] /\ CallOnce /\ th[t].pc \notin Holding
    BY <1>1, ZenonT(30) DEF SInv, TypeOK, OnceInv, Holding, Filling, Writing
  <2> QED BY <2>1, <1>1, IdleFact, Aside, ZenonT(30)
<1>3. /\ retired' \subseteq Closure /\ EpochOnce' /\ InEpoch' = InEpoch
      /\ \A x \in retired, u \in Thread \ {t} :
            u \in x.waits => \E y \in retired' : y.rec = x.rec /\ u \in y.waits
  BY <1>1, EpochLeft, ZenonT(30) DEF SInv, TypeOK, OnceInv
<1>4. /\ Indexed' = Indexed /\ InLimbo' = InLimbo /\ Unscanned' = Unscanned
      /\ IndexOnce' /\ LimboOnce'
  BY <1>1, SOnce, SMTT(30)
    DEF Indexed, InLimbo, Limboed, Unscanned, OnceInv, IndexOnce, LimboOnce
<1>5. TypeOK'
  BY <1>1, <1>2, <1>3, ZenonT(30) DEF SInv, TypeOK
<1>6. th'[t].pc = "idle" /\ th'[t].pc \notin Writing /\ th'[t].pc \notin Holding
  BY <1>2, IdleFact, Zenon DEF Holding, Filling
<1>7. OpenStep(t)
  BY <1>1, <1>2, <1>6, AgreeIdle, Zenon DEF OpenStep, Dirtying
<1>8. OnceInv'
  BY <1>2, <1>3, <1>4, Zenon DEF OnceInv
<1>9. ApartInv'
  BY <1>1, <1>2, <1>3, <1>4, ZenonT(30) DEF SInv, ApartInv
<1>10. BusyInv'
  BY <1>1, <1>2, <1>6, ZenonT(30) DEF SInv, BusyInv
<1>11. IndexInv'
  BY <1>1, Zenon DEF SInv, IndexInv
<1>12. ReadInv'
  BY <1>3, <1>4, <1>6, <1>7, OpenRead, KeepGuards, ZenonT(30)
<1>13. ModeInv' /\ Thread \subseteq Agreeing' /\ CleanInv' /\ NoTornRecord' /\ OlderReleased'
  BY <1>5, <1>7, OpenLines, Zenon
<1>14. KeepInv'
  BY <1>1, <1>2, <1>3, <1>4, <1>13, ZenonT(30) DEF SInv, KeepInv
<1>15. VerInv'
  <2>1. \A u \in Thread : th[u].pc \in {"retire", "load", "cas"} => th'[u] = th[u]
    BY <1>1, <1>2, ZenonT(30)
  <2>2. \A u \in Thread : th'[u].pc \in Writing => th'[u].ver < version'[SlotOf[th'[u].key]]
    BY <1>1, <1>2, <1>6, SVer, SMTT(30) DEF VerInv, Writing
  <2>3. index' = index /\ hdr' = hdr /\ version' = version
    BY <1>1, Zenon
  <2> QED BY <2>1, <2>2, <2>3, SVer, SMTT(30) DEF VerInv
<1> QED BY <1>5, <1>8, <1>9, <1>10, <1>11, <1>12, <1>13, <1>14, <1>15, ZenonT(30) DEF SInv

(* A closure that runs keeps the invariant: no reader is waited for. *)
LEMMA ReclaimStep ==
    ASSUME SInv, NEW t \in Thread, NEW x \in retired, Reclaim(t, x)
    PROVE  SInv'
<1>1. /\ mode \in {"open", "recover"} /\ mode' = mode /\ todo' = todo /\ x.waits = {}
      /\ hdr' = hdr /\ body' = body /\ phdr' = phdr /\ pbody' = pbody
      /\ index' = index /\ version' = version /\ th' = th /\ tomb' = tomb /\ issued' = issued
      /\ acked' = acked /\ recovered' = recovered /\ retired' = retired \ {x}
      /\ \/ LimboRelease(t, x.rec)
         \/ busy' = busy \ {x.rec} /\ free' = free \union {x.rec} /\ limbo' = limbo
  BY Zenon DEF Reclaim, SlabRelease, lines, ghosts
<1>2. /\ EpochOnce' /\ InEpoch' = InEpoch \ {x.rec} /\ x.rec \in InEpoch
  BY <1>1, EpochRun, ZenonT(30) DEF SInv, OnceInv
<1>3. /\ x.rec \in Record /\ x.rec \notin InLimbo /\ x.rec \notin Indexed /\ x.rec \notin InCall
      /\ x.rec \notin Unscanned /\ x.rec \in busy
  BY <1>2, ZenonT(30) DEF SInv, ApartInv, TypeOK
<1>4. /\ limbo' \in [Thread -> Seq(Record)] /\ LimboOnce' /\ (MaxLimbo = 0 => limbo' = limbo)
      /\ \/ InLimbo' = InLimbo \union {x.rec} /\ busy' = busy /\ free' = free
         \/ InLimbo' = InLimbo /\ busy' = busy \ {x.rec} /\ free' = free \union {x.rec}
  <2>1. CASE LimboRelease(t, x.rec)
    BY <2>1, <1>3, LimboGive, ZenonT(30) DEF SInv, TypeOK, OnceInv
  <2>2. CASE busy' = busy \ {x.rec} /\ free' = free \union {x.rec} /\ limbo' = limbo
    <3>1. limbo \in [Thread -> Seq(Record)]
      BY SType, Zenon DEF TypeOK
    <3> QED BY <3>1, <2>2, SameLimbo, ZenonT(30)
  <2> QED BY <2>1, <2>2, <1>1, ZenonT(30)
<1>5. /\ Indexed' = Indexed /\ InCall' = InCall /\ Unscanned' = Unscanned
      /\ IndexOnce' /\ CallOnce' /\ Clean' = Clean /\ Thread \subseteq Agreeing'
  <2>1. /\ Indexed' = Indexed /\ InCall' = InCall /\ Unscanned' = Unscanned
        /\ IndexOnce' /\ CallOnce' /\ Clean' = Clean
    BY <1>1, Zenon DEF Indexed, InCall, Unscanned, SInv, OnceInv, IndexOnce, CallOnce, Clean
  <2>2. ASSUME NEW u \in Thread PROVE u \in Agreeing'
    <3>1. CASE th[u].pc \in Holding
      <4>1. th[u].rec \in Record
        BY <3>1, Zenon DEF SInv, BusyInv
      <4> QED BY <4>1, <1>1, AgreeFrame, ZenonT(30) DEF SInv
    <3>2. CASE th[u].pc \notin Holding
      BY <1>1, <3>2, AgreeWait, ZenonT(30) DEF SInv
    <3> QED BY <3>1, <3>2, Zenon
  <2> QED BY <2>1, <2>2, Zenon
<1>6. TypeOK'
  BY <1>1, <1>3, <1>4, ZenonT(30) DEF SInv, TypeOK
<1>7. OnceInv'
  BY <1>2, <1>4, <1>5, ZenonT(30) DEF OnceInv
<1>8. ApartInv'
  <2>1. /\ ApartInv /\ Indexed' = Indexed /\ InCall' = InCall /\ Unscanned' = Unscanned
        /\ InEpoch' = InEpoch \ {x.rec}
    BY <1>2, <1>5, SApart, Zenon
  <2>2. CASE InLimbo' = InLimbo \union {x.rec} /\ busy' = busy /\ free' = free
    BY <2>1, <2>2, <1>3, ZenonT(30) DEF ApartInv
  <2>3. CASE InLimbo' = InLimbo /\ busy' = busy \ {x.rec} /\ free' = free \union {x.rec}
    BY <2>1, <2>3, <1>3, ZenonT(30) DEF ApartInv
  <2> QED BY <2>2, <2>3, <1>4, Zenon
<1>9. BusyInv'
  <2>1. \A u \in Thread : th[u].pc \in Holding => th[u].rec # x.rec
    BY <1>3, CallFact, Zenon
  <2> QED BY <2>1, <1>1, <1>4, ZenonT(30) DEF SInv, BusyInv
<1>10. ModeInv'
  BY <1>1, <1>5, ZenonT(30) DEF SInv, ModeInv
<1>11. IndexInv' /\ VerInv'
  <2>1. IndexInv'
    BY <1>1, ZenonT(30) DEF SInv, IndexInv
  <2>2. VerInv /\ hdr' = hdr /\ version' = version /\ th' = th /\ index' = index
    BY <1>1, Zenon DEF SInv
  <2>3. VerInv'
    <3>1. \A u \in Thread : th'[u].pc \in Writing => th'[u].ver < version'[SlotOf[th'[u].key]]
      BY <2>2, Zenon DEF VerInv
    <3>2. ASSUME NEW k \in Key, NEW r \in index'[k]
          PROVE  \/ hdr'[r].ver <= version'[SlotOf[k]]
                 \/ \E u \in Thread : /\ th'[u].pc \in {"retire", "load", "cas"}
                                      /\ th'[u].key = k /\ th'[u].ver = hdr'[r].ver
      BY <2>2, ZenonT(30) DEF VerInv
    <3> QED BY <3>1, <3>2, Zenon DEF VerInv
  <2> QED BY <2>1, <2>3, ZenonT(30)
<1>12. CleanInv'
  BY <1>1, <1>5, Zenon DEF SInv, CleanInv
<1>13. NoTornRecord'
  <2>1. busy' \subseteq busy
    BY <1>4, Zenon
  <2> QED BY <2>1, <1>1, Zenon DEF SInv, NoTornRecord, Surviving, Durable
<1>14. ReadInv'
  <2>1. \A u \in Thread : u \notin x.waits
    BY <1>1, Zenon
  <2> QED BY <2>1, <1>1, <1>5, ZenonT(30) DEF SInv, ReadInv
<1>15. KeepInv'
  <2>1. OlderReleased'
    BY <1>1, Zenon DEF OlderReleased
  <2> QED BY <2>1, <1>1, <1>2, <1>3, <1>4, <1>5, ZenonT(30) DEF SInv, KeepInv
<1> QED BY <1>5, <1>6, <1>7, <1>8, <1>9, <1>10, <1>11, <1>12, <1>13, <1>14, <1>15, ZenonT(30) DEF SInv
=============================================================================
