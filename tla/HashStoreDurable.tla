-------------------------- MODULE HashStoreDurable --------------------------
(***************************************************************************)
(* The write path and durability.  First the steps that write a record     *)
(* keep SInv.  Then the inductive invariant of durability (DInv), and the  *)
(* proof that every step keeps it.  DInv says that a key has no two writes *)
(* of one version, that the newest record which a crash would leave is the *)
(* one the index has, that the index shows the newest write that returned, *)
(* and that this write is never released.  It relies on SInv.              *)
(***************************************************************************)
EXTENDS HashStoreSteps

(* The order of versions. *)
LEMMA Order ==
    /\ \A a, b, c \in Nat : a > b /\ b > c => a > c
    /\ \A a, b \in Nat : a < b => b > a /\ ~(a > b) /\ a # b
    /\ \A a, b \in Nat : a >= b /\ a # b => a > b
  OBVIOUS

-----------------------------------------------------------------------------
(***************************************************************************)
(* The steps that write a record.                                          *)
(***************************************************************************)

(* A step of a writing call of t, which touches no line but those of its   *)
(* record and keeps what the invariant says of t and of its record.        *)
WriteStep(t) ==
    /\ th[t].pc \in Filling /\ th'[t].pc \in Filling /\ th'[t].rec = th[t].rec
    /\ th'[t].key = th[t].key /\ th'[t].ver = th[t].ver
    /\ \A u \in Thread \ {t} : th'[u] = th[u]
    /\ \A r \in Record \ {th[t].rec} : /\ hdr'[r] = hdr[r] /\ body'[r] = body[r]
                                       /\ phdr'[r] = phdr[r] /\ pbody'[r] = pbody[r]
    /\ UNCHANGED <<free, volatile, mode, todo, ghosts>>
    /\ busy' = busy \/ busy' = busy \union {th[t].rec}
    /\ th[t].rec \in busy' <=> th'[t].pc \notin {"write", "publish"}
    /\ t \in Agreeing'
    /\ th[t].rec \in Clean' \/ th'[t].pc \in Dirtying
    /\ th[t].rec \in busy' => phdr'[th[t].rec].inv \/ Durable(th[t].rec)' \in issued

(* Such a step keeps the invariant. *)
LEMMA CallStep ==
    ASSUME SInv, TypeOK', NEW t \in Thread, WriteStep(t)
    PROVE  SInv'
<1> DEFINE me == th[t].rec
<1>1. /\ th[t].pc \in Filling /\ th'[t].pc \in Filling /\ th'[t].rec = me
      /\ th'[t].key = th[t].key /\ th'[t].ver = th[t].ver
      /\ \A u \in Thread \ {t} : th'[u] = th[u]
  BY Zenon DEF WriteStep
<1>2. /\ index' = index /\ limbo' = limbo /\ retired' = retired /\ mode' = mode
      /\ todo' = todo /\ free' = free /\ version' = version /\ issued' = issued
  BY Zenon DEF WriteStep, volatile, ghosts
<1>3. \A r \in Record \ {me} : /\ hdr'[r] = hdr[r] /\ body'[r] = body[r]
                              /\ phdr'[r] = phdr[r] /\ pbody'[r] = pbody[r]
  BY Zenon DEF WriteStep
<1>4. /\ busy' = busy \/ busy' = busy \union {me}
      /\ me \in busy' <=> th'[t].pc \notin {"write", "publish"}
  BY Zenon DEF WriteStep
<1>5. /\ me \in Record /\ mode = "open"
      /\ \A u \in Thread \ {t} : th[u].pc \in Holding => th[u].rec # me
      /\ me \notin Indexed /\ me \notin InEpoch /\ me \notin free
  BY <1>1, Elsewhere, Zenon DEF SInv, BusyInv, ModeInv, Holding, Filling
<1>6. Indexed' = Indexed /\ InLimbo' = InLimbo /\ InEpoch' = InEpoch /\ Unscanned' = Unscanned
  BY <1>2 DEF Indexed, InLimbo, Limboed, InEpoch, Unscanned
<1>7. \A u \in Thread : th'[u].rec = th[u].rec /\ (th'[u].pc \in Holding <=> th[u].pc \in Holding)
  BY <1>1, Zenon DEF Holding, Filling
<1>8. InCall' = InCall
  BY <1>7, Zenon DEF InCall
<1>9. ModeInv'
  <2>1. \A u \in Thread : /\ th'[u].pc \in Writing \union {"read"} => mode' = "open"
                          /\ th'[u].pc \in Scanning => mode' = "recover"
                          /\ th'[u].pc \in Scanning \ {"drop"} => th'[u].key \in Key
                          /\ th'[u].pc \in {"acquire", "load", "cas"} => th'[u].rec = None
    <3>1. ASSUME NEW u \in Thread \ {t}
          PROVE  /\ th'[u].pc \in Writing \union {"read"} => mode' = "open"
                 /\ th'[u].pc \in Scanning => mode' = "recover"
                 /\ th'[u].pc \in Scanning \ {"drop"} => th'[u].key \in Key
                 /\ th'[u].pc \in {"acquire", "load", "cas"} => th'[u].rec = None
      BY <1>1, <1>2, Zenon DEF SInv, ModeInv
    <3>2. mode' = "open" /\ th'[t].pc \notin Scanning /\ th'[t].pc \notin {"acquire", "load", "cas"}
      BY <1>1, <1>2, <1>5, Zenon DEF Scanning, Filling, Writing
    <3> QED BY <3>1, <3>2, Zenon
  <2>2. mode' = "open" /\ todo' = {}
    BY <1>2, <1>5, Zenon DEF SInv, ModeInv
  <2> QED BY <2>1, <2>2, ZenonT(30) DEF ModeInv
<1>10. OnceInv'
  BY <1>2, <1>7, SMTT(30) DEF SInv, OnceInv, CallOnce, IndexOnce, LimboOnce, EpochOnce
<1>11. ApartInv'
  BY <1>2, <1>4, <1>5, <1>6, <1>8, ZenonT(30) DEF SInv, ApartInv
<1>12. BusyInv'
  BY <1>1, <1>4, <1>5, <1>7 DEF SInv, BusyInv
<1>13. Thread \subseteq Agreeing'
  <2>1. ASSUME NEW u \in Thread \ {t} PROVE u \in Agreeing'
    <3>1. CASE th[u].pc \in Holding
      <4>1. th[u].rec \in Record \ {me}
        BY <3>1, <1>5, Zenon DEF SInv, BusyInv
      <4> QED BY <4>1, <1>1, <1>2, <1>3, AgreeFrame, Zenon DEF SInv
    <3>2. CASE th[u].pc \notin Holding
      BY <1>1, <1>2, <3>2, AgreeWait, ZenonT(30) DEF SInv
    <3> QED BY <3>1, <3>2, Zenon
  <2> QED BY <2>1, Zenon DEF WriteStep
<1>14. IndexInv'
  <2>1. \A k \in Key : \A r \in index[k] : r \in Record /\ r # me
    BY <1>5, IndexedFact, ZenonT(30) DEF SInv, TypeOK
  <2>2. \A k \in Key : \A r \in index[k] : hdr'[r] = hdr[r]
    BY <2>1, <1>3, Zenon
  <2>3. \A k \in Key : \A r \in index[k] :
          hdr[r].key = k /\ ~hdr[r].inv /\ \A s \in index[k] : s = r
    BY SIndex, Zenon DEF IndexInv
  <2>4. ASSUME NEW k \in Key, NEW r \in index'[k]
        PROVE  hdr'[r].key = k /\ ~hdr'[r].inv /\ \A s \in index'[k] : s = r
    <3>1. index' = index /\ r \in index[k]
      BY <2>4, <1>2, Zenon
    <3>2. hdr'[r] = hdr[r]
      BY <3>1, <2>2, Zenon
    <3>3. hdr[r].key = k /\ ~hdr[r].inv /\ \A s \in index[k] : s = r
      BY <3>1, <2>3, Zenon
    <3> QED BY <3>1, <3>2, <3>3, ZenonT(30)
  <2> QED BY <2>4, Zenon DEF IndexInv
<1>15. CleanInv'
  <2>1. ASSUME NEW r \in Record, r # me
        PROVE  r \in Clean' \/ \E u \in Thread : th'[u].rec = r /\ th'[u].pc \in Dirtying
    <3>1. r \in Clean \/ \E u \in Thread \ {t} : th[u].rec = r /\ th[u].pc \in Dirtying
      BY <2>1, Zenon DEF SInv, CleanInv
    <3>2. r \in Clean => r \in Clean'
      BY <2>1, <1>3, Zenon DEF Clean
    <3> QED BY <3>1, <3>2, <1>1, Zenon
  <2>2. me \in Clean' \/ th'[t].pc \in Dirtying
    BY Zenon DEF WriteStep
  <2> QED BY <2>1, <2>2, <1>1, Zenon DEF CleanInv
<1>16. NoTornRecord'
  <2>1. ASSUME NEW r \in busy', ~phdr'[r].inv, r # me PROVE Durable(r)' \in issued'
    <3>1. r \in busy /\ phdr'[r] = phdr[r] /\ pbody'[r] = pbody[r]
      BY <2>1, <1>3, <1>4, ZenonT(30) DEF SInv, TypeOK
    <3> QED BY <3>1, <2>1, <1>2, Zenon DEF SInv, NoTornRecord, Surviving, Durable
  <2>2. me \in busy' => phdr'[me].inv \/ Durable(me)' \in issued'
    BY <1>2, Zenon DEF WriteStep
  <2>3. Durable(me)' = Content(phdr'[me], pbody'[me])
    BY <1>1, Zenon DEF Durable
  <2> QED BY <2>1, <2>2, <2>3, Zenon DEF NoTornRecord, Surviving, Durable
<1>17. ReadInv'
  <2>1. ASSUME NEW u \in Thread, th'[u].pc = "read"
        PROVE  /\ u # t /\ th'[u] = th[u] /\ th[u].rec \in Record \ {me}
               /\ th[u].rec \in Indexed \/ \E x \in retired : x.rec = th[u].rec /\ u \in x.waits
    <3>1. u # t /\ th'[u] = th[u]
      BY <2>1, <1>1, Zenon DEF Filling, Writing
    <3>2. /\ th[u].rec \in Record
          /\ th[u].rec \in Indexed \/ \E x \in retired : x.rec = th[u].rec /\ u \in x.waits
      BY <2>1, <3>1, Zenon DEF SInv, ReadInv
    <3>3. th[u].rec # me
      BY <3>2, <1>5, EpochFact, Zenon
    <3> QED BY <3>1, <3>2, <3>3, Zenon
  <2>2. ASSUME NEW u \in Thread, th'[u].pc = "read"
        PROVE  /\ th'[u].rec \in Record /\ body'[th'[u].rec] = th'[u].val
               /\ hdr'[th'[u].rec] =
                     [inv |-> FALSE, tomb |-> FALSE, ver |-> th'[u].ver, key |-> th'[u].key]
               /\ \/ th'[u].rec \in Indexed'
                  \/ \E x \in retired' : x.rec = th'[u].rec /\ u \in x.waits
    <3>1. th'[u] = th[u] /\ th[u].rec \in Record \ {me} /\ th[u].pc = "read"
      BY <2>1, <2>2, Zenon
    <3>2. hdr'[th[u].rec] = hdr[th[u].rec] /\ body'[th[u].rec] = body[th[u].rec]
      BY <3>1, <1>3, Zenon
    <3>3. /\ body[th[u].rec] = th[u].val
          /\ hdr[th[u].rec] =
                [inv |-> FALSE, tomb |-> FALSE, ver |-> th[u].ver, key |-> th[u].key]
          /\ \/ th[u].rec \in Indexed
             \/ \E x \in retired : x.rec = th[u].rec /\ u \in x.waits
      BY <3>1, Zenon DEF SInv, ReadInv
    <3> QED BY <3>1, <3>2, <3>3, <1>2, <1>6, ZenonT(30)
  <2> QED BY <2>2, ZenonT(30) DEF ReadInv
<1>18. KeepInv'
  <2>1. OlderReleased'
    BY <1>2, <1>5, Zenon DEF OlderReleased
  <2>2. me \in InCall
    BY <1>1, CallFact, Zenon DEF Holding, Filling
  <2> QED BY <2>1, <2>2, <1>2, <1>4, <1>6, <1>8, ZenonT(30) DEF SInv, KeepInv
<1>19. VerInv'
  <2>1. \A k \in Key : \A r \in index[k] : hdr'[r] = hdr[r]
    BY <1>3, <1>5, IndexedFact, ZenonT(30) DEF SInv, TypeOK
  <2>2. \A u \in Thread : th[u].pc \in {"retire", "load", "cas"} => th'[u] = th[u]
    BY <1>1, Zenon DEF Filling, Writing
  <2>3. \A u \in Thread : th'[u].pc \in Writing => th'[u].ver < version'[SlotOf[th'[u].key]]
    <3>1. \A u \in Thread : /\ th'[u].key = th[u].key /\ th'[u].ver = th[u].ver
                            /\ th'[u].pc \in Writing => th[u].pc \in Writing
      BY <1>1, Zenon DEF Filling
    <3>2. \A u \in Thread : th[u].pc \in Writing => th[u].ver < version[SlotOf[th[u].key]]
      BY Zenon DEF SInv, VerInv
    <3> QED BY <3>1, <3>2, <1>2, Zenon
  <2>4. ASSUME NEW k \in Key, NEW r \in index'[k]
        PROVE  \/ hdr'[r].ver <= version'[SlotOf[k]]
               \/ \E u \in Thread : /\ th'[u].pc \in {"retire", "load", "cas"}
                                    /\ th'[u].key = k /\ th'[u].ver = hdr'[r].ver
    <3>1. r \in index[k] /\ hdr'[r] = hdr[r] /\ version' = version
      BY <2>1, <2>4, <1>2, Zenon
    <3>2. \/ hdr[r].ver <= version[SlotOf[k]]
          \/ \E u \in Thread : /\ th[u].pc \in {"retire", "load", "cas"}
                               /\ th[u].key = k /\ th[u].ver = hdr[r].ver
      BY <3>1, SVer, Zenon DEF VerInv
    <3> QED BY <3>1, <3>2, <2>2, ZenonT(30)
  <2> QED BY <2>3, <2>4, ZenonT(30) DEF VerInv
<1> QED
  BY <1>9, <1>10, <1>11, <1>12, <1>13, <1>14, <1>15, <1>16, <1>17, <1>18, <1>19, ZenonT(30) DEF SInv

(* What a step of a call leaves alone, and how it moves its thread. *)
LEMMA CallMove ==
    ASSUME SInv, NEW t \in Thread, th[t].pc \in Filling, NEW to \in Filling,
           th' = [th EXCEPT ![t].pc = to],
           UNCHANGED <<free, volatile, mode, todo, ghosts>>,
           hdr' \in [Record -> Header], phdr' \in [Record -> Header],
           body' \in [Record -> Value], pbody' \in [Record -> Value], busy' \subseteq Record
    PROVE  /\ TypeOK' /\ \A u \in Thread \ {t} : th'[u] = th[u]
           /\ th'[t].pc = to /\ th'[t].op = th[t].op /\ th'[t].key = th[t].key
           /\ th'[t].ver = th[t].ver /\ th'[t].val = th[t].val /\ th'[t].rec = th[t].rec
           /\ Intent(th[t])' = Intent(th[t]) /\ issued' = issued /\ index' = index
<1>1. /\ th' \in [Thread -> Call] /\ \A u \in Thread \ {t} : th'[u] = th[u]
      /\ th'[t].pc = to /\ th'[t].op = th[t].op /\ th'[t].key = th[t].key
      /\ th'[t].ver = th[t].ver /\ th'[t].val = th[t].val /\ th'[t].rec = th[t].rec
  BY StepFact, Zenon DEF SInv, TypeOK, Holding, Filling
<1>2. TypeOK'
  BY <1>1, Zenon DEF SInv, TypeOK, volatile, ghosts
<1>3. Intent(th[t])' = Intent(th[t]) /\ issued' = issued /\ index' = index
  BY <1>1, Zenon DEF Intent, volatile, ghosts
<1> QED BY <1>1, <1>2, <1>3, Zenon

(* The lines of a record that has no call to rewrite it are clean. *)
LEMMA CleanCall ==
    ASSUME SInv, NEW t \in Thread, th[t].pc \in Filling \ Dirtying
    PROVE  phdr[th[t].rec] = hdr[th[t].rec] /\ pbody[th[t].rec] = body[th[t].rec]
<1>1. th[t].rec \in Record /\ th[t].pc \in Holding
  BY CallKnown, Zenon DEF Holding, Filling
<1>2. \A u \in Thread : th[u].rec = th[t].rec => th[u].pc \notin Dirtying
  BY <1>1, Zenon DEF SInv, OnceInv, CallOnce, Dirtying, Holding, Filling, Filling, Writing
<1> QED BY <1>1, <1>2, CleanUnless, Zenon

(* Writing a new region keeps the invariant: nobody else has the region,   *)
(* and its token is not hired yet.                                         *)
LEMMA WriteNewStep ==
    ASSUME SInv, NEW t \in Thread, WriteNew(t)
    PROVE  WriteStep(t) /\ SInv'
<1> DEFINE c == th[t]
           r == th[t].rec
           h == [inv |-> FALSE, tomb |-> c.op = "remove", ver |-> c.ver, key |-> c.key]
<1>1. /\ c.pc = "write" /\ th' = [th EXCEPT ![t].pc = "publish"]
      /\ UNCHANGED <<busy, free, volatile, mode, todo, ghosts>>
      /\ hdr' = [hdr EXCEPT ![r] = h] /\ body' = [body EXCEPT ![r] = StoredValue(c)]
      /\ phdr' = [phdr EXCEPT ![r] = hdr'[r]] /\ pbody' = [pbody EXCEPT ![r] = body'[r]]
  BY Zenon DEF WriteNew, Step, FlushHeader, FlushBody
<1>2. /\ r \in Record /\ c.key \in Key /\ c.ver \in Nat /\ c.val \in Value /\ r \notin busy
      /\ c.op \in {"upsert", "update", "remove"} /\ Intent(c) \in issued
      /\ (c.op = "remove" => c.val = 0) /\ c.pc \in Filling
      /\ c.op \in {"update", "remove"} \ MissingKeys => index[c.key] # {}
  BY <1>1, CallKnown, Zenon DEF Filling, Writing
<1>3. h \in Header /\ StoredValue(c) \in Value
  BY <1>2, Zenon DEF Header, StoredValue, SInv, TypeOK
<1>4. /\ hdr \in [Record -> Header] /\ phdr \in [Record -> Header]
      /\ body \in [Record -> Value] /\ pbody \in [Record -> Value]
  BY Zenon DEF SInv, TypeOK
<1>5. /\ hdr'[r] = h /\ phdr'[r] = h /\ body'[r] = StoredValue(c) /\ pbody'[r] = StoredValue(c)
      /\ \A s \in Record \ {r} : /\ hdr'[s] = hdr[s] /\ body'[s] = body[s]
                                 /\ phdr'[s] = phdr[s] /\ pbody'[s] = pbody[s]
  BY <1>1, <1>2, <1>4, Zenon
<1>6. /\ hdr' \in [Record -> Header] /\ phdr' \in [Record -> Header]
      /\ body' \in [Record -> Value] /\ pbody' \in [Record -> Value] /\ busy' \subseteq Record
  <2>1. hdr'[r] \in Header /\ body'[r] \in Value
    BY <1>3, <1>5, Zenon
  <2>2. busy' \subseteq Record
    BY <1>1, Zenon DEF SInv, TypeOK
  <2> QED BY <1>1, <1>3, <1>4, <2>1, <2>2, Zenon
<1>7. /\ TypeOK' /\ \A u \in Thread \ {t} : th'[u] = th[u]
      /\ th'[t].pc = "publish" /\ th'[t].op = c.op /\ th'[t].key = c.key
      /\ th'[t].ver = c.ver /\ th'[t].val = c.val /\ th'[t].rec = r
      /\ Intent(th[t])' = Intent(c) /\ issued' = issued /\ index' = index
  BY <1>1, <1>2, <1>6, CallMove, Zenon DEF Filling, Writing
<1>8. Content(h, StoredValue(c)) = Intent(c)
  BY <1>2, Zenon DEF Content, Intent, StoredValue
<1>9. t \in Agreeing'
  <2>1. Content(hdr'[r], body'[r]) = Intent(th'[t])
    BY <1>5, <1>7, <1>8, ZenonT(30)
  <2>2. hdr'[r].inv = FALSE /\ th'[t].pc \notin Dirtying
    BY <1>5, <1>7 DEF Dirtying
  <2> QED BY <1>2, <1>7, <2>1, <2>2, Zenon DEF Agreeing
<1>10. r \in Clean'
  BY <1>2, <1>5, Zenon DEF Clean
<1>11. WriteStep(t)
  BY <1>1, <1>2, <1>5, <1>7, <1>9, <1>10, Zenon DEF WriteStep, Filling, Writing
<1> QED BY <1>7, <1>11, CallStep, Zenon

(* Publishing a written region keeps the invariant: the record whose token *)
(* is hired holds the write of the call, on the medium too.                *)
LEMMA PublishStep ==
    ASSUME SInv, NEW t \in Thread, Publish(t)
    PROVE  WriteStep(t) /\ SInv'
<1> DEFINE c == th[t]
           r == th[t].rec
<1>1. /\ c.pc = "publish" /\ th' = [th EXCEPT ![t].pc = "index"] /\ busy' = busy \union {r}
      /\ hdr' = hdr /\ body' = body /\ phdr' = phdr /\ pbody' = pbody
      /\ UNCHANGED <<free, volatile, mode, todo, ghosts>>
  BY Zenon DEF Publish, lines
<1>2. r \in Record /\ c.pc \in Filling \ Dirtying /\ t \in Agreeing /\ Intent(c) \in issued
  BY <1>1, CallKnown, Zenon DEF Filling, Writing, Dirtying, SInv
<1>3. phdr[r] = hdr[r] /\ pbody[r] = body[r]
  BY <1>2, CleanCall, Zenon
<1>4. /\ hdr' \in [Record -> Header] /\ phdr' \in [Record -> Header]
      /\ body' \in [Record -> Value] /\ pbody' \in [Record -> Value] /\ busy' \subseteq Record
  BY <1>1, <1>2, Zenon DEF SInv, TypeOK
<1>5. /\ TypeOK' /\ \A u \in Thread \ {t} : th'[u] = th[u]
      /\ th'[t].pc = "index" /\ th'[t].op = c.op /\ th'[t].key = c.key
      /\ th'[t].ver = c.ver /\ th'[t].val = c.val /\ th'[t].rec = r
      /\ Intent(th[t])' = Intent(c) /\ issued' = issued /\ index' = index
  BY <1>1, <1>2, <1>4, CallMove, Zenon DEF Filling, Writing
<1>6. ~hdr[r].inv /\ Content(hdr[r], body[r]) = Intent(c)
  BY <1>1, <1>2, ZenonT(30) DEF Agreeing
<1>7. t \in Agreeing'
  <2>1. Content(hdr'[r], body'[r]) = Intent(th'[t])
    BY <1>1, <1>5, <1>6, Zenon
  <2>2. /\ c.key \in Key /\ c.op \in {"upsert", "update", "remove"} /\ Intent(c) \in issued
        /\ (c.op = "remove" => c.val = 0)
        /\ c.op \in {"update", "remove"} \ MissingKeys => index[c.key] # {}
    <3>1. c.pc \in Writing
      BY <1>2, Zenon DEF Filling
    <3> QED BY <3>1, <1>2, Zenon DEF Agreeing
  <2>3. /\ th'[t].key \in Key /\ th'[t].op \in {"upsert", "update", "remove"}
        /\ Intent(th'[t]) \in issued' /\ (th'[t].op = "remove" => th'[t].val = 0)
        /\ th'[t].op \in {"update", "remove"} \ MissingKeys => index'[th'[t].key] # {}
    BY <1>5, <2>2, Zenon
  <2>4. ~hdr'[th'[t].rec].inv /\ Content(hdr'[th'[t].rec], body'[th'[t].rec]) = Intent(th'[t])
    BY <1>1, <1>5, <1>6, <2>1, Zenon
  <2>5. th'[t].pc \notin Dirtying /\ th'[t].pc \notin {"flush", "control"}
    BY <1>5, Zenon DEF Dirtying
  <2> QED BY <2>3, <2>4, <2>5, ZenonT(30) DEF Agreeing
<1>8. r \in Clean'
  BY <1>1, <1>2, <1>3, Zenon DEF Clean
<1>9. Durable(r)' \in issued
  BY <1>1, <1>2, <1>3, <1>6 DEF Durable
<1>10. WriteStep(t)
  BY <1>1, <1>2, <1>5, <1>7, <1>8, <1>9, ZenonT(30) DEF WriteStep, Filling, Writing
<1> QED BY <1>5, <1>10, CallStep, Zenon

(* Invalidating a garbage record keeps the invariant: a record of two      *)
(* lines is invalid on the medium before its other line is written.        *)
LEMMA InvalidateStep ==
    ASSUME SInv, NEW t \in Thread, Invalidate(t)
    PROVE  WriteStep(t) /\ SInv'
<1> DEFINE c == th[t]
           r == th[t].rec
           h == [hdr[r] EXCEPT !.inv = TRUE, !.tomb = FALSE, !.ver = 0]
<1>1. /\ c.pc = "invalidate" /\ th' = [th EXCEPT ![t].pc = "rewrite"]
      /\ UNCHANGED <<busy, free, volatile, mode, todo, ghosts>>
      /\ hdr' = [hdr EXCEPT ![r] = h] /\ body' = body /\ pbody' = pbody
      /\ IF r \in OneLine THEN phdr' = phdr ELSE phdr' = [phdr EXCEPT ![r] = hdr'[r]]
  BY Zenon DEF Invalidate, Step, FlushHeader
<1>2. /\ r \in Record /\ c.pc \in Filling \ Dirtying /\ r \in busy /\ t \in Agreeing
  BY <1>1, CallKnown, Zenon DEF Filling, Writing, Dirtying, SInv
<1>3. /\ hdr \in [Record -> Header] /\ phdr \in [Record -> Header]
      /\ body \in [Record -> Value] /\ pbody \in [Record -> Value] /\ busy \subseteq Record
  BY Zenon DEF SInv, TypeOK
<1>4. h \in Header /\ h.inv = TRUE
  <2>1. hdr[r] \in Header
    BY <1>2, <1>3, Zenon
  <2> QED BY <2>1, Zenon DEF Header
<1> HIDE DEF h
<1>5. /\ hdr'[r] = h /\ (r \notin OneLine => phdr'[r] = h) /\ (r \in OneLine => phdr'[r] = phdr[r])
      /\ \A s \in Record \ {r} : /\ hdr'[s] = hdr[s] /\ body'[s] = body[s]
                                 /\ phdr'[s] = phdr[s] /\ pbody'[s] = pbody[s]
  BY <1>1, <1>2, <1>3, Zenon
<1>6. /\ hdr' \in [Record -> Header] /\ phdr' \in [Record -> Header]
      /\ body' \in [Record -> Value] /\ pbody' \in [Record -> Value] /\ busy' \subseteq Record
  <2>1. hdr' \in [Record -> Header]
    BY <1>1, <1>3, <1>4, Zenon
  <2>2. phdr' = phdr \/ phdr' = [phdr EXCEPT ![r] = h]
    BY <1>1, <1>5, Zenon
  <2>3. phdr' \in [Record -> Header]
    BY <2>2, <1>3, <1>4, Zenon
  <2> QED BY <2>1, <2>3, <1>1, <1>3, Zenon
<1>7. /\ TypeOK' /\ \A u \in Thread \ {t} : th'[u] = th[u]
      /\ th'[t].pc = "rewrite" /\ th'[t].op = c.op /\ th'[t].key = c.key
      /\ th'[t].ver = c.ver /\ th'[t].val = c.val /\ th'[t].rec = r
      /\ Intent(th[t])' = Intent(c) /\ issued' = issued /\ index' = index
  BY <1>1, <1>2, <1>6, CallMove, Zenon DEF Filling, Writing
<1>8. t \in Agreeing'
  <2>1. Intent(th'[t]) = Intent(c)
    BY <1>7, Zenon
  <2> QED BY <1>2, <1>4, <1>5, <1>7, <2>1, ZenonT(30) DEF Agreeing, Dirtying, Filling, Writing
<1>9. phdr'[r].inv \/ Durable(r)' \in issued
  <2>1. CASE r \in OneLine
    BY <2>1, <1>1, <1>2, <1>5 DEF SInv, NoTornRecord, Surviving, Durable
  <2>2. CASE r \notin OneLine
    BY <2>2, <1>4, <1>5, Zenon
  <2> QED BY <2>1, <2>2, Zenon
<1>10. WriteStep(t)
  BY <1>1, <1>2, <1>5, <1>7, <1>8, <1>9, Zenon DEF WriteStep, Filling, Writing, Dirtying
<1> QED BY <1>7, <1>10, CallStep, Zenon

(* Filling an invalid record keeps the invariant: whatever the medium has  *)
(* of a two-line record is invalid, and a one-line record is still whole.  *)
LEMMA RewriteStep ==
    ASSUME SInv, NEW t \in Thread, Rewrite(t)
    PROVE  WriteStep(t) /\ SInv'
<1> DEFINE c == th[t]
           r == th[t].rec
           h == [hdr[r] EXCEPT !.key = c.key]
           to == IF r \in OneLine THEN "control" ELSE "flush"
<1>1. /\ c.pc = "rewrite" /\ th' = [th EXCEPT ![t].pc = to]
      /\ UNCHANGED <<busy, free, volatile, mode, todo, ghosts>>
      /\ hdr' = [hdr EXCEPT ![r] = h] /\ body' = [body EXCEPT ![r] = StoredValue(c)]
      /\ phdr' = phdr /\ pbody' = pbody
  BY Zenon DEF Rewrite, Step
<1>2. /\ r \in Record /\ c.pc \in Filling /\ r \in busy /\ t \in Agreeing
      /\ c.key \in Key /\ c.val \in Value /\ to \in Filling /\ to \in Dirtying
      /\ (to = "control" <=> r \in OneLine)
  BY <1>1, CallKnown, Zenon DEF Filling, Writing, SInv, Dirtying
<1> HIDE DEF to
<1>3. /\ hdr \in [Record -> Header] /\ phdr \in [Record -> Header]
      /\ body \in [Record -> Value] /\ pbody \in [Record -> Value] /\ busy \subseteq Record
  BY Zenon DEF SInv, TypeOK
<1>4. h \in Header /\ h.inv = hdr[r].inv /\ h.key = c.key /\ StoredValue(c) \in Value
  <2>1. hdr[r] \in Header /\ body[r] \in Value
    BY <1>2, <1>3, Zenon
  <2> QED BY <2>1, <1>2, Zenon DEF Header, StoredValue
<1> HIDE DEF h
<1>5. /\ hdr'[r] = h /\ body'[r] = StoredValue(c)
      /\ \A s \in Record \ {r} : /\ hdr'[s] = hdr[s] /\ body'[s] = body[s]
                                 /\ phdr'[s] = phdr[s] /\ pbody'[s] = pbody[s]
  BY <1>1, <1>2, <1>3, Zenon
<1>6. /\ hdr' \in [Record -> Header] /\ phdr' \in [Record -> Header]
      /\ body' \in [Record -> Value] /\ pbody' \in [Record -> Value] /\ busy' \subseteq Record
  BY <1>1, <1>3, <1>4, Zenon
<1>7. /\ TypeOK' /\ \A u \in Thread \ {t} : th'[u] = th[u]
      /\ th'[t].pc = to /\ th'[t].op = c.op /\ th'[t].key = c.key
      /\ th'[t].ver = c.ver /\ th'[t].val = c.val /\ th'[t].rec = r
      /\ Intent(th[t])' = Intent(c) /\ issued' = issued /\ index' = index
  BY <1>1, <1>2, <1>6, CallMove, Zenon
<1>8. hdr[r].inv /\ (r \notin OneLine => phdr[r].inv)
  BY <1>1, <1>2, Zenon DEF Agreeing, Dirtying
<1>9. t \in Agreeing'
  <2>1. Intent(th'[t]) = Intent(c)
    BY <1>7, Zenon
  <2>2. c.op # "remove" => body'[r] = c.val
    BY <1>5, Zenon DEF StoredValue
  <2>3. /\ c.op \in {"upsert", "update", "remove"} /\ Intent(c) \in issued
        /\ (c.op = "remove" => c.val = 0)
        /\ c.op \in {"update", "remove"} \ MissingKeys => index[c.key] # {}
    BY <1>2, CallKnown, Zenon
  <2>4. th'[t].pc \in {"flush", "control"}
    BY <1>2, <1>7, <1>1, Zenon DEF Dirtying, to
  <2>5. hdr'[r].inv /\ hdr'[r].key = c.key /\ (r \notin OneLine => phdr'[r].inv)
    BY <1>1, <1>4, <1>5, <1>8, Zenon
  <2> QED BY <1>2, <1>7, <2>1, <2>2, <2>3, <2>4, <2>5, Zenon DEF Agreeing
<1>10. phdr'[r].inv \/ Durable(r)' \in issued
  BY <1>1, <1>2 DEF SInv, NoTornRecord, Surviving, Durable
<1>11. WriteStep(t)
  BY <1>1, <1>2, <1>5, <1>7, <1>9, <1>10, Zenon DEF WriteStep, Filling, Writing, Dirtying
<1> QED BY <1>7, <1>11, CallStep, Zenon

(* Writing back an invalid record keeps the invariant. *)
LEMMA FlushRecordStep ==
    ASSUME SInv, NEW t \in Thread, FlushRecord(t)
    PROVE  WriteStep(t) /\ SInv'
<1> DEFINE c == th[t]
           r == th[t].rec
<1>1. /\ c.pc = "flush" /\ th' = [th EXCEPT ![t].pc = "control"]
      /\ UNCHANGED <<busy, free, volatile, mode, todo, ghosts>>
      /\ hdr' = hdr /\ body' = body
      /\ phdr' = [phdr EXCEPT ![r] = hdr[r]] /\ pbody' = [pbody EXCEPT ![r] = body[r]]
  BY Zenon DEF FlushRecord, Step, FlushHeader, FlushBody
<1>2. r \in Record /\ c.pc \in Filling /\ r \in busy /\ t \in Agreeing
  BY <1>1, CallKnown, Zenon DEF Filling, Writing, SInv
<1>3. /\ hdr \in [Record -> Header] /\ phdr \in [Record -> Header]
      /\ body \in [Record -> Value] /\ pbody \in [Record -> Value] /\ busy \subseteq Record
  BY Zenon DEF SInv, TypeOK
<1>4. /\ phdr'[r] = hdr[r] /\ pbody'[r] = body[r]
      /\ \A s \in Record \ {r} : /\ hdr'[s] = hdr[s] /\ body'[s] = body[s]
                                 /\ phdr'[s] = phdr[s] /\ pbody'[s] = pbody[s]
  BY <1>1, <1>2, <1>3, Zenon
<1>5. /\ hdr' \in [Record -> Header] /\ phdr' \in [Record -> Header]
      /\ body' \in [Record -> Value] /\ pbody' \in [Record -> Value] /\ busy' \subseteq Record
  BY <1>1, <1>2, <1>3, Zenon
<1>6. /\ TypeOK' /\ \A u \in Thread \ {t} : th'[u] = th[u]
      /\ th'[t].pc = "control" /\ th'[t].op = c.op /\ th'[t].key = c.key
      /\ th'[t].ver = c.ver /\ th'[t].val = c.val /\ th'[t].rec = r
      /\ Intent(th[t])' = Intent(c) /\ issued' = issued /\ index' = index
  BY <1>1, <1>2, <1>5, CallMove, Zenon DEF Filling, Writing
<1>7. /\ hdr[r].inv /\ r \notin OneLine /\ hdr[r].key = c.key
      /\ (c.op # "remove" => body[r] = c.val)
  BY <1>1, <1>2, Zenon DEF Agreeing, Dirtying
<1>8. r \in Clean'
  BY <1>1, <1>2, <1>4, ZenonT(30) DEF Clean
<1>9. t \in Agreeing'
  <2>1. Intent(th'[t]) = Intent(c)
    BY <1>6, Zenon
  <2>2. /\ c.key \in Key /\ c.op \in {"upsert", "update", "remove"} /\ Intent(c) \in issued
        /\ (c.op = "remove" => c.val = 0)
        /\ c.op \in {"update", "remove"} \ MissingKeys => index[c.key] # {}
    BY <1>2, CallKnown, Zenon
  <2>3. /\ th'[t].key \in Key /\ th'[t].op \in {"upsert", "update", "remove"}
        /\ Intent(th'[t]) \in issued' /\ (th'[t].op = "remove" => th'[t].val = 0)
        /\ th'[t].op \in {"update", "remove"} \ MissingKeys => index'[th'[t].key] # {}
    BY <1>6, <2>1, <2>2, Zenon
  <2>4. /\ hdr'[th'[t].rec].inv /\ phdr'[th'[t].rec].inv /\ hdr'[th'[t].rec].key = th'[t].key
        /\ (th'[t].op # "remove" => body'[th'[t].rec] = th'[t].val) /\ th'[t].rec \in Clean'
    <3>1. th'[t].rec = r /\ hdr' = hdr /\ body' = body /\ phdr'[r] = hdr[r]
      BY <1>1, <1>4, <1>6, Zenon
    <3>2. th'[t].op = c.op /\ th'[t].key = c.key /\ th'[t].val = c.val
      BY <1>6, Zenon
    <3> QED BY <3>1, <3>2, <1>7, <1>8, ZenonT(30)
  <2>5. th'[t].pc \notin {"publish", "index"} /\ th'[t].pc # "flush"
    BY <1>6, Zenon
  <2> QED BY <2>3, <2>4, <2>5, ZenonT(30) DEF Agreeing
<1>10. phdr'[r].inv
  BY <1>4, <1>7, Zenon
<1>11. WriteStep(t)
  BY <1>1, <1>2, <1>4, <1>6, <1>8, <1>9, <1>10, ZenonT(30) DEF WriteStep, Filling, Writing
<1> QED BY <1>6, <1>11, CallStep, Zenon

(* Making the record valid again keeps the invariant: the line that        *)
(* set_control writes back completes the record on the medium.             *)
LEMMA SetControlStep ==
    ASSUME SInv, NEW t \in Thread, SetControl(t)
    PROVE  WriteStep(t) /\ SInv'
<1> DEFINE c == th[t]
           r == th[t].rec
           h == [hdr[r] EXCEPT !.inv = FALSE, !.tomb = c.op = "remove", !.ver = c.ver]
<1>1. /\ c.pc = "control" /\ th' = [th EXCEPT ![t].pc = "index"]
      /\ UNCHANGED <<busy, free, volatile, mode, todo, ghosts>>
      /\ hdr' = [hdr EXCEPT ![r] = h] /\ body' = body
      /\ phdr' = [phdr EXCEPT ![r] = hdr'[r]]
      /\ IF r \in OneLine THEN pbody' = [pbody EXCEPT ![r] = body'[r]] ELSE pbody' = pbody
  BY Zenon DEF SetControl, Step, FlushHeader, FlushBody
<1>2. /\ r \in Record /\ c.pc \in Filling /\ r \in busy /\ t \in Agreeing
      /\ c.key \in Key /\ c.ver \in Nat
  BY <1>1, CallKnown, Zenon DEF Filling, Writing, SInv
<1>3. /\ hdr \in [Record -> Header] /\ phdr \in [Record -> Header]
      /\ body \in [Record -> Value] /\ pbody \in [Record -> Value] /\ busy \subseteq Record
  BY Zenon DEF SInv, TypeOK
<1>4. /\ h \in Header /\ h.inv = FALSE /\ h.tomb = (c.op = "remove") /\ h.ver = c.ver
      /\ h.key = hdr[r].key
  <2>1. hdr[r] \in Header
    BY <1>2, <1>3, Zenon
  <2> QED BY <2>1, <1>2, Zenon DEF Header
<1> HIDE DEF h
<1>5. /\ hdr[r].key = c.key /\ (c.op # "remove" => body[r] = c.val)
      /\ (r \notin OneLine => pbody[r] = body[r])
  BY <1>1, <1>2, Zenon DEF Agreeing, Clean
<1>6. /\ hdr'[r] = h /\ phdr'[r] = h /\ body'[r] = body[r] /\ pbody'[r] = body[r]
      /\ \A s \in Record \ {r} : /\ hdr'[s] = hdr[s] /\ body'[s] = body[s]
                                 /\ phdr'[s] = phdr[s] /\ pbody'[s] = pbody[s]
  BY <1>1, <1>2, <1>3, <1>5, Zenon
<1>7. /\ hdr' \in [Record -> Header] /\ phdr' \in [Record -> Header]
      /\ body' \in [Record -> Value] /\ pbody' \in [Record -> Value] /\ busy' \subseteq Record
  <2>1. hdr' \in [Record -> Header]
    BY <1>1, <1>3, <1>4, Zenon
  <2>2. phdr' = [phdr EXCEPT ![r] = h]
    BY <1>1, <1>6, Zenon
  <2>3. phdr' \in [Record -> Header]
    BY <2>2, <1>3, <1>4, Zenon
  <2>4. pbody' \in [Record -> Value] /\ body' \in [Record -> Value]
    BY <1>1, <1>2, <1>3, Zenon
  <2> QED BY <2>1, <2>3, <2>4, <1>1, <1>3, ZenonT(30)
<1>8. /\ TypeOK' /\ \A u \in Thread \ {t} : th'[u] = th[u]
      /\ th'[t].pc = "index" /\ th'[t].op = c.op /\ th'[t].key = c.key
      /\ th'[t].ver = c.ver /\ th'[t].val = c.val /\ th'[t].rec = r
      /\ Intent(th[t])' = Intent(c) /\ issued' = issued /\ index' = index
  BY <1>1, <1>2, <1>7, CallMove, Zenon DEF Filling, Writing
<1>9. /\ c.op \in {"upsert", "update", "remove"} /\ Intent(c) \in issued
      /\ (c.op = "remove" => c.val = 0)
      /\ c.op \in {"update", "remove"} \ MissingKeys => index[c.key] # {}
  BY <1>2, CallKnown, Zenon
<1>10. Content(h, body[r]) = Intent(c)
  BY <1>4, <1>5, <1>9, Zenon DEF Content, Intent
<1>11. t \in Agreeing'
  <2>1. Content(hdr'[r], body'[r]) = Intent(th'[t]) /\ Intent(th'[t]) = Intent(c)
    BY <1>6, <1>8, <1>10, Zenon
  <2> QED BY <1>2, <1>4, <1>6, <1>8, <1>9, <2>1, ZenonT(30) DEF Agreeing, Dirtying
<1>12. r \in Clean'
  BY <1>2, <1>6, Zenon DEF Clean
<1>13. Durable(r)' \in issued
  <2>1. Durable(r)' = Content(phdr'[r], pbody'[r])
    BY <1>8, Zenon DEF Durable
  <2> QED BY <2>1, <1>6, <1>9, <1>10
<1>14. WriteStep(t)
  BY <1>1, <1>2, <1>6, <1>8, <1>11, <1>12, <1>13, ZenonT(30) DEF WriteStep, Filling, Writing
<1> QED BY <1>8, <1>14, CallStep, Zenon

(* The write-back of a dirty line, at any moment, keeps the invariant: it  *)
(* can only make a record invalid on the medium.                           *)
LEMMA EvictStep ==
    ASSUME SInv, NEW r \in Record, Evict(r)
    PROVE  SInv'
<1>1. /\ hdr' = hdr /\ body' = body /\ busy' = busy /\ free' = free /\ index' = index
      /\ version' = version /\ limbo' = limbo /\ retired' = retired /\ tomb' = tomb
      /\ th' = th /\ mode' = mode /\ todo' = todo /\ issued' = issued /\ acked' = acked
      /\ recovered' = recovered
  BY Zenon DEF Evict, volatile, ghosts
<1>2. /\ phdr' = phdr \/ phdr' = [phdr EXCEPT ![r] = hdr[r]]
      /\ pbody' = pbody \/ pbody' = [pbody EXCEPT ![r] = body[r]]
      /\ r \in OneLine => phdr' = [phdr EXCEPT ![r] = hdr[r]]
  BY Zenon DEF Evict
<1>3. /\ hdr \in [Record -> Header] /\ phdr \in [Record -> Header]
      /\ body \in [Record -> Value] /\ pbody \in [Record -> Value] /\ busy \subseteq Record
  BY Zenon DEF SInv, TypeOK
<1>4. /\ phdr'[r] = phdr[r] \/ phdr'[r] = hdr[r]
      /\ pbody'[r] = pbody[r] \/ pbody'[r] = body[r]
      /\ r \in OneLine => phdr'[r] = hdr[r]
      /\ \A s \in Record \ {r} : phdr'[s] = phdr[s] /\ pbody'[s] = pbody[s]
  BY <1>2, <1>3, Zenon
<1>5. TypeOK'
  <2>1. phdr' \in [Record -> Header] /\ pbody' \in [Record -> Value]
    BY <1>2, <1>3, Zenon
  <2> QED BY <2>1, <1>1, Zenon DEF SInv, TypeOK
<1>6. \A s \in Record : s \in Clean => s \in Clean'
  BY <1>1, <1>4, Zenon DEF Clean
<1>7. /\ Indexed' = Indexed /\ InLimbo' = InLimbo /\ InEpoch' = InEpoch /\ InCall' = InCall
      /\ Unscanned' = Unscanned
  BY <1>1 DEF Indexed, InLimbo, Limboed, InEpoch, InCall, Unscanned
<1>8. ModeInv' /\ OnceInv' /\ ApartInv' /\ BusyInv'
  <2>1. ModeInv' /\ BusyInv' /\ ApartInv'
    BY <1>1, <1>7, ZenonT(30) DEF SInv, ModeInv, ApartInv, BusyInv
  <2>2. OnceInv'
    BY <1>1 DEF SInv, OnceInv, CallOnce, IndexOnce, LimboOnce, EpochOnce
  <2> QED BY <2>1, <2>2, Zenon
<1>9. IndexInv' /\ ReadInv' /\ VerInv'
  <2>1. IndexInv'
    BY <1>1, Zenon DEF SInv, IndexInv
  <2>2. ReadInv'
    BY <1>1, <1>7, ZenonT(30) DEF SInv, ReadInv
  <2>3. VerInv'
    BY <1>1, SMTT(30) DEF SInv, VerInv
  <2> QED BY <2>1, <2>2, <2>3, Zenon
<1>10. KeepInv'
  BY <1>1, <1>7, Zenon DEF SInv, KeepInv, OlderReleased
<1>11. Thread \subseteq Agreeing'
  <2> SUFFICES ASSUME NEW t \in Thread, th[t].pc \in Writing PROVE t \in Agreeing'
    BY <1>1, AgreeIdle, Zenon
  <2>1. CASE th[t].pc \in Filling
    <3>1. t \in Agreeing /\ th[t].rec \in Record
      BY <2>1, CallKnown, Zenon DEF SInv
    <3>2. th[t].pc \in Dirtying /\ th[t].rec \notin OneLine => phdr'[th[t].rec].inv
      BY <3>1, <1>4, Zenon DEF Agreeing
    <3> QED BY <3>1, <3>2, <1>1, <1>6, Zenon DEF Agreeing
  <2>2. CASE th[t].pc = "acquire"
    <3>1. th[t].pc \notin Holding
      BY <2>2, Zenon DEF Holding, Filling, Writing
    <3> QED BY <3>1, <1>1, AgreeWait, Zenon DEF SInv
  <2> QED BY <2>1, <2>2, Zenon DEF Filling
<1>12. CleanInv'
  BY <1>1, <1>6, Zenon DEF SInv, CleanInv
<1>13. NoTornRecord'
  <2> SUFFICES ASSUME NEW s \in busy, ~phdr'[s].inv PROVE Durable(s)' \in issued
    BY <1>1, Zenon DEF NoTornRecord, Surviving
  <2>1. CASE phdr'[s] = phdr[s] /\ pbody'[s] = pbody[s]
    BY <2>1, Zenon DEF SInv, NoTornRecord, Surviving, Durable
  <2>2. CASE ~(phdr'[s] = phdr[s] /\ pbody'[s] = pbody[s])
    <3>1. s = r /\ r \notin Clean
      BY <2>2, <1>3, <1>4, Zenon DEF Clean
    <3>2. PICK t \in Thread : th[t].rec = r /\ th[t].pc \in Dirtying
      BY <3>1, Zenon DEF SInv, CleanInv
    <3>3. hdr[r].inv /\ (r \notin OneLine => phdr[r].inv)
      BY <3>2, ZenonT(30) DEF SInv, Agreeing
    <3>4. phdr'[r].inv
      BY <3>3, <1>4, Zenon
    <3> QED BY <3>1, <3>4, Zenon
  <2> QED BY <2>1, <2>2, Zenon
<1> QED BY <1>5, <1>8, <1>9, <1>10, <1>11, <1>12, <1>13, ZenonT(30) DEF SInv
-----------------------------------------------------------------------------
(***************************************************************************)
(* The invariant of durability.                                            *)
(***************************************************************************)

(* The records that a call has made valid and not yet put in the index. *)
Fresh == {th[t].rec : t \in {u \in Thread : th[u].pc = "index"}}

(* A key has no two writes of a version, among the calls that are running  *)
(* and the records that a crash would leave.                               *)
UniqueInv ==
    /\ \A t, u \in Thread :
         th[t].pc \in Writing /\ th[u].pc \in Writing
         /\ th[t].key = th[u].key /\ th[t].ver = th[u].ver => t = u
    /\ \A r, s \in Surviving : phdr[r].key = phdr[s].key /\ phdr[r].ver = phdr[s].ver => r = s
    /\ \A t \in Thread : \A r \in Surviving :
         th[t].pc \in Writing /\ phdr[r].key = th[t].key /\ phdr[r].ver = th[t].ver
         => th[t].pc = "index" /\ r = th[t].rec

(* NewestIndexed in every mode. *)
NewestInv ==
    \A r \in Surviving :
        \/ r \in Fresh \/ r \in Unscanned
        \/ \E i \in index[phdr[r].key] : i = r \/ hdr[i].ver > phdr[r].ver

(* Outside of recovery the index shows exactly the newest write of a key   *)
(* that returned; a key without a record was removed, and the writes to it *)
(* that are still running are newer.                                       *)
ShownInv ==
    mode # "recover" => \A k \in Key :
        /\ \A i \in index[k] : acked[k] = {Content(hdr[i], body[i])}
        /\ index[k] = {} => \A a \in acked[k] :
             /\ a.tomb
             /\ \A t \in Thread : th[t].pc \in Writing /\ th[t].key = k => th[t].ver > a.ver
        /\ ~recovered => \A a \in acked[k] : a.ver < version[SlotOf[k]]

(* During recovery what was shown is in the rebuilt index or in the part   *)
(* that is still to be scanned.                                            *)
KeptInv ==
    mode = "recover" =>
        /\ recovered
        /\ \A k \in Key : \A a \in acked[k] :
             \/ \E r \in index[k] \union todo :
                   /\ ~hdr[r].inv /\ hdr[r].key = k
                   /\ (hdr[r].ver > a.ver \/ Content(hdr[r], body[r]) = a)
             \/ /\ a.tomb /\ index[k] = {}
                /\ \A r \in todo : ~hdr[r].inv => hdr[r].key # k

DInv == UniqueInv /\ NewestInv /\ ShownInv /\ KeptInv

-----------------------------------------------------------------------------
(***************************************************************************)
(* What a crash would leave.                                               *)
(***************************************************************************)

(* The version of a write that returned is a number. *)
LEMMA AckedVer ==
    ASSUME SInv, NEW k \in Key, NEW a \in acked[k]
    PROVE  a.ver \in Nat
<1>1. acked \in [Key -> SUBSET Write]
  BY Zenon DEF SInv, TypeOK
<1>2. a \in Write
  BY <1>1, Zenon
<1> QED BY <1>2, Zenon DEF Write

(* A crash leaves the records whose token is hired and that are not        *)
(* marked invalid on the medium.                                           *)
LEMMA SurviveFact ==
    /\ \A r : r \in Surviving <=> r \in busy /\ ~phdr[r].inv
    /\ \A r : r \in Surviving' <=> r \in busy' /\ ~phdr'[r].inv
  BY Zenon DEF Surviving

(* A fresh record is that of a thread about to use the index. *)
LEMMA FreshFact ==
    /\ \A r : r \in Fresh <=> \E t \in Thread : th[t].pc = "index" /\ th[t].rec = r
    /\ \A r : r \in Fresh' <=> \E t \in Thread : th'[t].pc = "index" /\ th'[t].rec = r
  BY Zenon DEF Fresh

(* The header of a record that a crash would leave is that of a write. *)
LEMMA SurvivorFact ==
    ASSUME SInv, NEW r \in Surviving
    PROVE  r \in Record /\ phdr[r].key \in Key /\ phdr[r].ver \in Nat
<1>1. r \in Record
  BY SurviveFact, Zenon DEF SInv, TypeOK
<1>2. Durable(r) \in Write
  BY Zenon DEF SInv, TypeOK, NoTornRecord
<1>3. Durable(r).key = phdr[r].key /\ Durable(r).ver = phdr[r].ver
  BY Zenon DEF Durable, Content
<1> QED BY <1>1, <1>2, <1>3, Zenon DEF Write

(* An indexed record is on the medium as the index shows it. *)
LEMMA IndexedKnown ==
    ASSUME SInv, NEW k \in Key, NEW i \in index[k]
    PROVE  /\ i \in Record /\ i \in Surviving /\ i \in Indexed
           /\ phdr[i] = hdr[i] /\ pbody[i] = body[i]
           /\ hdr[i].key = k /\ ~hdr[i].inv /\ hdr[i].ver \in Nat
           /\ \A j \in index[k] : j = i
<1>1. i \in Record /\ i \in Indexed /\ i \in busy
  BY IndexedFact, ZenonT(30) DEF SInv, TypeOK, ApartInv
<1>2. hdr[i].key = k /\ ~hdr[i].inv /\ \A j \in index[k] : j = i
  BY Zenon DEF SInv, IndexInv
<1>3. \A u \in Thread : th[u].rec = i => th[u].pc \notin Dirtying
  <2>1. i \notin InCall
    BY <1>1, Zenon DEF SInv, ApartInv
  <2> QED BY <2>1, CallFact, Zenon DEF Dirtying, Holding, Filling, Writing
<1>4. phdr[i] = hdr[i] /\ pbody[i] = body[i]
  BY <1>1, <1>3, CleanUnless, Zenon
<1>5. hdr[i].ver \in Nat
  BY <1>1, Zenon DEF SInv, TypeOK, Header
<1> QED BY <1>1, <1>2, <1>4, <1>5, SurviveFact, ZenonT(30)

(* The record of a call that is about to use the index holds its write. *)
LEMMA FreshKnown ==
    ASSUME SInv, NEW t \in Thread, th[t].pc = "index"
    PROVE  /\ th[t].rec \in Record /\ th[t].rec \in Surviving /\ th[t].rec \notin Indexed
           /\ phdr[th[t].rec] = hdr[th[t].rec] /\ pbody[th[t].rec] = body[th[t].rec]
           /\ hdr[th[t].rec].key = th[t].key /\ hdr[th[t].rec].ver = th[t].ver
           /\ Content(hdr[th[t].rec], body[th[t].rec]) = Intent(th[t])
           /\ th[t].key \in Key /\ th[t].ver \in Nat /\ version[SlotOf[th[t].key]] \in Nat
           /\ th[t].ver < version[SlotOf[th[t].key]] /\ mode = "open"
           /\ \A u \in Thread \ {t} : th[u].pc \in Holding => th[u].rec # th[t].rec
<1> DEFINE r == th[t].rec
<1>1. /\ th[t].pc \in Writing /\ th[t].pc \in Filling /\ th[t].pc \in Filling \ Dirtying
      /\ th[t].pc \in Holding
  BY Zenon DEF Writing, Dirtying, Holding, Filling
<1>2. /\ r \in Record /\ th[t].key \in Key /\ th[t].ver \in Nat /\ r \in busy
  BY <1>1, CallKnown, Zenon
<1>3. phdr[r] = hdr[r] /\ pbody[r] = body[r]
  BY <1>1, CleanCall, Zenon
<1>4. ~hdr[r].inv /\ Content(hdr[r], body[r]) = Intent(th[t])
  BY Zenon DEF SInv, Agreeing
<1>5. hdr[r].key = th[t].key /\ hdr[r].ver = th[t].ver
  BY <1>4, Zenon DEF Content, Intent
<1>6. /\ r \notin Indexed
      /\ \A u \in Thread \ {t} : th[u].pc \in Holding => th[u].rec # r
  BY <1>1, Elsewhere, ZenonT(30) DEF SInv
<1>7. th[t].ver < version[SlotOf[th[t].key]] /\ mode = "open"
  BY <1>1, ZenonT(30) DEF SInv, VerInv, ModeInv
<1>8. version[SlotOf[th[t].key]] \in Nat
  BY <1>2, Zenon DEF SInv, TypeOK, Slot
<1> QED BY <1>2, <1>3, <1>4, <1>5, <1>6, <1>7, <1>8, SurviveFact, ZenonT(30)
-----------------------------------------------------------------------------
(***************************************************************************)
(* Steps that neither write a record nor change what the index shows.      *)
(***************************************************************************)

(* What such a step leaves alone: it may only give up records. *)
QuietStep ==
    /\ hdr' = hdr /\ body' = body /\ index' = index /\ acked' = acked
    /\ recovered' = recovered /\ (mode' = "recover" <=> mode = "recover")
    /\ mode = "recover" => todo' = todo
    /\ mode # "recover" => version' = version
    /\ \A t \in Thread : th[t].pc \in Writing \/ th'[t].pc \in Writing => th'[t] = th[t]
    /\ \A r \in Surviving' : r \in Surviving /\ phdr'[r] = phdr[r]

(* A quiet step keeps the durable state and the shown one together. *)
LEMMA Quiet ==
    ASSUME DInv, QuietStep
    PROVE  DInv'
<1>1. \A t \in Thread : /\ th'[t].pc \in Writing => th'[t] = th[t]
                        /\ th[t].pc = "index" => th'[t] = th[t]
  BY Zenon DEF QuietStep, Writing
<1>2. Unscanned' = Unscanned
  BY Zenon DEF QuietStep, Unscanned
<1>3. \A r \in Surviving' : r \in Surviving /\ phdr'[r] = phdr[r]
  BY Zenon DEF QuietStep
<1>4. UniqueInv'
  BY <1>1, <1>3 DEF DInv, UniqueInv
<1>5. NewestInv'
  <2>1. \A r : r \in Fresh => r \in Fresh'
    BY <1>1, FreshFact, Zenon
  <2> QED BY <2>1, <1>2, <1>3, Zenon DEF DInv, NewestInv, QuietStep
<1>6. ShownInv'
  BY <1>1 DEF DInv, ShownInv, QuietStep
<1>7. KeptInv'
  BY Zenon DEF DInv, KeptInv, QuietStep
<1> QED BY <1>4, <1>5, <1>6, <1>7, Zenon DEF DInv

(* Flags and lines at rest: a record that no call rewrites is unchanged by *)
(* a write-back, and one that a call rewrites is invalid.                  *)
LEMMA EvictDurable ==
    ASSUME SInv, DInv, NEW r \in Record, Evict(r)
    PROVE  DInv'
<1>1. /\ hdr' = hdr /\ body' = body /\ busy' = busy /\ index' = index /\ version' = version
      /\ th' = th /\ mode' = mode /\ todo' = todo /\ acked' = acked /\ recovered' = recovered
  BY Zenon DEF Evict, volatile, ghosts
<1>2. phdr' = [phdr EXCEPT ![r] = hdr[r]] \/ phdr' = phdr
  BY Zenon DEF Evict
<1>3. \A s \in Record \ {r} : phdr'[s] = phdr[s]
  BY <1>2, ZenonT(30) DEF SInv, TypeOK
<1>4. phdr'[r] = phdr[r] \/ phdr'[r] = hdr[r]
  BY <1>2, Zenon DEF SInv, TypeOK
<1>5. phdr[r] = hdr[r] \/ hdr[r].inv
  <2>1. r \in Clean \/ \E t \in Thread : th[t].rec = r /\ th[t].pc \in Dirtying
    BY Zenon DEF SInv, CleanInv
  <2>2. ASSUME NEW t \in Thread, th[t].rec = r, th[t].pc \in Dirtying PROVE hdr[r].inv
    BY <2>2, Zenon DEF SInv, Agreeing
  <2> QED BY <2>1, <2>2, Zenon DEF Clean
<1>6. ASSUME NEW s \in Surviving' PROVE s \in Surviving /\ phdr'[s] = phdr[s]
  <2>1. s \in busy /\ ~phdr'[s].inv /\ s \in Record
    BY <1>1, SurviveFact, ZenonT(30) DEF SInv, TypeOK
  <2> QED BY <2>1, <1>3, <1>4, <1>5, SurviveFact, ZenonT(30)
<1> QED BY <1>1, <1>6, Quiet, Zenon DEF QuietStep

(* A step that keeps every line, and fires tokens at most, loses no header *)
(* that a crash would leave.                                               *)
LEMMA FewerSurvive ==
    ASSUME phdr' = phdr, busy' \subseteq busy
    PROVE  \A r \in Surviving' : r \in Surviving /\ phdr'[r] = phdr[r]
  BY SurviveFact, Zenon

(* Reads, and the closures of the epoch. *)
LEMMA ReadDurable ==
    ASSUME SInv, DInv, NEW t \in Thread,
           \/ ReadDone(t) \/ (\E k \in Key : Lookup(t, k)) \/ \E x \in retired : Reclaim(t, x)
    PROVE  DInv'
<1>1. /\ hdr' = hdr /\ body' = body /\ phdr' = phdr /\ index' = index /\ version' = version
      /\ mode' = mode /\ todo' = todo /\ acked' = acked /\ recovered' = recovered
  BY Zenon DEF ReadDone, Lookup, Reclaim, lines, volatile, ghosts
<1>2. busy' \subseteq busy
  BY Zenon DEF ReadDone, Lookup, Reclaim, LimboRelease, SlabRelease
<1>3. \A u \in Thread : th[u].pc \in Writing \/ th'[u].pc \in Writing => th'[u] = th[u]
  <2>1. CASE ReadDone(t)
    <3>1. th' = [th EXCEPT ![t] = IdleCall] /\ th[t].pc = "read"
      BY <2>1, Zenon DEF ReadDone
    <3> QED BY <3>1, IdleFact, ZenonT(30) DEF SInv, TypeOK, Holding, Filling, Writing
  <2>2. CASE \E k \in Key : Lookup(t, k)
    <3>1. PICK k \in Key : Lookup(t, k)
      BY <2>2, Zenon
    <3>2. PICK r \in Found(k) :
             th' = [th EXCEPT ![t] = [IdleCall EXCEPT !.pc = "read", !.key = k,
                                         !.rec = r, !.ver = hdr[r].ver, !.val = body[r]]]
      BY <3>1, Zenon DEF Lookup
    <3>3. th[t].pc = "idle"
      BY <3>1, Zenon DEF Lookup
    <3>4. th'[t].pc = "read" /\ \A u \in Thread \ {t} : th'[u] = th[u]
      BY <3>2, ZenonT(30) DEF SInv, TypeOK, IdleCall
    <3> QED BY <3>3, <3>4, Zenon DEF Writing
  <2>3. CASE \E x \in retired : Reclaim(t, x)
    BY <2>3, Zenon DEF Reclaim
  <2> QED BY <2>1, <2>2, <2>3, Zenon
<1> QED BY <1>1, <1>2, <1>3, FewerSurvive, Quiet, ZenonT(30) DEF QuietStep

(* The destructor up to the tombstones, its end, and the reboot. *)
LEMMA CloseDurable ==
    ASSUME SInv, DInv,
           \/ CloseBegin \/ (\E t \in Thread : CloseLimbo(t)) \/ CloseLimboDone
           \/ (\E x \in retired : EpochClear(x)) \/ EpochClearDone \/ CloseDone \/ Reboot
    PROVE  DInv'
<1>1. /\ hdr' = hdr /\ body' = body /\ phdr' = phdr /\ index' = index /\ version' = version
      /\ th' = th /\ acked' = acked /\ recovered' = recovered
  BY Zenon DEF CloseBegin, CloseLimbo, CloseLimboDone, EpochClear, EpochClearDone, CloseDone,
     Reboot, lines, volatile, ghosts
<1>2. mode # "recover" /\ mode' # "recover"
  BY Zenon DEF CloseBegin, CloseLimbo, CloseLimboDone, EpochClear, EpochClearDone, CloseDone, Reboot,
     Running
<1>3. busy' \subseteq busy
  BY Zenon DEF CloseBegin, CloseLimbo, CloseLimboDone, EpochClear, EpochClearDone, CloseDone, Reboot,
     LimboRelease, SlabRelease
<1> QED BY <1>1, <1>2, <1>3, FewerSurvive, Quiet, Zenon DEF QuietStep

(* A recovery worker after the index: the record it gives up, the version. *)
LEMMA WorkerDurable ==
    ASSUME SInv, DInv, NEW t \in Thread,
           RecoverDrop(t) \/ RecoverRetire(t) \/ RecoverLoad(t) \/ RecoverVersion(t)
    PROVE  DInv'
<1>1. /\ hdr' = hdr /\ body' = body /\ phdr' = phdr /\ index' = index /\ mode = "recover"
      /\ mode' = mode /\ todo' = todo /\ acked' = acked /\ recovered' = recovered
  BY Zenon DEF RecoverDrop, RecoverRetire, RecoverLoad, RecoverVersion, lines, volatile, ghosts
<1>2. busy' \subseteq busy
  BY Zenon DEF RecoverDrop, RecoverRetire, RecoverLoad, RecoverVersion, SlabRelease
<1>3. th[t].pc \notin Writing
  BY <1>1, ZenonT(30) DEF SInv, ModeInv
<1>4. th \in [Thread -> Call]
  BY Zenon DEF SInv, TypeOK
<1>5. th'[t].pc \notin Writing /\ \A u \in Thread \ {t} : th'[u] = th[u]
  <2>1. CASE RecoverDrop(t)
    BY <2>1, <1>4, IdleFact, Zenon DEF RecoverDrop, Holding, Filling
  <2>2. CASE RecoverRetire(t)
    BY <2>2, <1>4, Zenon DEF RecoverRetire, Writing, Call
  <2>3. CASE RecoverLoad(t)
    BY <2>3, <1>4, Zenon DEF RecoverLoad, Writing, Call
  <2>4. CASE RecoverVersion(t)
    <3>1. \/ th' = [th EXCEPT ![t] = IdleCall]
          \/ th' = [th EXCEPT ![t].val = version[SlotOf[th[t].key]]]
      BY <2>4, Zenon DEF RecoverVersion
    <3> QED BY <3>1, <1>3, <1>4, IdleFact, ZenonT(30) DEF Holding, Filling, Call
  <2> QED BY <2>1, <2>2, <2>3, <2>4, Zenon
<1>6. \A u \in Thread : th[u].pc \in Writing \/ th'[u].pc \in Writing => th'[u] = th[u]
  BY <1>3, <1>5, Zenon
<1> QED BY <1>1, <1>2, <1>6, FewerSurvive, Quiet, Zenon DEF QuietStep
-----------------------------------------------------------------------------
(***************************************************************************)
(* The write path.                                                         *)
(***************************************************************************)

(* A step of a call on the way to the index changes its own record only,   *)
(* which afterwards would not survive, is the garbage record it was, or    *)
(* holds the write of the call.                                            *)
PathStep(t) ==
    /\ th[t].pc \in Filling \ {"index"} /\ th'[t].pc \in Filling
    /\ th'[t].key = th[t].key /\ th'[t].ver = th[t].ver /\ th'[t].rec = th[t].rec
    /\ \A u \in Thread \ {t} : th'[u] = th[u]
    /\ index' = index /\ version' = version /\ acked' = acked
    /\ recovered' = recovered /\ mode' = mode /\ todo' = todo
    /\ \A s \in Record \ {th[t].rec} :
         hdr'[s] = hdr[s] /\ body'[s] = body[s] /\ phdr'[s] = phdr[s]
         /\ (s \in busy' <=> s \in busy)
    /\ \/ th[t].rec \notin Surviving'
       \/ th[t].rec \in Surviving /\ phdr'[th[t].rec] = phdr[th[t].rec]
       \/ /\ th'[t].pc = "index"
          /\ phdr'[th[t].rec].key = th[t].key /\ phdr'[th[t].rec].ver = th[t].ver

(* Such a step keeps the durable state and the shown one together. *)
LEMMA Path ==
    ASSUME SInv, busy' \subseteq Record, DInv, NEW t \in Thread, PathStep(t)
    PROVE  DInv'
<1> DEFINE r == th[t].rec
<1>1. /\ th[t].pc \in Filling /\ th[t].pc # "index" /\ th'[t].pc \in Filling
      /\ th[t].pc \in Writing /\ th'[t].pc \in Writing
      /\ th'[t].key = th[t].key /\ th'[t].ver = th[t].ver /\ th'[t].rec = r
      /\ \A u \in Thread \ {t} : th'[u] = th[u]
  BY Zenon DEF PathStep, Filling
<1>2. /\ index' = index /\ version' = version /\ acked' = acked
      /\ recovered' = recovered /\ mode' = mode /\ todo' = todo
  BY Zenon DEF PathStep
<1>3. /\ th[t].pc \in Holding /\ r \in Record /\ mode = "open" /\ r \notin Indexed
      /\ \A u \in Thread \ {t} : th[u].pc \in Holding => th[u].rec # r
  <2>1. th[t].pc \in Holding
    BY <1>1, ZenonT(30) DEF Holding, Filling
  <2>2. mode = "open"
    BY <1>1, Zenon DEF SInv, ModeInv
  <2> QED BY <2>1, <2>2, <1>1, Elsewhere, CallKnown, ZenonT(30) DEF SInv
<1>4. \A s \in Surviving' : s # r => s \in Surviving /\ phdr'[s] = phdr[s]
  <2> SUFFICES ASSUME NEW s \in Surviving', s # r PROVE s \in Surviving /\ phdr'[s] = phdr[s]
    BY Zenon
  <2>1. s \in busy' /\ ~phdr'[s].inv /\ s \in Record \ {r}
    BY SurviveFact, Zenon
  <2>2. phdr'[s] = phdr[s] /\ (s \in busy' <=> s \in busy)
    BY <2>1, Zenon DEF PathStep
  <2> QED BY <2>1, <2>2, SurviveFact, Zenon
<1>5. \A u \in Thread : th[u].pc = "index" => u # t /\ th[u].rec # r /\ th'[u] = th[u]
  BY <1>1, <1>3, Zenon DEF Holding, Filling, Writing
<1>6. \A u \in Thread : /\ th'[u].pc \in Writing <=> th[u].pc \in Writing
                        /\ th'[u].key = th[u].key /\ th'[u].ver = th[u].ver
                        /\ th'[u].rec = th[u].rec
  BY <1>1, Zenon
<1>7. r \in Surviving' =>
        \/ r \in Surviving /\ phdr'[r] = phdr[r]
        \/ th'[t].pc = "index" /\ phdr'[r].key = th[t].key /\ phdr'[r].ver = th[t].ver
  BY Zenon DEF PathStep
<1>8. \A s \in Surviving : ~(phdr[s].key = th[t].key /\ phdr[s].ver = th[t].ver)
  BY <1>1, Zenon DEF DInv, UniqueInv
<1>9. UniqueInv'
  <2>1. ASSUME NEW u \in Thread, NEW v \in Thread, th'[u].pc \in Writing, th'[v].pc \in Writing,
               th'[u].key = th'[v].key, th'[u].ver = th'[v].ver
        PROVE  u = v
    BY <2>1, <1>6, ZenonT(30) DEF DInv, UniqueInv
  <2>2. ASSUME NEW a \in Surviving', NEW b \in Surviving', phdr'[a].key = phdr'[b].key,
               phdr'[a].ver = phdr'[b].ver
        PROVE  a = b
    <3>1. \A x, y \in Surviving : phdr[x].key = phdr[y].key /\ phdr[x].ver = phdr[y].ver => x = y
      BY Zenon DEF DInv, UniqueInv
    <3> QED BY <3>1, <2>2, <1>4, <1>7, <1>8
  <2>3. ASSUME NEW u \in Thread, NEW s \in Surviving', th'[u].pc \in Writing,
               phdr'[s].key = th'[u].key, phdr'[s].ver = th'[u].ver
        PROVE  th'[u].pc = "index" /\ s = th'[u].rec
    <3>1. s \in Surviving /\ phdr'[s] = phdr[s] => th[u].pc = "index" /\ s = th[u].rec
      BY <2>3, <1>6 DEF DInv, UniqueInv
    <3>2. s \in Surviving /\ phdr'[s] = phdr[s] => th'[u].pc = "index" /\ s = th'[u].rec
      BY <3>1, <1>5, Zenon
    <3>3. ASSUME s = r, th'[t].pc = "index", phdr'[r].key = th[t].key, phdr'[r].ver = th[t].ver
          PROVE  u = t
      <4>1. th'[u].key = th'[t].key /\ th'[u].ver = th'[t].ver
        BY <3>3, <2>3, <1>1, Zenon
      <4> QED BY <4>1, <2>1, <2>3, <1>1, ZenonT(30)
    <3> QED BY <3>2, <3>3, <1>1, <1>4, <1>7, ZenonT(30)
  <2> QED BY <2>1, <2>2, <2>3, Zenon DEF UniqueInv
<1>10. \A k \in Key : \A i \in index[k] : i # r /\ hdr'[i] = hdr[i] /\ body'[i] = body[i]
  <2> SUFFICES ASSUME NEW k \in Key, NEW i \in index[k]
               PROVE  i # r /\ hdr'[i] = hdr[i] /\ body'[i] = body[i]
    BY Zenon
  <2>1. i \in Record /\ i \in Indexed
    BY IndexedKnown, Zenon
  <2>2. i # r
    BY <2>1, <1>3, Zenon
  <2> QED BY <2>1, <2>2, Zenon DEF PathStep
<1>11. NewestInv'
  <2>1. ASSUME NEW s \in Surviving, phdr'[s] = phdr[s]
        PROVE  \/ s \in Fresh'
               \/ \E i \in index'[phdr'[s].key] : i = s \/ hdr'[i].ver > phdr'[s].ver
    <3>1. CASE s \in Fresh
      BY <3>1, <1>5, FreshFact, SMTT(30)
    <3>2. s \notin Unscanned
      BY <1>3, Zenon DEF Unscanned
    <3>3. CASE \E i \in index[phdr[s].key] : i = s \/ hdr[i].ver > phdr[s].ver
      <4>1. phdr[s].key \in Key
        BY SurvivorFact, Zenon
      <4> QED BY <4>1, <3>3, <2>1, <1>2, <1>10, Zenon
    <3> QED BY <3>1, <3>2, <3>3, Zenon DEF DInv, NewestInv
  <2>2. r \in Surviving' => r \in Fresh' \/ (r \in Surviving /\ phdr'[r] = phdr[r])
    BY <1>1, <1>7, FreshFact, Zenon
  <2> QED BY <2>1, <2>2, <1>4, Zenon DEF NewestInv
<1>12. ShownInv'
  <2> SUFFICES ASSUME NEW k \in Key
               PROVE  /\ \A i \in index'[k] : acked'[k] = {Content(hdr'[i], body'[i])}
                      /\ index'[k] = {} => \A a \in acked'[k] :
                           /\ a.tomb
                           /\ \A u \in Thread :
                                 th'[u].pc \in Writing /\ th'[u].key = k => th'[u].ver > a.ver
                      /\ ~recovered' => \A a \in acked'[k] : a.ver < version'[SlotOf[k]]
    BY Zenon DEF ShownInv
  <2>1. /\ \A i \in index[k] : acked[k] = {Content(hdr[i], body[i])}
        /\ index[k] = {} => \A a \in acked[k] :
             /\ a.tomb
             /\ \A u \in Thread : th[u].pc \in Writing /\ th[u].key = k => th[u].ver > a.ver
        /\ ~recovered => \A a \in acked[k] : a.ver < version[SlotOf[k]]
    BY <1>3, Zenon DEF DInv, ShownInv
  <2> QED BY <2>1, <1>2, <1>6, <1>10, SMTT(30)
<1>13. KeptInv'
  BY <1>2, <1>3, Zenon DEF KeptInv
<1> QED BY <1>9, <1>11, <1>12, <1>13, Zenon DEF DInv

(* What the write path leaves durable at each point. *)
LEMMA PathPoint ==
    ASSUME SInv, SInv', NEW t \in Thread, WriteStep(t), th[t].pc # "index",
           th'[t].pc \in Dirtying /\ th[t].rec \in OneLine => busy' = busy /\ phdr' = phdr,
           th'[t].pc # "invalidate"
    PROVE  PathStep(t)
<1> DEFINE r == th[t].rec
<1>1. /\ th[t].pc \in Filling \ {"index"} /\ th'[t].pc \in Filling /\ th'[t].rec = r
      /\ th'[t].key = th[t].key /\ th'[t].ver = th[t].ver
      /\ \A u \in Thread \ {t} : th'[u] = th[u]
  BY Zenon DEF WriteStep
<1>2. /\ index' = index /\ version' = version /\ acked' = acked
      /\ recovered' = recovered /\ mode' = mode /\ todo' = todo
  BY Zenon DEF WriteStep, volatile, ghosts
<1>3. \A s \in Record \ {r} :
         hdr'[s] = hdr[s] /\ body'[s] = body[s] /\ phdr'[s] = phdr[s] /\ (s \in busy' <=> s \in busy)
  BY Zenon DEF WriteStep
<1>4. \/ r \notin Surviving'
      \/ r \in Surviving /\ phdr'[r] = phdr[r]
      \/ th'[t].pc = "index" /\ phdr'[r].key = th[t].key /\ phdr'[r].ver = th[t].ver
  <2>1. CASE th'[t].pc = "index"
    <3>1. phdr'[r] = hdr'[r]
      BY <2>1, Zenon DEF WriteStep, Clean, Dirtying
    <3>2. Content(hdr'[r], body'[r]) = Intent(th'[t])
      BY <2>1, <1>1, Zenon DEF WriteStep, Agreeing
    <3>3. hdr'[r].key = th'[t].key /\ hdr'[r].ver = th'[t].ver
      BY <3>2, Zenon DEF Content, Intent
    <3> QED BY <2>1, <3>1, <3>3, <1>1, Zenon
  <2>2. CASE th'[t].pc \in {"write", "publish"}
    BY <2>2, SurviveFact, Zenon DEF WriteStep
  <2>3. CASE th'[t].pc \in Dirtying
    <3>1. r \notin OneLine => phdr'[r].inv
      BY <2>3, <1>1, Zenon DEF WriteStep, Agreeing
    <3> QED BY <2>3, <3>1, SurviveFact, Zenon
  <2> QED BY <2>1, <2>2, <2>3, <1>1, Zenon DEF Filling, Writing, Dirtying
<1> QED BY <1>1, <1>2, <1>3, <1>4, Zenon DEF PathStep

(* Every step of a call on the way to the index is such a step. *)
LEMMA PathDurable ==
    ASSUME SInv, DInv, NEW t \in Thread,
           \/ WriteNew(t) \/ Publish(t) \/ Invalidate(t) \/ Rewrite(t) \/ FlushRecord(t)
           \/ SetControl(t)
    PROVE  DInv'
<1>1. WriteStep(t) /\ SInv'
  BY WriteNewStep, PublishStep, InvalidateStep, RewriteStep, FlushRecordStep, SetControlStep,
     ZenonT(30)
<1>2. th[t].pc # "index"
  BY Zenon DEF WriteNew, Publish, Invalidate, Rewrite, FlushRecord, SetControl, Step
<1>3. /\ th'[t].pc # "invalidate"
      /\ th'[t].pc \in Dirtying /\ th[t].rec \in OneLine => busy' = busy /\ phdr' = phdr
  <2>1. th \in [Thread -> Call]
    BY Zenon DEF SInv, TypeOK
  <2>2. CASE WriteNew(t) \/ Publish(t) \/ SetControl(t)
    <3>1. th'[t].pc \in {"publish", "index"}
      BY <2>1, <2>2 DEF WriteNew, Publish, SetControl, Step, Call
    <3> QED BY <3>1, ZenonT(30) DEF Dirtying
  <2>3. CASE Invalidate(t)
    <3>1. th'[t].pc = "rewrite"
      BY <2>1, <2>3, Zenon DEF Invalidate, Step, Call
    <3> QED BY <3>1, <2>3, Zenon DEF Invalidate, Step
  <2>4. CASE Rewrite(t)
    <3>1. th'[t].pc \in {"control", "flush"}
      BY <2>1, <2>4, Zenon DEF Rewrite, Step, Call
    <3> QED BY <3>1, <2>4, Zenon DEF Rewrite, Step
  <2>5. CASE FlushRecord(t)
    <3>1. th'[t].pc = "control" /\ th[t].pc = "flush"
      BY <2>1, <2>5, Zenon DEF FlushRecord, Step, Call
    <3>2. th[t].rec \notin OneLine
      BY <3>1, ZenonT(30) DEF SInv, Agreeing
    <3> QED BY <3>1, <3>2, Zenon
  <2> QED BY <2>2, <2>3, <2>4, <2>5, ZenonT(30)
<1>4. busy' \subseteq Record
  BY <1>1, Zenon DEF SInv, TypeOK
<1> QED BY <1>1, <1>2, <1>3, <1>4, PathPoint, Path, ZenonT(30)
-----------------------------------------------------------------------------
(***************************************************************************)
(* The version that a call fetches.                                        *)
(***************************************************************************)

(* The hypotheses on clients: update and remove are called on keys that    *)
(* are there, and after a recovery a key is written only with a version    *)
(* above the one that was acknowledged.                                    *)
Clients == MissingKeys \subseteq {"upsert"} /\ LateWrites # "any"

(* A call that is about to fetch the version of key k gets one above those *)
(* of all the writes to k that returned.                                   *)
LEMMA VersionNew ==
    ASSUME SInv, DInv, Clients, mode = "open", NEW k \in Key, MayWrite(k)
    PROVE  \A a \in acked[k] : a.ver < version[SlotOf[k]]
<1>1. CASE ~recovered
  BY <1>1, Zenon DEF DInv, ShownInv
<1>2. CASE recovered
  BY <1>2, Zenon DEF MayWrite, Clients
<1> QED BY <1>1, <1>2, Zenon

(* It is above the version of every record of k that a crash would leave. *)
LEMMA VersionNewest ==
    ASSUME SInv, DInv, Clients, mode = "open", NEW k \in Key, MayWrite(k),
           NEW r \in Surviving, phdr[r].key = k
    PROVE  phdr[r].ver < version[SlotOf[k]]
<1>0. phdr[r].ver \in Nat /\ version[SlotOf[k]] \in Nat
  BY SurvivorFact, Zenon DEF SInv, TypeOK, Slot
<1>1. CASE r \in Fresh
  <2>1. PICK t \in Thread : th[t].pc = "index" /\ th[t].rec = r
    BY <1>1, FreshFact, Zenon
  <2>2. phdr[r].ver = th[t].ver /\ k = th[t].key /\ th[t].ver < version[SlotOf[th[t].key]]
    BY <2>1, FreshKnown, Zenon
  <2> QED BY <2>2, Zenon
<1>2. CASE \E i \in index[k] : i = r \/ hdr[i].ver > phdr[r].ver
  <2>1. PICK i \in index[k] : i = r \/ hdr[i].ver > phdr[r].ver
    BY <1>2, Zenon
  <2>2. phdr[i] = hdr[i] /\ hdr[i].ver \in Nat
    BY IndexedKnown, SMTT(30)
  <2>3. Content(hdr[i], body[i]) \in acked[k]
    BY DEF DInv, ShownInv
  <2>4. hdr[i].ver < version[SlotOf[k]]
    BY <2>3, VersionNew, Zenon DEF Content
  <2> QED BY <1>0, <2>1, <2>2, <2>4, SMTT(30)
<1>3. r \notin Unscanned
  BY Zenon DEF Unscanned
<1> QED BY <1>1, <1>2, <1>3, Zenon DEF DInv, NewestInv

(* The fetched version is new among all writes to the key. *)
LEMMA BeginDurable ==
    ASSUME SInv, DInv, Clients, NEW t \in Thread, NEW o \in Ops, NEW k \in Key, Begin(t, o, k)
    PROVE  DInv'
<1> DEFINE n == version[SlotOf[k]]
<1>1. /\ hdr' = hdr /\ body' = body /\ phdr' = phdr /\ busy' = busy /\ index' = index
      /\ mode' = mode /\ todo' = todo /\ acked' = acked /\ recovered' = recovered
      /\ mode = "open" /\ th[t].pc = "idle" /\ MayWrite(k)
      /\ version' = [version EXCEPT ![SlotOf[k]] = @ + 1]
  BY Zenon DEF Begin, Running, lines
<1>2. /\ th'[t].pc = "acquire" /\ th'[t].key = k /\ th'[t].ver = n
      /\ \A u \in Thread \ {t} : th'[u] = th[u]
  <2>1. th' = [th EXCEPT ![t] = [pc |-> "acquire", op |-> o, key |-> k, ver |-> n,
                                 val |-> IF o = "remove" THEN 0 ELSE Cardinality(issued) + 1,
                                 rec |-> None]]
    BY Zenon DEF Begin
  <2>2. th \in [Thread -> Call]
    BY ZenonT(30) DEF SInv, TypeOK
  <2> QED BY <2>1, <2>2, Zenon
<1>3. /\ n \in Nat /\ version' \in [Slot -> Nat] /\ \A l \in Key : version'[SlotOf[l]] \in Nat
      /\ \A l \in Key : version[SlotOf[l]] \in Nat /\ version[SlotOf[l]] <= version'[SlotOf[l]]
  BY <1>1 DEF SInv, TypeOK, Slot
<1> HIDE DEF n
<1>4. \A r : r \in Surviving' <=> r \in Surviving
  BY <1>1, SurviveFact, Zenon
<1>5. \A r \in Surviving : phdr[r].key = k => phdr[r].ver < n
  BY <1>1, VersionNewest, Zenon DEF n
<1>6. \A u \in Thread : th[u].pc \in Writing /\ th[u].key = k => th[u].ver < n
  BY Zenon DEF SInv, VerInv, n
<1>7. /\ \A u \in Thread : th'[u].pc = "index" <=> th[u].pc = "index"
      /\ \A u \in Thread : th'[u].pc \in Writing => u = t \/ (th[u].pc \in Writing /\ th'[u] = th[u])
  BY <1>1, <1>2, Zenon DEF Writing
<1>8. \A u \in Thread : th[u].ver \in Nat
  BY Zenon DEF SInv, TypeOK, Call
<1>9. UniqueInv'
  <2>1. ASSUME NEW u \in Thread, NEW v \in Thread, th'[u].pc \in Writing, th'[v].pc \in Writing,
               th'[u].key = th'[v].key, th'[u].ver = th'[v].ver
        PROVE  u = v
    <3>1. CASE u # t /\ v # t
      BY <3>1, <2>1, <1>7, Zenon DEF DInv, UniqueInv
    <3>2. CASE u = t \/ v = t
      <4>1. \A x \in Thread : th[x].pc \in Writing /\ th[x].key = k => th[x].ver # n
        BY <1>3, <1>6, <1>8, Order, ZenonT(30)
      <4> QED BY <4>1, <3>2, <2>1, <1>2, <1>7, ZenonT(30)
    <3> QED BY <3>1, <3>2, Zenon
  <2>2. ASSUME NEW a \in Surviving', NEW b \in Surviving', phdr'[a].key = phdr'[b].key,
               phdr'[a].ver = phdr'[b].ver
        PROVE  a = b
    BY <2>2, <1>1, <1>4, Zenon DEF DInv, UniqueInv
  <2>3. ASSUME NEW u \in Thread, NEW s \in Surviving', th'[u].pc \in Writing,
               phdr'[s].key = th'[u].key, phdr'[s].ver = th'[u].ver
        PROVE  th'[u].pc = "index" /\ s = th'[u].rec
    <3>1. CASE u = t
      <4>1. s \in Surviving /\ phdr[s].key = k /\ phdr[s].ver = n
        BY <3>1, <2>3, <1>1, <1>2, <1>4, ZenonT(30)
      <4> QED BY <4>1, <1>3, <1>5
    <3>2. CASE u # t
      <4>1. th'[u] = th[u] /\ s \in Surviving /\ phdr'[s] = phdr[s]
        BY <3>2, <1>1, <1>2, <1>4, Zenon
      <4> QED BY <4>1, <2>3 DEF DInv, UniqueInv
    <3> QED BY <3>1, <3>2, Zenon
  <2> QED BY <2>1, <2>2, <2>3, Zenon DEF UniqueInv
<1>10. NewestInv'
  <2>1. \A r : r \in Fresh => r \in Fresh'
    BY <1>1, <1>2, FreshFact
  <2>2. Unscanned' = Unscanned
    BY <1>1, Zenon DEF Unscanned
  <2> QED BY <2>1, <2>2, <1>1, <1>4, ZenonT(30) DEF DInv, NewestInv
<1>11. ShownInv'
  <2> SUFFICES ASSUME NEW l \in Key
               PROVE  /\ \A i \in index'[l] : acked'[l] = {Content(hdr'[i], body'[i])}
                      /\ index'[l] = {} => \A a \in acked'[l] :
                           /\ a.tomb
                           /\ \A u \in Thread :
                                 th'[u].pc \in Writing /\ th'[u].key = l => th'[u].ver > a.ver
                      /\ ~recovered' => \A a \in acked'[l] : a.ver < version'[SlotOf[l]]
    BY Zenon DEF ShownInv
  <2>1. /\ \A i \in index[l] : acked[l] = {Content(hdr[i], body[i])}
        /\ index[l] = {} => \A a \in acked[l] :
             /\ a.tomb
             /\ \A u \in Thread : th[u].pc \in Writing /\ th[u].key = l => th[u].ver > a.ver
        /\ ~recovered => \A a \in acked[l] : a.ver < version[SlotOf[l]]
    BY <1>1, Zenon DEF DInv, ShownInv
  <2>2. \A a \in acked[l] : a.ver \in Nat
    BY DEF SInv, TypeOK, Write
  <2>3. \A a \in acked[k] : a.ver < n
    BY <1>1, VersionNew, Zenon DEF n
  <2>4. ASSUME index[l] = {}, NEW a \in acked[l], NEW u \in Thread, th'[u].pc \in Writing,
               th'[u].key = l
        PROVE  th'[u].ver > a.ver
    <3>1. CASE u = t
      BY <3>1, <2>2, <2>3, <2>4, <1>2, <1>3, ZenonT(30)
    <3>2. CASE u # t
      BY <3>2, <2>1, <2>4, <1>2, <1>7, ZenonT(30)
    <3> QED BY <3>1, <3>2, Zenon
  <2>5. ~recovered => \A a \in acked[l] : a.ver < version'[SlotOf[l]]
    BY <2>1, <2>2, <1>3
  <2> QED BY <2>1, <2>4, <2>5, <1>1, Zenon
<1>12. KeptInv'
  BY <1>1, Zenon DEF KeptInv
<1> QED BY <1>9, <1>10, <1>11, <1>12, Zenon DEF DInv

(* Taking a record changes nothing that a crash would leave. *)
LEMMA AcquireDurable ==
    ASSUME SInv, DInv, NEW t \in Thread, Acquire(t)
    PROVE  DInv'
<1>1. /\ hdr' = hdr /\ body' = body /\ phdr' = phdr /\ busy' = busy /\ index' = index
      /\ mode' = mode /\ todo' = todo /\ acked' = acked /\ recovered' = recovered
      /\ version' = version /\ mode = "open" /\ th[t].pc = "acquire"
  BY Zenon DEF Acquire, Running, lines, ghosts
<1>2. /\ th'[t].pc \in {"write", "invalidate"} /\ th'[t].key = th[t].key
      /\ th'[t].ver = th[t].ver /\ \A u \in Thread \ {t} : th'[u] = th[u]
  <2>1. PICK a \in Acquired(t) : th' = [th EXCEPT ![t].pc = a.pc, ![t].rec = a.rec]
    BY Zenon DEF Acquire
  <2>2. a.pc \in {"write", "invalidate"}
    BY DEF Acquired
  <2>3. th \in [Thread -> Call]
    BY ZenonT(30) DEF SInv, TypeOK
  <2> QED BY <2>1, <2>2, <2>3 DEF Call
<1>3. \A u \in Thread : /\ th'[u].key = th[u].key /\ th'[u].ver = th[u].ver
                        /\ th'[u].pc \in Writing => th[u].pc \in Writing
                        /\ th[u].pc = "index" => th'[u] = th[u]
  BY <1>1, <1>2, ZenonT(30) DEF Writing
<1>4. \A r : r \in Surviving' <=> r \in Surviving
  BY <1>1, SurviveFact, Zenon
<1>5. UniqueInv'
  <2>1. ASSUME NEW u \in Thread, NEW v \in Thread, th'[u].pc \in Writing, th'[v].pc \in Writing,
               th'[u].key = th'[v].key, th'[u].ver = th'[v].ver
        PROVE  u = v
    BY <2>1, <1>3, ZenonT(30) DEF DInv, UniqueInv
  <2>2. ASSUME NEW a \in Surviving', NEW b \in Surviving', phdr'[a].key = phdr'[b].key,
               phdr'[a].ver = phdr'[b].ver
        PROVE  a = b
    BY <2>2, <1>1, <1>4, Zenon DEF DInv, UniqueInv
  <2>3. ASSUME NEW u \in Thread, NEW s \in Surviving', th'[u].pc \in Writing,
               phdr'[s].key = th'[u].key, phdr'[s].ver = th'[u].ver
        PROVE  th'[u].pc = "index" /\ s = th'[u].rec
    <3>1. /\ th[u].pc \in Writing /\ s \in Surviving
          /\ phdr[s].key = th[u].key /\ phdr[s].ver = th[u].ver
      BY <2>3, <1>1, <1>3, <1>4, ZenonT(30)
    <3>2. th[u].pc = "index" /\ s = th[u].rec
      BY <3>1, Zenon DEF DInv, UniqueInv
    <3> QED BY <3>2, <1>3, Zenon
  <2> QED BY <2>1, <2>2, <2>3, Zenon DEF UniqueInv
<1>6. NewestInv'
  <2>1. \A r : r \in Fresh => r \in Fresh'
    <3>1. ASSUME NEW r \in Fresh PROVE r \in Fresh'
      <4>1. PICK u \in Thread : th[u].pc = "index" /\ th[u].rec = r
        BY FreshFact, Zenon
      <4>2. th'[u].pc = "index" /\ th'[u].rec = r
        BY <4>1, <1>3, Zenon
      <4> QED BY <4>2, FreshFact, Zenon
    <3> QED BY <3>1, Zenon
  <2>2. Unscanned' = Unscanned
    BY <1>1, Zenon DEF Unscanned
  <2> QED BY <2>1, <2>2, <1>1, <1>4, ZenonT(30) DEF DInv, NewestInv
<1>7. ShownInv'
  <2> SUFFICES ASSUME NEW k \in Key
               PROVE  /\ \A i \in index'[k] : acked'[k] = {Content(hdr'[i], body'[i])}
                      /\ index'[k] = {} => \A a \in acked'[k] :
                           /\ a.tomb
                           /\ \A u \in Thread : th'[u].pc \in Writing /\ th'[u].key = k =>
                                                  th'[u].ver > a.ver
                      /\ ~recovered' => \A a \in acked'[k] : a.ver < version'[SlotOf[k]]
    BY <1>1, Zenon DEF ShownInv
  <2>1. /\ \A i \in index[k] : acked[k] = {Content(hdr[i], body[i])}
        /\ index[k] = {} => \A a \in acked[k] :
             /\ a.tomb
             /\ \A u \in Thread : th[u].pc \in Writing /\ th[u].key = k => th[u].ver > a.ver
        /\ ~recovered => \A a \in acked[k] : a.ver < version[SlotOf[k]]
    BY <1>1, Zenon DEF DInv, ShownInv
  <2>2. \A u \in Thread : th'[u].pc \in Writing /\ th'[u].key = k =>
                          th[u].pc \in Writing /\ th[u].key = k /\ th'[u].ver = th[u].ver
    BY <1>3, Zenon
  <2> QED BY <2>1, <2>2, <1>1, Zenon
<1>8. KeptInv'
  BY <1>1, Zenon DEF KeptInv
<1> QED BY <1>5, <1>6, <1>7, <1>8, Zenon DEF DInv
-----------------------------------------------------------------------------
(***************************************************************************)
(* The index operation.                                                    *)
(***************************************************************************)

(* A call that returns leaves what a crash would leave.  Its record is no  *)
(* longer fresh.                                                           *)
LEMMA ReturnDurable ==
    ASSUME SInv, DInv, NEW t \in Thread, Return(t), busy' = busy
    PROVE  /\ UniqueInv' /\ KeptInv' /\ mode = "open" /\ th[t].pc = "index"
           /\ hdr' = hdr /\ body' = body /\ phdr' = phdr /\ version' = version
           /\ mode' = mode /\ recovered' = recovered
           /\ \A r : r \in Surviving' <=> r \in Surviving
           /\ \A r : r \in Fresh => r = th[t].rec \/ r \in Fresh'
           /\ \A u \in Thread : th'[u].pc \in Writing => u # t /\ th'[u] = th[u]
<1>1. /\ th[t].pc = "index" /\ th' = [th EXCEPT ![t] = IdleCall] /\ mode = "open"
      /\ hdr' = hdr /\ body' = body /\ phdr' = phdr /\ version' = version
      /\ mode' = mode /\ recovered' = recovered
  BY Zenon DEF Return, Running, lines
<1>2. th'[t] = IdleCall /\ \A u \in Thread \ {t} : th'[u] = th[u]
  BY <1>1, Zenon DEF SInv, TypeOK
<1>3. \A u \in Thread : th'[u].pc \in Writing => u # t /\ th'[u] = th[u]
  BY <1>2, IdleFact, Zenon DEF Holding, Filling
<1>4. \A r : r \in Surviving' <=> r \in Surviving
  BY <1>1, SurviveFact, Zenon
<1>5. \A r : r \in Fresh => r = th[t].rec \/ r \in Fresh'
  BY <1>2, FreshFact, ZenonT(30)
<1>6. UniqueInv'
  BY <1>1, <1>3, <1>4 DEF DInv, UniqueInv
<1>7. KeptInv'
  BY <1>1, Zenon DEF KeptInv
<1> QED BY <1>1, <1>3, <1>4, <1>5, <1>6, <1>7, ZenonT(30)

(* The record that the index shows for key k is replaced by r, or there    *)
(* was none, and r is acknowledged.                                        *)
LEMMA ShownNew ==
    ASSUME SInv, DInv, NEW t \in Thread, Return(t), busy' = busy,
           \A i \in index[th[t].key] : hdr[i].ver < th[t].ver,
           index' = [index EXCEPT ![th[t].key] = {th[t].rec}],
           acked' = Acknowledged(Intent(th[t]))
    PROVE  DInv'
<1> DEFINE c == th[t]
           r == th[t].rec
<1>1. /\ UniqueInv' /\ KeptInv' /\ mode = "open" /\ c.pc = "index"
      /\ hdr' = hdr /\ body' = body /\ phdr' = phdr /\ version' = version
      /\ mode' = mode /\ recovered' = recovered
      /\ \A s : s \in Surviving' <=> s \in Surviving
      /\ \A s : s \in Fresh => s = r \/ s \in Fresh'
      /\ \A u \in Thread : th'[u].pc \in Writing => u # t /\ th'[u] = th[u]
  BY ReturnDurable, Zenon
<1>2. /\ r \in Record /\ r \in Surviving /\ phdr[r] = hdr[r] /\ hdr[r].key = c.key
      /\ hdr[r].ver = c.ver /\ Content(hdr[r], body[r]) = Intent(c) /\ c.key \in Key
      /\ c.ver \in Nat /\ c.ver < version[SlotOf[c.key]]
  BY <1>1, FreshKnown, Zenon
<1>3. index'[c.key] = {r} /\ \A l \in Key : l # c.key => index'[l] = index[l]
  BY <1>2, Zenon DEF SInv, TypeOK
<1>4. \A a \in acked[c.key] : a.ver < c.ver
  <2>1. CASE index[c.key] = {}
    <3>1. \A a \in acked[c.key] : c.ver > a.ver
      BY <2>1, <1>1, <1>2, ZenonT(30) DEF DInv, ShownInv, Writing
    <3>2. \A a \in acked[c.key] : a.ver \in Nat
      BY <1>2 DEF SInv, TypeOK, Write
    <3> QED BY <3>1, <3>2, <1>2, Zenon
  <2>2. CASE index[c.key] # {}
    <3>1. PICK i \in index[c.key] : hdr[i].ver < c.ver
      BY <2>2, Zenon
    <3>2. acked[c.key] = {Content(hdr[i], body[i])}
      BY <1>1, <1>2, Zenon DEF DInv, ShownInv
    <3>3. Content(hdr[i], body[i]).ver = hdr[i].ver
      BY Zenon DEF Content
    <3> QED BY <3>1, <3>2, <3>3, Zenon
  <2> QED BY <2>1, <2>2, Zenon
<1>5. acked'[c.key] = {Intent(c)} /\ \A l \in Key : l # c.key => acked'[l] = acked[l]
  <2>1. Intent(c).key = c.key /\ Intent(c).ver = c.ver
    BY Zenon DEF Intent
  <2>2. \A a \in acked[c.key] : ~(a.ver > c.ver)
    <3>1. \A a \in acked[c.key] : a.ver \in Nat
      BY <1>2 DEF SInv, TypeOK, Write
    <3> QED BY <3>1, <1>2, <1>4, Order, ZenonT(30)
  <2>3. acked' = [acked EXCEPT ![c.key] = {Intent(c)}]
    BY <2>1, <2>2, Zenon DEF Acknowledged
  <2> QED BY <2>3, <1>2, ZenonT(30) DEF SInv, TypeOK
<1>6. NewestInv'
  <2> SUFFICES ASSUME NEW s \in Surviving
               PROVE  \/ s \in Fresh'
                      \/ \E i \in index'[phdr[s].key] : i = s \/ hdr[i].ver > phdr[s].ver
    BY <1>1, Zenon DEF NewestInv
  <2>1. phdr[s].key \in Key /\ phdr[s].ver \in Nat
    BY SurvivorFact, Zenon
  <2>2. CASE s = r
    BY <2>2, <1>2, <1>3, ZenonT(30)
  <2>3. CASE s \in Fresh /\ s # r
    BY <2>3, <1>1, Zenon
  <2>4. CASE \E i \in index[phdr[s].key] : i = s \/ hdr[i].ver > phdr[s].ver
    <3>1. PICK i \in index[phdr[s].key] : i = s \/ hdr[i].ver > phdr[s].ver
      BY <2>4, Zenon
    <3>2. CASE phdr[s].key # c.key
      BY <3>1, <3>2, <2>1, <1>3, Zenon
    <3>3. CASE phdr[s].key = c.key
      <4>1. phdr[i] = hdr[i] /\ hdr[i].ver \in Nat /\ hdr[i].ver < c.ver
        BY <3>1, <3>3, <1>2, IndexedKnown, ZenonT(30)
      <4>2. hdr[r].ver > phdr[s].ver
        <5>1. c.ver > hdr[i].ver /\ hdr[r].ver = c.ver /\ c.ver \in Nat
          BY <4>1, <1>2, Order, Zenon
        <5>2. CASE i = s
          BY <5>1, <5>2, <4>1, Zenon
        <5>3. CASE hdr[i].ver > phdr[s].ver
          <6>1. c.ver > phdr[s].ver
            BY <5>1, <5>3, <4>1, <2>1
          <6> QED BY <6>1, <5>1, Zenon
        <5> QED BY <5>2, <5>3, <3>1, Zenon
      <4> QED BY <4>2, <3>3, <1>3, Zenon
    <3> QED BY <3>2, <3>3, Zenon
  <2>5. s \notin Unscanned
    BY <1>1, Zenon DEF Unscanned
  <2> QED BY <2>2, <2>3, <2>4, <2>5, Zenon DEF DInv, NewestInv
<1>7. ShownInv'
  <2> SUFFICES ASSUME NEW l \in Key
               PROVE  /\ \A i \in index'[l] : acked'[l] = {Content(hdr'[i], body'[i])}
                      /\ index'[l] = {} => \A a \in acked'[l] :
                           /\ a.tomb
                           /\ \A u \in Thread :
                                 th'[u].pc \in Writing /\ th'[u].key = l => th'[u].ver > a.ver
                      /\ ~recovered' => \A a \in acked'[l] : a.ver < version'[SlotOf[l]]
    BY Zenon DEF ShownInv
  <2>1. CASE l = c.key
    <3>1. Intent(c).ver = c.ver
      BY Zenon DEF Intent
    <3>2. index'[l] = {r} /\ acked'[l] = {Intent(c)}
      BY <2>1, <1>3, <1>5, Zenon
    <3>3. Content(hdr'[r], body'[r]) = Intent(c)
      BY <1>1, <1>2, Zenon
    <3>4. c.ver < version'[SlotOf[l]]
      BY <2>1, <1>1, <1>2, Zenon
    <3> QED BY <3>1, <3>2, <3>3, <3>4, Zenon
  <2>2. CASE l # c.key
    <3>1. /\ \A i \in index[l] : acked[l] = {Content(hdr[i], body[i])}
          /\ index[l] = {} => \A a \in acked[l] :
               /\ a.tomb
               /\ \A u \in Thread : th[u].pc \in Writing /\ th[u].key = l => th[u].ver > a.ver
          /\ ~recovered => \A a \in acked[l] : a.ver < version[SlotOf[l]]
      BY <1>1, Zenon DEF DInv, ShownInv
    <3>2. index'[l] = index[l] /\ acked'[l] = acked[l]
      BY <2>2, <1>3, <1>5, Zenon
    <3> QED BY <3>1, <3>2, <1>1, Zenon
  <2> QED BY <2>1, <2>2, Zenon
<1> QED BY <1>1, <1>6, <1>7, Zenon DEF DInv

(* A call on a key without a record is an upsert, whose record is new. *)
LEMMA InsertDurable ==
    ASSUME SInv, DInv, Clients, NEW t \in Thread, Insert(t) \/ UpdateMissing(t)
    PROVE  DInv'
<1> DEFINE c == th[t]
<1>1. /\ Return(t) /\ Found(c.key) = {} /\ c.pc = "index"
  BY Zenon DEF Insert, UpdateMissing, Return
<1>2. c.key \in Key /\ c.rec \in Record /\ c.op \in {"upsert", "update", "remove"}
  BY <1>1, CallKnown, Zenon DEF Filling, Writing
<1>3. index[c.key] = {}
  BY <1>1, <1>2, ZenonT(30) DEF SInv, IndexInv, Found
<1>4. c.op = "upsert"
  <2>1. c.op \in {"update", "remove"} \ MissingKeys => index[c.key] # {}
    BY <1>1, CallKnown, Zenon DEF Filling, Writing
  <2> QED BY <2>1, <1>2, <1>3, Zenon DEF Clients
<1>5. /\ index' = [index EXCEPT ![c.key] = @ \union {c.rec}]
      /\ acked' = Acknowledged(Intent(c)) /\ busy' = busy
  BY <1>4, Zenon DEF Insert, UpdateMissing
<1>6. index' = [index EXCEPT ![c.key] = {c.rec}]
  BY <1>2, <1>3, <1>5, ZenonT(30) DEF SInv, TypeOK
<1>7. \A i \in index[c.key] : hdr[i].ver < c.ver
  BY <1>3, Zenon
<1> QED BY <1>1, <1>5, <1>6, <1>7, ShownNew, Zenon

(* The old record of the key is older. *)
LEMMA ReplaceDurable ==
    ASSUME SInv, DInv, NEW t \in Thread, Replace(t)
    PROVE  DInv'
<1> DEFINE c == th[t]
<1>1. /\ Return(t) /\ c.pc = "index" /\ busy' = busy /\ acked' = Acknowledged(Intent(c))
  BY Zenon DEF Replace, Return
<1>2. PICK old \in Found(c.key) :
         /\ hdr[old].ver < hdr[c.rec].ver
         /\ index' = [index EXCEPT ![c.key] = (@ \ {old}) \union {c.rec}]
  BY Zenon DEF Replace
<1>3. c.key \in Key /\ hdr[c.rec].ver = c.ver
  BY <1>1, FreshKnown, Zenon
<1>4. old \in index[c.key] /\ \A i \in index[c.key] : i = old
  BY <1>3 DEF SInv, IndexInv, Found
<1>5. index' = [index EXCEPT ![c.key] = {c.rec}]
  <2>1. (index[c.key] \ {old}) \union {c.rec} = {c.rec}
    BY <1>4, Zenon
  <2> QED BY <2>1, <1>2, Zenon
<1>6. \A i \in index[c.key] : hdr[i].ver < c.ver
  BY <1>2, <1>3, <1>4, Zenon
<1> QED BY <1>1, <1>5, <1>6, ShownNew, Zenon

(* The record that the index has is newer: no two writes to a key have a   *)
(* version in common, so an expired write was overtaken.                   *)
LEMMA ExpireDurable ==
    ASSUME SInv, DInv, NEW t \in Thread, Expire(t)
    PROVE  DInv'
<1> DEFINE c == th[t]
           r == th[t].rec
<1>1. /\ Return(t) /\ busy' = busy /\ acked' = Acknowledged(Intent(c)) /\ index' = index
  BY Zenon DEF Expire
<1>2. /\ UniqueInv' /\ KeptInv' /\ mode = "open" /\ c.pc = "index"
      /\ hdr' = hdr /\ body' = body /\ phdr' = phdr /\ version' = version
      /\ mode' = mode /\ recovered' = recovered
      /\ \A s : s \in Surviving' <=> s \in Surviving
      /\ \A s : s \in Fresh => s = r \/ s \in Fresh'
      /\ \A u \in Thread : th'[u].pc \in Writing => u # t /\ th'[u] = th[u]
  BY <1>1, ReturnDurable, Zenon
<1>3. /\ r \in Record /\ r \in Surviving /\ phdr[r] = hdr[r] /\ hdr[r].key = c.key
      /\ hdr[r].ver = c.ver /\ c.key \in Key /\ c.ver \in Nat /\ r \notin Indexed
  BY <1>2, FreshKnown, Zenon
<1>4. PICK old \in Found(c.key) : hdr[old].ver >= hdr[r].ver
  BY Zenon DEF Expire
<1>5. /\ old \in index[c.key] /\ old \in Surviving /\ phdr[old] = hdr[old] /\ old \in Indexed
      /\ hdr[old].key = c.key /\ hdr[old].ver \in Nat
  <2>1. old \in index[c.key]
    BY Zenon DEF Found
  <2> QED BY <2>1, <1>3, IndexedKnown, ZenonT(30)
<1>6. hdr[old].ver > c.ver
  <2>1. old # r
    BY <1>3, <1>5, Zenon
  <2>2. hdr[old].ver # hdr[r].ver
    BY <2>1, <1>3, <1>5 DEF DInv, UniqueInv
  <2> QED BY <2>2, <1>3, <1>4, <1>5, SMTT(30)
<1>7. acked' = acked
  <2>1. Content(hdr[old], body[old]) \in acked[c.key]
    BY <1>2, <1>3, <1>5, ZenonT(30) DEF DInv, ShownInv
  <2>2. Content(hdr[old], body[old]).ver > Intent(c).ver /\ Intent(c).key = c.key
    BY <1>6, Zenon DEF Content, Intent
  <2> QED BY <2>1, <2>2, <1>1, ZenonT(30) DEF Acknowledged
<1>8. NewestInv'
  <2>1. ASSUME NEW s \in Surviving
        PROVE  \/ s \in Fresh'
               \/ \E i \in index[phdr[s].key] : i = s \/ hdr[i].ver > phdr[s].ver
    <3>1. CASE s = r
      BY <3>1, <1>3, <1>5, <1>6, Zenon
    <3>2. CASE s # r
      <4>1. s \notin Unscanned
        BY <1>2, ZenonT(30) DEF Unscanned
      <4> QED BY <4>1, <3>2, <1>2, Zenon DEF DInv, NewestInv
    <3> QED BY <3>1, <3>2, Zenon
  <2> QED BY <2>1, <1>1, <1>2, Zenon DEF NewestInv
<1>9. ShownInv'
  BY <1>1, <1>2, <1>7 DEF DInv, ShownInv
<1> QED BY <1>2, <1>8, <1>9, Zenon DEF DInv
-----------------------------------------------------------------------------
(***************************************************************************)
(* What the invariants say of the properties.                              *)
(***************************************************************************)

(* A write that returned would survive a crash: its record is indexed and  *)
(* clean, or it is one of those that recovery has still to scan.           *)
LEMMA Survives == SInv /\ DInv => AckedDurable
<1> SUFFICES ASSUME SInv, DInv, NEW k \in Key, NEW a \in acked[k]
             PROVE  \/ \E r \in Survivor(k) : phdr[r].ver > a.ver \/ Durable(r) = a
                    \/ a.tomb /\ Survivor(k) = {}
  BY Zenon DEF AckedDurable
<1>1. \A r : r \in Survivor(k) <=> r \in Surviving /\ phdr[r].key = k
  BY Zenon DEF Survivor
<1>2. CASE mode # "recover" /\ index[k] # {}
  <2>1. PICK i \in index[k] : TRUE
    BY <1>2, ZenonT(30)
  <2>2. a = Content(hdr[i], body[i])
    BY <1>2 DEF DInv, ShownInv
  <2>3. /\ i \in Surviving /\ phdr[i] = hdr[i] /\ pbody[i] = body[i] /\ hdr[i].key = k
    BY IndexedKnown, ZenonT(30)
  <2> QED BY <2>2, <2>3, <1>1, Zenon DEF Durable
<1>3. CASE mode # "recover" /\ index[k] = {}
  <2>1. /\ a.tomb
        /\ \A t \in Thread : th[t].pc \in Writing /\ th[t].key = k => th[t].ver > a.ver
    BY <1>3, Zenon DEF DInv, ShownInv
  <2>2. ASSUME NEW r \in Survivor(k) PROVE phdr[r].ver > a.ver
    <3>1. r \in Surviving /\ phdr[r].key = k
      BY <1>1, Zenon
    <3>2. r \in Fresh
      BY <3>1, <1>3, Zenon DEF DInv, NewestInv, Unscanned
    <3>3. PICK t \in Thread : th[t].pc = "index" /\ th[t].rec = r
      BY <3>2, FreshFact, Zenon
    <3>4. phdr[r].ver = th[t].ver /\ phdr[r].key = th[t].key /\ th[t].pc \in Writing
      BY <3>3, FreshKnown, Zenon DEF Writing
    <3> QED BY <3>1, <3>4, <2>1, Zenon
  <2> QED BY <2>1, <2>2, Zenon
<1>4. CASE mode = "recover"
  <2>1. CASE \E r \in index[k] \union todo :
               /\ ~hdr[r].inv /\ hdr[r].key = k
               /\ (hdr[r].ver > a.ver \/ Content(hdr[r], body[r]) = a)
    <3>1. PICK r \in index[k] \union todo :
             /\ ~hdr[r].inv /\ hdr[r].key = k
             /\ (hdr[r].ver > a.ver \/ Content(hdr[r], body[r]) = a)
      BY <2>1, ZenonT(30)
    <3>2. r \in Record /\ r \in busy
      BY <1>4, IndexedFact, ZenonT(30) DEF SInv, TypeOK, ApartInv, Unscanned
    <3>3. phdr[r] = hdr[r] /\ pbody[r] = body[r]
      <4>1. \A u \in Thread : th[u].pc \notin Dirtying
        BY <1>4, ZenonT(30) DEF SInv, ModeInv, Dirtying, Writing
      <4> QED BY <4>1, <3>2, CleanUnless, ZenonT(30)
    <3>4. r \in Survivor(k)
      BY <3>1, <3>2, <3>3, <1>1, SurviveFact, ZenonT(30)
    <3> QED BY <3>1, <3>3, <3>4, Zenon DEF Durable
  <2>2. CASE /\ a.tomb /\ index[k] = {}
             /\ \A r \in todo : ~hdr[r].inv => hdr[r].key # k
    <3>1. ASSUME NEW r \in Survivor(k) PROVE FALSE
      <4>1. r \in Surviving /\ phdr[r].key = k /\ r \in Record /\ ~phdr[r].inv
        BY <1>1, SurvivorFact, SurviveFact, ZenonT(30)
      <4>2. \A u \in Thread : th[u].pc \notin Dirtying /\ th[u].pc # "index"
        BY <1>4, Zenon DEF SInv, ModeInv, Dirtying, Writing
      <4>3. phdr[r] = hdr[r]
        BY <4>1, <4>2, CleanUnless, Zenon
      <4>4. r \notin Fresh
        BY <4>2, FreshFact, Zenon
      <4>5. r \in todo
        BY <4>1, <4>4, <2>2, Zenon DEF DInv, NewestInv, Unscanned
      <4> QED BY <4>1, <4>3, <4>5, <2>2, Zenon
    <3> QED BY <3>1, <2>2, Zenon
  <2> QED BY <2>1, <2>2, <1>4, Zenon DEF DInv, KeptInv
<1> QED BY <1>2, <1>3, <1>4, Zenon

(* The index shows what returned. *)
LEMMA Visible == SInv /\ DInv => AckedVisible
<1> SUFFICES ASSUME SInv, DInv, Running \/ (mode = "recover" /\ todo = {}),
                    NEW k \in Key, NEW a \in acked[k]
             PROVE  \/ \E r \in Found(k) : hdr[r].ver > a.ver \/ Content(hdr[r], body[r]) = a
                    \/ a.tomb /\ Found(k) = {}
  BY Zenon DEF AckedVisible
<1>1. Found(k) = index[k]
  BY Zenon DEF Found, SInv, IndexInv
<1>2. CASE Running
  <2>1. mode # "recover"
    BY <1>2, Zenon DEF Running
  <2> QED BY <2>1, <1>1 DEF DInv, ShownInv
<1>3. CASE mode = "recover" /\ todo = {}
  BY <1>1, <1>3 DEF DInv, KeptInv
<1> QED BY <1>2, <1>3, Zenon

(* Recovery would choose what the index shows. *)
LEMMA Chosen == SInv /\ DInv => NewestIndexed
<1> SUFFICES ASSUME SInv, DInv, Running, NEW r \in Surviving,
                    r \notin {th[t].rec : t \in Active}
             PROVE  \E i \in Found(phdr[r].key) : i = r \/ hdr[i].ver > phdr[r].ver
  BY Zenon DEF NewestIndexed
<1>1. phdr[r].key \in Key
  BY SurvivorFact, Zenon
<1>2. Found(phdr[r].key) = index[phdr[r].key]
  BY <1>1 DEF Found, SInv, IndexInv
<1>3. r \notin Fresh
  BY FreshFact, Zenon DEF Active
<1>4. r \notin Unscanned
  BY Zenon DEF Running, Unscanned
<1> QED BY <1>2, <1>3, <1>4, Zenon DEF DInv, NewestInv
-----------------------------------------------------------------------------
(***************************************************************************)
(* Crash, recovery and the tombstones of the destructor.                   *)
(***************************************************************************)

(* What would survive is what the scan has before it. *)
LEMMA CrashDurable ==
    ASSUME SInv, DInv, Crash
    PROVE  DInv'
<1>1. /\ mode' = "recover" /\ hdr' = phdr /\ body' = pbody /\ index' = [k \in Key |-> {}]
      /\ todo' = busy /\ recovered' = TRUE /\ phdr' = phdr /\ pbody' = pbody /\ busy' = busy
      /\ acked' = acked /\ th' = [t \in Thread |-> IdleCall]
  BY Zenon DEF Crash
<1>2. \A t \in Thread : th'[t].pc \notin Writing
  BY <1>1, IdleFact, Zenon DEF Holding, Filling
<1>3. \A r : r \in Surviving' <=> r \in Surviving
  BY <1>1, SurviveFact, Zenon
<1>4. UniqueInv'
  BY <1>1, <1>2, <1>3, Zenon DEF DInv, UniqueInv
<1>5. NewestInv'
  BY <1>1, SurviveFact, Zenon DEF NewestInv, Unscanned
<1>6. ShownInv'
  BY <1>1, Zenon DEF ShownInv
<1>7. KeptInv'
  <2> SUFFICES ASSUME NEW k \in Key, NEW a \in acked[k]
               PROVE  \/ \E r \in index'[k] \union todo' :
                            /\ ~hdr'[r].inv /\ hdr'[r].key = k
                            /\ (hdr'[r].ver > a.ver \/ Content(hdr'[r], body'[r]) = a)
                      \/ /\ a.tomb /\ index'[k] = {}
                         /\ \A r \in todo' : ~hdr'[r].inv => hdr'[r].key # k
    BY <1>1, Zenon DEF KeptInv
  <2>1. \A r : r \in Survivor(k) <=> r \in busy /\ ~phdr[r].inv /\ phdr[r].key = k
    BY SurviveFact, Zenon DEF Survivor
  <2>2. CASE \E r \in Survivor(k) : phdr[r].ver > a.ver \/ Durable(r) = a
    BY <2>1, <2>2, <1>1, Zenon DEF Durable
  <2>3. CASE a.tomb /\ Survivor(k) = {}
    BY <2>1, <2>3, <1>1, ZenonT(30)
  <2> QED BY <2>2, <2>3, Survives, ZenonT(30) DEF AckedDurable
<1> QED BY <1>4, <1>5, <1>6, <1>7, ZenonT(30) DEF DInv

(* The acknowledged writes are those of the rebuilt index. *)
LEMMA RecoverDoneDurable ==
    ASSUME SInv, DInv, RecoverDone
    PROVE  DInv'
<1>1. /\ mode = "recover" /\ todo = {} /\ mode' = "open"
      /\ acked' = [k \in Key |-> {Content(hdr[r], body[r]) : r \in index[k]}]
      /\ hdr' = hdr /\ body' = body /\ phdr' = phdr /\ busy' = busy /\ index' = index
      /\ th' = th /\ recovered' = recovered
  BY Zenon DEF RecoverDone, lines, volatile
<1>2. \A r : r \in Surviving' <=> r \in Surviving
  BY <1>1, SurviveFact, Zenon
<1>3. UniqueInv'
  BY <1>1, <1>2, Zenon DEF DInv, UniqueInv
<1>4. NewestInv'
  <2>1. \A r : r \in Fresh => r \in Fresh'
    BY <1>1, FreshFact, Zenon
  <2>2. Unscanned = {}
    BY <1>1, Zenon DEF Unscanned
  <2> QED BY <2>1, <2>2, <1>1, <1>2, Zenon DEF DInv, NewestInv
<1>5. ShownInv'
  <2>1. recovered
    BY <1>1, Zenon DEF DInv, KeptInv
  <2>2. ASSUME NEW k \in Key, NEW i \in index[k]
        PROVE  acked'[k] = {Content(hdr[i], body[i])}
    <3>1. \A j \in index[k] : j = i
      BY IndexedKnown, Zenon
    <3>2. acked'[k] = {Content(hdr[r], body[r]) : r \in index[k]}
      BY <1>1, Zenon
    <3> QED BY <3>1, <3>2, Zenon
  <2>3. ASSUME NEW k \in Key, index[k] = {} PROVE acked'[k] = {}
    BY <1>1, <2>3, Zenon
  <2> QED BY <2>1, <2>2, <2>3, <1>1, ZenonT(30) DEF ShownInv
<1>6. KeptInv'
  BY <1>1, Zenon DEF KeptInv
<1> QED BY <1>3, <1>4, <1>5, <1>6, Zenon DEF DInv

(* A reclaimed tombstone is the last record of its key. *)
LEMMA UnloadDurable ==
    ASSUME SInv, DInv, ReclaimInv, NEW r \in Record, UnloadTombstone(r)
    PROVE  DInv'
<1>1. /\ mode = "unload" /\ r \in todo /\ index' = [k \in Key |-> index[k] \ {r}]
      /\ busy' = busy \ {r} /\ hdr' = hdr /\ body' = body /\ phdr' = phdr /\ mode' = mode
      /\ version' = version /\ th' = th /\ acked' = acked /\ recovered' = recovered
  BY Zenon DEF UnloadTombstone, SlabRelease, lines, ghosts
<1>2. NoLeak
  BY <1>1, ZenonT(30) DEF ReclaimInv, NoLeak
<1>3. busy = Indexed /\ hdr[r].tomb
  BY <1>1, <1>2, ZenonT(30) DEF SInv, KeepInv, ModeInv, OlderReleased, Indexed
<1>4. \A t \in Thread : th[t].pc \notin Writing
  BY <1>1, ZenonT(30) DEF SInv, ModeInv
<1>5. \A s : s \in Surviving' <=> s \in Surviving /\ s # r
  BY <1>1, SurviveFact, Zenon
<1>6. UniqueInv'
  BY <1>1, <1>4, <1>5, Zenon DEF DInv, UniqueInv
<1>7. NewestInv'
  <2>1. ASSUME NEW s \in Surviving, s # r PROVE s \in index'[phdr'[s].key]
    <3>1. s \in busy
      BY SurviveFact, Zenon
    <3>2. PICK k \in Key : s \in index[k]
      BY <3>1, <1>3, IndexedFact, Zenon
    <3>3. phdr[s].key = k
      BY <3>2, IndexedKnown
    <3> QED BY <3>2, <3>3, <2>1, <1>1, ZenonT(30)
  <2> QED BY <2>1, <1>5, Zenon DEF NewestInv
<1>8. ShownInv'
  <2> SUFFICES ASSUME NEW k \in Key
               PROVE  /\ \A i \in index'[k] : acked[k] = {Content(hdr[i], body[i])}
                      /\ index'[k] = {} => \A a \in acked[k] : a.tomb
                      /\ ~recovered => \A a \in acked[k] : a.ver < version[SlotOf[k]]
    BY <1>1, <1>4, Zenon DEF ShownInv
  <2>1. /\ \A i \in index[k] : acked[k] = {Content(hdr[i], body[i])}
        /\ index[k] = {} => \A a \in acked[k] : a.tomb
        /\ ~recovered => \A a \in acked[k] : a.ver < version[SlotOf[k]]
    BY <1>1, Zenon DEF DInv, ShownInv
  <2>2. index'[k] = index[k] \ {r}
    BY <1>1, Zenon
  <2>3. r \in index[k] => \A a \in acked[k] : a.tomb
    BY <2>1, <1>3 DEF Content
  <2> QED BY <2>1, <2>2, <2>3, Zenon
<1>9. KeptInv'
  BY <1>1, Zenon DEF KeptInv
<1> QED BY <1>6, <1>7, <1>8, <1>9, Zenon DEF DInv

(* A worker drops a record that the index has a newer version of, or puts  *)
(* one in the place of an older version.                                   *)
LEMMA RecoverRecordDurable ==
    ASSUME SInv, DInv, NEW t \in Thread, NEW r \in Record, RecoverRecord(t, r)
    PROVE  DInv'
<1> DEFINE k == hdr[r].key
<1>1. /\ mode = "recover" /\ th[t].pc = "idle" /\ r \in todo /\ todo' = todo \ {r}
      /\ hdr' = hdr /\ body' = body /\ phdr' = phdr /\ busy' = busy
      /\ mode' = mode /\ acked' = acked /\ recovered' = recovered
  BY Zenon DEF RecoverRecord, lines, ghosts
<1>2. \A u \in Thread : th'[u].pc \notin Writing
  <2>1. \A u \in Thread : th[u].pc \notin Writing
    BY <1>1, ZenonT(30) DEF SInv, ModeInv
  <2>2. PICK pc \in {"drop", "load", "retire"} : \E x : Rebuild(t, pc, x, hdr[r])
    BY Zenon DEF RecoverRecord
  <2>3. th'[t].pc = pc /\ \A u \in Thread \ {t} : th'[u] = th[u]
    BY <2>2, SMTT(30) DEF Rebuild, SInv, TypeOK, IdleCall
  <2> QED BY <2>1, <2>3, ZenonT(30) DEF Writing
<1>3. \A s : s \in Surviving' <=> s \in Surviving
  BY <1>1, SurviveFact, ZenonT(30)
<1>4. /\ r \in busy /\ phdr[r] = hdr[r] /\ pbody[r] = body[r] /\ r \notin Indexed
      /\ hdr[r].ver \in Nat
  <2>1. \A u \in Thread : th[u].pc \notin Dirtying
    BY <1>1, ZenonT(30) DEF SInv, ModeInv, Dirtying, Writing
  <2>2. phdr[r] = hdr[r] /\ pbody[r] = body[r]
    BY <2>1, CleanUnless, ZenonT(30)
  <2>3. r \in busy /\ r \notin Indexed
    BY <1>1, ZenonT(30) DEF SInv, ApartInv, Unscanned
  <2> QED BY <2>2, <2>3, ZenonT(30) DEF SInv, TypeOK, Header
<1>5. ~hdr[r].inv => r \in Surviving /\ k \in Key
  BY <1>4, SurviveFact, SurvivorFact, ZenonT(30)
<1>6. k \in Key => Found(k) = index[k]
  BY DEF Found, SInv, IndexInv
<1>7. UniqueInv'
  BY <1>1, <1>2, <1>3, Zenon DEF DInv, UniqueInv
<1>8. ShownInv'
  BY <1>1, Zenon DEF ShownInv
<1>9. \A s \in Surviving : s \notin Fresh
  BY <1>1, FreshFact, ZenonT(30) DEF SInv, ModeInv, Writing
<1>10. CASE /\ hdr[r].inv \/ \E old \in Found(k) : hdr[old].ver >= hdr[r].ver
            /\ index' = index
  <2>1. ~hdr[r].inv => \E old \in index[k] : hdr[old].ver > hdr[r].ver
    <3> SUFFICES ASSUME ~hdr[r].inv PROVE \E old \in index[k] : hdr[old].ver > hdr[r].ver
      BY Zenon
    <3>1. PICK old \in index[k] : hdr[old].ver >= hdr[r].ver
      BY <1>10, <1>5, <1>6, ZenonT(30)
    <3>2. /\ old \in Surviving /\ phdr[old] = hdr[old] /\ hdr[old].key = k /\ old \in Indexed
          /\ hdr[old].ver \in Nat
      <4>1. k \in Key
        BY <1>5, Zenon
      <4> QED BY <4>1, IndexedKnown
    <3>3. hdr[old].ver # hdr[r].ver
      BY <3>2, <1>4, <1>5, Zenon DEF DInv, UniqueInv
    <3>4. hdr[old].ver > hdr[r].ver
      BY <3>1, <3>2, <3>3, <1>4, Order, Zenon
    <3> QED BY <3>4, Zenon
  <2>2. NewestInv'
    <3>1. ASSUME NEW s \in Surviving
          PROVE  \/ s \in Unscanned'
                 \/ \E i \in index[phdr[s].key] : i = s \/ hdr[i].ver > phdr[s].ver
      <4>1. CASE s = r
        <5>1. ~hdr[r].inv
          BY <4>1, <1>4, SurviveFact, Zenon
        <5> QED BY <5>1, <4>1, <2>1, <1>4, ZenonT(30)
      <4>2. CASE s # r
        <5>1. s \in Unscanned => s \in Unscanned'
          BY <4>2, <1>1, Zenon DEF Unscanned
        <5> QED BY <5>1, <1>9, Zenon DEF DInv, NewestInv
      <4> QED BY <4>1, <4>2, Zenon
    <3> QED BY <3>1, <1>1, <1>3, <1>10, ZenonT(30) DEF NewestInv
  <2>3. KeptInv'
    <3> SUFFICES ASSUME NEW l \in Key, NEW a \in acked[l]
                 PROVE  \/ \E w \in index[l] \union todo' :
                              /\ ~hdr[w].inv /\ hdr[w].key = l
                              /\ (hdr[w].ver > a.ver \/ Content(hdr[w], body[w]) = a)
                        \/ /\ a.tomb /\ index[l] = {}
                           /\ \A w \in todo' : ~hdr[w].inv => hdr[w].key # l
      BY <1>1, <1>10, ZenonT(30) DEF DInv, KeptInv
    <3>1. CASE \E w \in index[l] \union todo :
                 /\ ~hdr[w].inv /\ hdr[w].key = l
                 /\ (hdr[w].ver > a.ver \/ Content(hdr[w], body[w]) = a)
      <4>1. PICK w \in index[l] \union todo :
                 /\ ~hdr[w].inv /\ hdr[w].key = l
                 /\ (hdr[w].ver > a.ver \/ Content(hdr[w], body[w]) = a)
        BY <3>1, Zenon
      <4>2. CASE w # r
        BY <4>1, <4>2, <1>1, Zenon
      <4>3. CASE w = r
        <5>1. PICK old \in index[l] : hdr[old].ver > hdr[r].ver
          BY <4>1, <4>3, <2>1, Zenon
        <5>2. ~hdr[old].inv /\ hdr[old].key = l /\ hdr[old].ver \in Nat
          BY IndexedKnown, Zenon
        <5>3. a.ver \in Nat
          BY AckedVer, Zenon
        <5>4. hdr[r].ver > a.ver \/ hdr[r].ver = a.ver
          <6>1. Content(hdr[r], body[r]).ver = hdr[r].ver
            BY Zenon DEF Content
          <6> QED BY <6>1, <4>1, <4>3, Zenon
        <5>5. hdr[old].ver > a.ver
          BY <5>1, <5>2, <5>3, <5>4, <1>4, Order, ZenonT(30)
        <5> QED BY <5>2, <5>5, Zenon
      <4> QED BY <4>2, <4>3, Zenon
    <3>2. CASE /\ a.tomb /\ index[l] = {}
               /\ \A w \in todo : ~hdr[w].inv => hdr[w].key # l
      BY <3>2, <1>1, ZenonT(30)
    <3> QED BY <3>1, <3>2, <1>1, Zenon DEF DInv, KeptInv
  <2> QED BY <2>2, <2>3, <1>7, <1>8, ZenonT(30) DEF DInv
<1>11. CASE /\ ~hdr[r].inv /\ \A old \in Found(k) : hdr[old].ver < hdr[r].ver
            /\ index' = [index EXCEPT ![k] = (@ \ Found(k)) \union {r}]
  <2>1. k \in Key /\ r \in Surviving /\ Found(k) = index[k]
    BY <1>5, <1>6, <1>11, ZenonT(30)
  <2>2. index'[k] = {r} /\ \A l \in Key : l # k => index'[l] = index[l]
    BY <2>1, <1>11, ZenonT(30) DEF SInv, TypeOK
  <2>3. \A old \in index[k] : hdr[old].ver < hdr[r].ver /\ hdr[old].ver \in Nat
    <3>1. ASSUME NEW old \in index[k] PROVE hdr[old].ver < hdr[r].ver /\ hdr[old].ver \in Nat
      <4>1. hdr[old].ver \in Nat
        BY <2>1, IndexedKnown, Zenon
      <4>2. hdr[old].ver < hdr[r].ver
        BY <2>1, <1>11, Zenon
      <4> QED BY <4>1, <4>2, Zenon
    <3> QED BY <3>1, Zenon
  <2>4. NewestInv'
    <3>1. ASSUME NEW s \in Surviving
          PROVE  \/ s \in Unscanned'
                 \/ \E i \in index'[phdr[s].key] : i = s \/ hdr[i].ver > phdr[s].ver
      <4>0. phdr[s].key \in Key /\ phdr[s].ver \in Nat
        BY SurvivorFact, Zenon
      <4>1. CASE s = r
        BY <4>1, <2>2, <1>4, ZenonT(30)
      <4>2. CASE s # r /\ s \in Unscanned
        BY <4>2, <1>1, Zenon DEF Unscanned
      <4>3. CASE \E i \in index[phdr[s].key] : i = s \/ hdr[i].ver > phdr[s].ver
        <5>1. PICK i \in index[phdr[s].key] : i = s \/ hdr[i].ver > phdr[s].ver
          BY <4>3, Zenon
        <5>2. CASE phdr[s].key # k
          BY <5>1, <5>2, <4>0, <2>2, ZenonT(30)
        <5>3. CASE phdr[s].key = k
          <6>0. i \in index[k] /\ k \in Key
            BY <5>1, <5>3, <2>1, Zenon
          <6>1. phdr[i] = hdr[i]
            BY <6>0, IndexedKnown
          <6>2. hdr[r].ver > phdr[s].ver
            <7>1. hdr[r].ver > hdr[i].ver /\ hdr[i].ver \in Nat
              BY <6>0, <2>3, <1>4, Order, ZenonT(30)
            <7>2. CASE i = s
              BY <7>1, <7>2, <6>1, Zenon
            <7>3. CASE hdr[i].ver > phdr[s].ver
              BY <7>1, <7>3, <4>0, <1>4
            <7> QED BY <7>2, <7>3, <5>1, Zenon
          <6> QED BY <6>2, <5>3, <2>2, ZenonT(30)
        <5> QED BY <5>2, <5>3, Zenon
      <4> QED BY <4>1, <4>2, <4>3, <1>9, ZenonT(30) DEF DInv, NewestInv
    <3> QED BY <3>1, <1>1, <1>3, Zenon DEF NewestInv
  <2>5. KeptInv'
    <3> SUFFICES ASSUME NEW l \in Key, NEW a \in acked[l]
                 PROVE  \/ \E w \in index'[l] \union todo' :
                              /\ ~hdr[w].inv /\ hdr[w].key = l
                              /\ (hdr[w].ver > a.ver \/ Content(hdr[w], body[w]) = a)
                        \/ /\ a.tomb /\ index'[l] = {}
                           /\ \A w \in todo' : ~hdr[w].inv => hdr[w].key # l
      BY <1>1, ZenonT(30) DEF DInv, KeptInv
    <3>1. CASE \E w \in index[l] \union todo :
                 /\ ~hdr[w].inv /\ hdr[w].key = l
                 /\ (hdr[w].ver > a.ver \/ Content(hdr[w], body[w]) = a)
      <4>1. PICK w \in index[l] \union todo :
                 /\ ~hdr[w].inv /\ hdr[w].key = l
                 /\ (hdr[w].ver > a.ver \/ Content(hdr[w], body[w]) = a)
        BY <3>1, Zenon
      <4>2. CASE w = r
        <5>1. r \in index'[l]
          BY <4>1, <4>2, <2>2, Zenon
        <5> QED BY <5>1, <4>1, <4>2, ZenonT(30)
      <4>3. CASE w # r /\ w \in todo
        BY <4>1, <4>3, <1>1, Zenon
      <4>4. CASE w \in index[l] /\ l # k
        BY <4>1, <4>4, <2>2, ZenonT(30)
      <4>5. CASE w \in index[l] /\ l = k
        <5>1. a.ver \in Nat
          BY AckedVer, ZenonT(30)
        <5>2. hdr[w].ver > a.ver \/ hdr[w].ver = a.ver
          <6>1. Content(hdr[w], body[w]).ver = hdr[w].ver
            BY Zenon DEF Content
          <6> QED BY <6>1, <4>1, Zenon
        <5>3. hdr[r].ver > a.ver
          <6>1. hdr[r].ver > hdr[w].ver /\ hdr[w].ver \in Nat
            BY <4>5, <2>3, <1>4, Order, ZenonT(30)
          <6> QED BY <6>1, <5>1, <5>2, <1>4, Order, ZenonT(30)
        <5>4. r \in index'[l]
          BY <4>5, <2>2, Zenon
        <5> QED BY <5>3, <5>4, <4>5, <1>11, ZenonT(30)
      <4> QED BY <4>1, <4>2, <4>3, <4>4, <4>5, Zenon
    <3>2. CASE /\ a.tomb /\ index[l] = {}
               /\ \A w \in todo : ~hdr[w].inv => hdr[w].key # l
      <4>1. l # k
        BY <3>2, <1>1, <1>11, Zenon
      <4> QED BY <4>1, <3>2, <2>2, <1>1, ZenonT(30)
    <3> QED BY <3>1, <3>2, <1>1, ZenonT(30) DEF DInv, KeptInv
  <2> QED BY <2>4, <2>5, <1>7, <1>8, Zenon DEF DInv
<1> QED BY <1>10, <1>11, Zenon DEF RecoverRecord

(* The store that has just been created has nothing to lose. *)
LEMMA InitDurable == Init => DInv /\ ReclaimInv
<1> SUFFICES ASSUME Init PROVE DInv /\ ReclaimInv
  BY Zenon
<1>1. /\ busy = {} /\ mode = "open" /\ index = [k \in Key |-> {}]
      /\ acked = [k \in Key |-> {}] /\ th = [t \in Thread |-> IdleCall]
  BY Zenon DEF Init
<1>2. \A t \in Thread : th[t].pc \notin Writing
  BY <1>1, IdleFact, Zenon DEF Holding, Filling
<1>3. \A r : r \notin Surviving
  BY <1>1, SurviveFact, Zenon
<1>4. UniqueInv /\ NewestInv
  BY <1>2, <1>3, Zenon DEF UniqueInv, NewestInv
<1>5. ShownInv /\ KeptInv /\ ReclaimInv
  BY <1>1, Zenon DEF ShownInv, KeptInv, ReclaimInv
<1> QED BY <1>4, <1>5, Zenon DEF DInv

(* A step that changes nothing. *)
LEMMA StutterDurable ==
    ASSUME DInv, UNCHANGED vars
    PROVE  DInv'
<1>1. /\ hdr' = hdr /\ body' = body /\ phdr' = phdr /\ busy' = busy /\ index' = index
      /\ version' = version /\ th' = th /\ mode' = mode /\ todo' = todo
      /\ acked' = acked /\ recovered' = recovered
  BY Zenon DEF vars
<1>2. \A r \in Surviving' : r \in Surviving /\ phdr'[r] = phdr[r]
  BY <1>1, FewerSurvive, Zenon
<1> QED BY <1>1, <1>2, Quiet, ZenonT(30) DEF QuietStep
=============================================================================
