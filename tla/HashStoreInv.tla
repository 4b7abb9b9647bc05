---------------------------- MODULE HashStoreInv ----------------------------
(***************************************************************************)
(* The inductive invariant of HashStore, SInv.  It says where a record is  *)
(* (every record is in one place: the allocator, the index, a limbo list,  *)
(* the epoch, a call or the part that recovery has not scanned), what its  *)
(* lines hold there, and what the thread that has it knows of it.          *)
(***************************************************************************)
EXTENDS HashStore

(* The program points of a call that writes, those at which it has its     *)
(* record, those of a recovery worker, and those at which a thread holds a *)
(* record for itself.                                                      *)
Writing == {"acquire", "write", "publish", "invalidate", "rewrite", "flush", "control", "index"}
Filling == Writing \ {"acquire"}
Scanning == {"drop", "retire", "load", "cas"}
Holding == Filling \union {"drop", "retire"}

(* Between invalidate and set_control the lines of a record may be dirty. *)
Dirtying == {"rewrite", "flush", "control"}

(* The places that hold records. *)
Indexed == UNION {index[k] : k \in Key}
InLimbo == UNION {Limboed(t) : t \in Thread}
InEpoch == {x.rec : x \in retired}
InCall == {th[t].rec : t \in {u \in Thread : th[u].pc \in Holding}}
Unscanned == IF mode = "recover" THEN todo ELSE {}

TypeOK ==
    /\ hdr \in [Record -> Header] /\ phdr \in [Record -> Header]
    /\ body \in [Record -> Value] /\ pbody \in [Record -> Value]
    /\ busy \subseteq Record /\ free \subseteq Record
    /\ index \in [Key -> SUBSET Record]
    /\ version \in [Slot -> Nat]
    /\ limbo \in [Thread -> Seq(Record)]
    /\ retired \subseteq Closure
    /\ th \in [Thread -> Call]
    /\ mode \in Mode /\ todo \subseteq Record /\ tomb \in Nat
    /\ issued \subseteq Write
    /\ acked \in [Key -> SUBSET Write] /\ recovered \in BOOLEAN

(* What the threads may be doing, and what is left to visit, in each mode. *)
ModeInv ==
    /\ \A t \in Thread : /\ th[t].pc \in Writing \union {"read"} => mode = "open"
                         /\ th[t].pc \in Scanning => mode = "recover"
                         /\ th[t].pc \in Scanning \ {"drop"} => th[t].key \in Key
                         /\ th[t].pc \in {"acquire", "load", "cas"} => th[t].rec = None
    /\ mode \notin {"recover", "unload"} => todo = {}
    /\ mode \in {"unload", "closed"} => retired = {}
    /\ mode = "unload" => todo \subseteq Indexed /\ \A r \in todo : hdr[r].tomb
    /\ mode \in {"closing", "clearing", "unload", "closed"} => "close" \in Faults

(* A place holds a record once. *)
CallOnce ==
    \A t, u \in Thread : th[t].pc \in Holding /\ th[u].pc \in Holding
                         /\ th[t].rec = th[u].rec => t = u
IndexOnce == \A k, l \in Key : \A r \in index[k] : r \in index[l] => k = l
LimboOnce ==
    \A t, u \in Thread : \A i \in DOMAIN limbo[t], j \in DOMAIN limbo[u] :
        limbo[t][i] = limbo[u][j] => t = u /\ i = j
EpochOnce == \A x, y \in retired : x.rec = y.rec => x = y
OnceInv == CallOnce /\ IndexOnce /\ LimboOnce /\ EpochOnce

(* Two places hold no record in common.  Those whose token is hired and    *)
(* the free regions are apart by ApartInv and BusyInv together.            *)
ApartInv ==
    /\ Indexed \intersect InLimbo = {} /\ Indexed \intersect InEpoch = {}
    /\ Indexed \intersect InCall = {} /\ Indexed \intersect Unscanned = {}
    /\ InLimbo \intersect InEpoch = {} /\ InLimbo \intersect InCall = {}
    /\ InLimbo \intersect Unscanned = {} /\ InEpoch \intersect InCall = {}
    /\ InEpoch \intersect Unscanned = {} /\ InCall \intersect Unscanned = {}
    /\ InCall \intersect free = {}
    /\ Indexed \subseteq busy /\ InLimbo \subseteq busy /\ InEpoch \subseteq busy
    /\ Unscanned \subseteq busy /\ busy \intersect free = {}

(* The token of the record that a thread holds. *)
BusyInv ==
    \A t \in Thread : th[t].pc \in Holding =>
        /\ th[t].rec \in Record
        /\ th[t].rec \in busy <=> th[t].pc \notin {"write", "publish"}

Clean == {r \in Record : phdr[r] = hdr[r] /\ pbody[r] = body[r]}

(* The threads whose call and record agree: what the record holds at each  *)
(* program point, and, for a two-line record, what has been written back.  *)
Agreeing ==
    {t \in Thread : LET c == th[t] r == th[t].rec IN
        /\ c.pc \in Writing =>
             /\ c.key \in Key /\ c.op \in {"upsert", "update", "remove"}
             /\ Intent(c) \in issued /\ (c.op = "remove" => c.val = 0)
             /\ c.op \in {"update", "remove"} \ MissingKeys => index[c.key] # {}
        /\ c.pc \in {"publish", "index"} =>
             ~hdr[r].inv /\ Content(hdr[r], body[r]) = Intent(c)
        /\ c.pc \in Dirtying => hdr[r].inv /\ (r \notin OneLine => phdr[r].inv)
        /\ c.pc \in {"flush", "control"} =>
             hdr[r].key = c.key /\ (c.op # "remove" => body[r] = c.val)
        /\ c.pc = "flush" => r \notin OneLine
        /\ c.pc = "control" /\ r \notin OneLine => r \in Clean}

(* An indexed record is valid, and the only one of its key. *)
IndexInv ==
    \A k \in Key : \A r \in index[k] :
        /\ hdr[r].key = k /\ ~hdr[r].inv
        /\ \A s \in index[k] : s = r

(* A line is dirty only in the middle of a call. *)
CleanInv ==
    \A r \in Record : r \in Clean \/ \E t \in Thread : th[t].rec = r /\ th[t].pc \in Dirtying

(* What a reader sees, and why nobody may change it. *)
ReadInv ==
    \A t \in Thread : th[t].pc = "read" =>
        /\ th[t].rec \in Record
        /\ hdr[th[t].rec] = [inv |-> FALSE, tomb |-> FALSE, ver |-> th[t].ver, key |-> th[t].key]
        /\ body[th[t].rec] = th[t].val
        /\ \/ th[t].rec \in Indexed
           \/ \E x \in retired : x.rec = th[t].rec /\ t \in x.waits

(* The limbo that EpochClear fills is forgotten with its records. *)
NoLeak == MaxLimbo = 0 \/ "close" \notin Faults

(* Nothing is lost. *)
KeepInv ==
    /\ MaxLimbo = 0 => \A t \in Thread : limbo[t] = <<>>
    /\ NoLeak => busy \subseteq Indexed \union InLimbo \union InEpoch \union InCall
                                \union Unscanned
    /\ mode # "recover" => Record \subseteq free \union busy \union InCall
    /\ NoLeak => OlderReleased

(* The version of an indexed record is covered, or about to be. *)
VerInv ==
    /\ \A k \in Key : \A r \in index[k] :
          \/ hdr[r].ver <= version[SlotOf[k]]
          \/ \E t \in Thread : /\ th[t].pc \in {"retire", "load", "cas"}
                               /\ th[t].key = k /\ th[t].ver = hdr[r].ver
    /\ \A t \in Thread : th[t].pc \in Writing => th[t].ver < version[SlotOf[th[t].key]]

SInv ==
    /\ TypeOK /\ ModeInv /\ OnceInv /\ ApartInv /\ BusyInv /\ Thread \subseteq Agreeing
    /\ IndexInv /\ CleanInv /\ NoTornRecord /\ ReadInv /\ KeepInv /\ VerInv

(* The number of tombstones that lets ~HashStore reclaim them is never     *)
(* reached, or no record can be left behind in a limbo list.               *)
ReclaimSafe == MaxLimbo = 0 \/ tomb <= ReclaimTomb

(* When tombstones are being reclaimed no record was left behind. *)
ReclaimInv == mode = "unload" /\ todo # {} => MaxLimbo = 0
=============================================================================
