-------------------------- MODULE LockHolderProofs --------------------------
(* What the holder of a lock relies on: a transaction in the server's own process
   keeps its lock, it is not taken away by another one's unlock. *)
EXTENDS LockPlaceProofs

-----------------------------------------------------------------------------
(* Who holds a lock *)

(* The transactions that hold a lock, or will be told so by a thread. *)
Holder(kind) ==
  {t \in Txn : /\ txn[t].kind = kind
               /\ \/ txn[t].st = "held"
                  \/ txn[t].st = "asked" /\ \E w \in Worker : Tells(w, t)}

(* Each holder has a listed lock with its bounds and type to itself; a writer
   has its own, readers of the same bytes may have one another's, for an unlock
   takes any lock with the bounds it names (find_matching_inodelk). *)
Deals(f) ==
  /\ \A t, u \in Holder("inode") : f[t] = f[u] => t = u
  /\ \A t \in Holder("inode") :
       Asks(f[t], txn[t].on) /\ (txn[t].on.type = "WR" => f[t].txn = t)

InodeHeld == \E f \in [Holder("inode") -> inodelk_list] : Deals(f)

EntryHeld ==
  \A t \in Holder("entry") : \E l \in entrylk_list : l.txn = t /\ l.name = txn[t].on

\* A transaction a thread will answer has asked.
LEMMA TellsNoIdle ==
  ASSUME NEW w \in Worker, WorkerOK(w), NEW t \in Txn, Tells(w, t)
  PROVE  txn[t].st # "idle"
BY DEF WorkerOK, Tells

(* Nobody becomes a holder without being told so by a thread. *)
LEMMA HoldersStay ==
  ASSUME NEW kind, NEW T,
         \A v \in Worker, u \in Txn \ T : Tells(v, u)' => Tells(v, u),
         \A u \in Txn \ T :
           /\ txn'[u].kind = txn[u].kind
           /\ \/ txn'[u].st = txn[u].st
              \/ txn'[u].st \notin {"held", "asked"}
              \/ txn'[u].st = "held" /\ txn[u].st = "asked" /\ \E v \in Worker : Tells(v, u)
  PROVE  Holder(kind)' \subseteq Holder(kind) \cup T
BY DEF Holder

\* A thread whose call stays tells the same transactions.
LEMMA TellsKept ==
  ASSUME NEW v \in Worker, work'[v].op = work[v].op, work'[v].ret = work[v].ret,
         work'[v].txn = work[v].txn, work'[v].granted = work[v].granted
  PROVE  \A u \in Txn : Tells(v, u)' => Tells(v, u)
BY DEF Tells

\* A new call tells its own transaction only, and only of a lock.
LEMMA TellsBegun ==
  ASSUME NEW w \in Worker, NEW pc, NEW kind, NEW op, NEW t, NEW f, NEW ret,
         work'[w] = Call(pc, kind, op, t, f, ret)
  PROVE  \A u : Tells(w, u)' => op = "lock" /\ ret = 0 /\ u = t
<1>1. /\ work'[w].op = op /\ work'[w].txn = t /\ work'[w].ret = ret
      /\ work'[w].granted = <<>>
  BY DEF Call
<1>2. Len(<<>>) = 0
  OBVIOUS
<1> QED
  BY <1>1, <1>2 DEF Tells

\* Thread w has taken the request of t for a lock of kind k.
Taking(w, t, k, granted) ==
  /\ txn[t].st = "idle" /\ txn'[t].kind = k /\ txn'[t].st = "asked"
  /\ \A u \in Txn \ {t} : txn'[u] = txn[u]
  /\ \E pc \in {"grant", "unwind"}, b \in BOOLEAN : work'[w] = Answered(pc, k, t, t, granted, b)
  /\ \A v \in Worker \ {w} : work'[v] = work[v]

(* A request makes a holder of its own transaction, and only if it is granted. *)
LEMMA RequestHolders ==
  ASSUME TypeOK, PlaceInv, NEW w \in Worker, NEW t \in Txn, NEW k,
         NEW granted \in BOOLEAN, Taking(w, t, k, granted), NEW kind
  PROVE  /\ Holder(kind)' \subseteq Holder(kind) \cup {t}
         /\ t \in Holder(kind)' => granted /\ kind = k
<1>0. PICK pc \in {"grant", "unwind"}, b \in BOOLEAN : work'[w] = Answered(pc, k, t, t, granted, b)
  BY ZenonT(30) DEF Taking
<1>a. /\ txn[t].st = "idle" /\ txn'[t].kind = k /\ txn'[t].st = "asked"
      /\ \A u \in Txn \ {t} : txn'[u] = txn[u]
      /\ \A v \in Worker \ {w} : work'[v] = work[v]
  BY ZenonT(30) DEF Taking
<1>1. PICK op, u, f, ret : /\ Answered(pc, k, t, t, granted, b) = Call(pc, k, op, u, f, ret)
                           /\ op = "lock" => u = t
                           /\ op = "lock" /\ ret = 0 => granted
  BY AnsweredCall
<1>2. /\ work'[w] = Call(pc, k, op, u, f, ret)
      /\ \A v \in Worker \ {w} : work'[v] = work[v]
  BY <1>0, <1>1, <1>a
<1>3. \A x : Tells(w, x)' => op = "lock" /\ ret = 0 /\ x = u
  BY <1>2, TellsBegun
<1>4. \A v \in Worker \ {w}, x \in Txn : Tells(v, x)' => Tells(v, x)
  BY ZenonT(30), <1>2, TellsKept
<1>6. Holder(kind)' \subseteq Holder(kind) \cup {t}
  <2>1. \A v \in Worker, x \in Txn \ {t} : Tells(v, x)' => Tells(v, x)
    BY ZenonT(30), <1>1, <1>3, <1>4
  <2>2. \A x \in Txn \ {t} : txn'[x].kind = txn[x].kind /\ txn'[x].st = txn[x].st
    BY ZenonT(30), <1>a
  <2> QED
    BY ZenonT(30), <2>1, <2>2, HoldersStay
<1>7. \A v \in Worker : ~Tells(v, t)
  BY ZenonT(30), <1>a, TellsNoIdle DEF PlaceInv
<1>8. t \in Holder(kind)' => granted /\ kind = k
  BY ZenonT(30), <1>1, <1>3, <1>4, <1>7, <1>a DEF Holder
<1> QED
  BY ZenonT(30), <1>6, <1>8

(* A retried lock that is granted makes a holder of its transaction. *)
LEMMA RetryHolders ==
  ASSUME NEW w \in Worker, NEW S, work[w].granted \in Seq(S), NEW bl \in S,
         NEW granted \in BOOLEAN,
         work'[w].op = work[w].op, work'[w].txn = work[w].txn, work'[w].ret = work[w].ret,
         work'[w].granted = (IF granted THEN <<bl>> \o work[w].granted ELSE work[w].granted),
         \A v \in Worker \ {w} : work'[v] = work[v], UNCHANGED txn, NEW kind
  PROVE  /\ Holder(kind)' \subseteq Holder(kind) \cup {bl.txn}
         /\ ~granted => Holder(kind)' \subseteq Holder(kind)
<1>1. \A v \in Worker \ {w}, u \in Txn : Tells(v, u)' => Tells(v, u)
  BY TellsKept
<1>2. CASE granted
  <2>1. \A i \in 1..Len(work'[w].granted) :
          \/ work'[w].granted[i] = bl
          \/ \E j \in 1..Len(work[w].granted) : work'[w].granted[i] = work[w].granted[j]
    <3>1. work'[w].granted = <<bl>> \o work[w].granted
      BY <1>2
    <3> SUFFICES ASSUME NEW i \in 1..Len(work'[w].granted), i # 1
                 PROVE  \E j \in 1..Len(work[w].granted) : work'[w].granted[i] = work[w].granted[j]
      BY <3>1, Prepended
    <3>2. i - 1 \in 1..Len(work[w].granted) /\ (i - 1) + 1 = i
      BY <3>1, Prepended
    <3> QED
      BY <3>1, <3>2, Prepended
  <2>2. \A u \in Txn \ {bl.txn} : Tells(w, u)' => Tells(w, u)
    BY ZenonT(30), <2>1 DEF Tells
  <2> QED
    BY ZenonT(30), <1>1, <1>2, <2>2, HoldersStay
<1>3. CASE ~granted
  <2>1. \A u \in Txn : Tells(w, u)' => Tells(w, u)
    BY ZenonT(30), <1>3, TellsKept
  <2>2. Holder(kind)' \subseteq Holder(kind) \cup {}
    BY ZenonT(30), <1>1, <2>1, HoldersStay
  <2> QED
    BY ZenonT(30), <2>2
<1> QED
  BY ZenonT(30), <1>2, <1>3

(* The other steps of a thread make no holder that was not told already. *)
LEMMA ReplyHolders ==
  ASSUME TypeOK, PlaceInv, NEW w \in Worker, NEW kind,
         grant_enter(w) \/ grant_exit(w) \/ unwind_granted(w) \/ finish(w)
  PROVE  /\ Holder(kind)' \subseteq Holder(kind)
         /\ inodelk_list' = inodelk_list /\ entrylk_list' = entrylk_list
         /\ \A u \in Txn : /\ txn'[u].kind = txn[u].kind /\ txn'[u].on = txn[u].on
                           /\ txn'[u].st \in {"held", "asked"} => txn[u].st \in {"held", "asked"}
<1>1. work[w] \in CallOn("inode", InodeLock) \/ work[w] \in CallOn("entry", EntryLock)
  BY ZenonT(30) DEF TypeOK
<1>2. inodelk_list' = inodelk_list /\ entrylk_list' = entrylk_list
  BY DEF grant_enter, grant_exit, unwind_granted, finish, dom
<1>3. CASE grant_enter(w) \/ grant_exit(w)
  <2>1. UNCHANGED txn
    BY ZenonT(30), <1>3 DEF grant_enter, grant_exit
  <2>2. /\ work'[w].op = work[w].op /\ work'[w].ret = work[w].ret /\ work'[w].txn = work[w].txn
        /\ work'[w].granted = work[w].granted /\ \A v \in Worker \ {w} : work'[v] = work[v]
    BY <1>1, <1>3 DEF grant_enter, grant_exit, TypeOK, CallOn
  <2>3. \A v \in Worker, u \in Txn : Tells(v, u)' => Tells(v, u)
    BY ZenonT(30), <2>2, TellsKept
  <2>4. Holder(kind)' \subseteq Holder(kind) \cup {}
    BY ZenonT(30), <2>1, <2>3, HoldersStay
  <2> QED
    BY ZenonT(30), <1>2, <2>1, <2>4
<1>4. CASE unwind_granted(w)
  <2>1. /\ work[w].granted # <<>> /\ reply_locked(Head(work[w].granted).txn)
        /\ work' = [work EXCEPT ![w].granted = Tail(@)]
    BY ZenonT(30), <1>4 DEF unwind_granted
  <2>2. /\ work'[w].op = work[w].op /\ work'[w].ret = work[w].ret /\ work'[w].txn = work[w].txn
        /\ work'[w].granted = Tail(work[w].granted) /\ \A v \in Worker \ {w} : work'[v] = work[v]
    BY <1>1, <2>1 DEF TypeOK, CallOn
  <2>3. \E S : work[w].granted \in Seq(S)
    BY ZenonT(30), <1>1 DEF CallOn
  <2>4. /\ 1 \in 1..Len(work[w].granted) /\ Head(work[w].granted) = work[w].granted[1]
        /\ \A i \in 1..Len(Tail(work[w].granted)) :
             i + 1 \in 1..Len(work[w].granted) /\ Tail(work[w].granted)[i] = work[w].granted[i + 1]
    BY <2>1, <2>3
  <2>5. \A u \in Txn : Tells(w, u)' => Tells(w, u)
    BY <2>2, <2>4 DEF Tells
  <2>6. \A v \in Worker \ {w}, u \in Txn : Tells(v, u)' => Tells(v, u)
    BY ZenonT(30), <2>2, TellsKept
  <2>7. PICK t \in Txn : t = work[w].granted[1].txn /\ reply_locked(t)
    BY ZenonT(30), <2>1, <2>4, Places
  <2>8. Tells(w, t)
    BY ZenonT(30), <2>4, <2>7 DEF Tells
  <2>9. \A u \in Txn : /\ txn'[u].kind = txn[u].kind /\ txn'[u].on = txn[u].on
                       /\ txn'[u].st = IF u = t /\ txn[u].st = "asked" THEN "held" ELSE txn[u].st
    BY ZenonT(30), <2>7, LockedReply
  <2>10. Holder(kind)' \subseteq Holder(kind) \cup {}
    BY <2>5, <2>6, <2>8, <2>9, HoldersStay
  <2> QED
    BY ZenonT(30), <1>2, <2>9, <2>10
<1>5. CASE finish(w)
  <2>1. \A u \in Txn :
          /\ txn'[u].kind = txn[u].kind /\ txn'[u].on = txn[u].on
          /\ \/ txn'[u].st = txn[u].st
             \/ txn'[u].st = "done"
             \/ txn'[u].st = "held" /\ txn[u].st = "asked" /\ Tells(w, u)
    BY ZenonT(30), <1>5, FinishReply
  <2>2. work' = [work EXCEPT ![w] = Idle]
    BY ZenonT(30), <1>5 DEF finish, PlaceInv, WorkerOK
  <2>3. work'[w] = Idle /\ \A v \in Worker \ {w} : work'[v] = work[v]
    BY ZenonT(30), <2>2, WorkUpdate
  <2>4. \A u \in Txn : Tells(w, u)' => Tells(w, u)
    BY <2>3, TellsBegun DEF Idle
  <2>5. \A v \in Worker \ {w}, u \in Txn : Tells(v, u)' => Tells(v, u)
    BY ZenonT(30), <2>3, TellsKept
  <2>6. Holder(kind)' \subseteq Holder(kind) \cup {}
    BY ZenonT(30), <2>1, <2>4, <2>5, HoldersStay
  <2> QED
    BY ZenonT(30), <1>2, <2>1, <2>6
<1> QED
  BY ZenonT(30), <1>3, <1>4, <1>5

\* The transaction that unlocks holds its lock no more; the others do as before.
LEMMA UnlockHolders ==
  ASSUME TypeOK, PlaceInv, NEW w \in Worker, NEW t \in Txn, Unlock(w, t), NEW kind
  PROVE  /\ Holder(kind)' \subseteq Holder(kind) \ {t}
         /\ \A u \in Txn : /\ txn'[u].kind = txn[u].kind /\ txn'[u].on = txn[u].on
                           /\ txn'[u].st = IF u = t THEN "unlocking" ELSE txn[u].st
<1>1. txn' = [txn EXCEPT ![t].st = "unlocking"]
  BY DEF Unlock, pl_inode_unlock, pl_entry_unlock
<1>2. PICK pc, k, o, ret : work' = [work EXCEPT ![w] = Call(pc, k, "unlock", t, o, ret)]
  <2>1. CASE pl_inode_unlock(w, t)
    BY <2>1 DEF pl_inode_unlock
  <2>2. CASE pl_entry_unlock(w, t)
    BY <2>2 DEF pl_entry_unlock
  <2> QED
    BY ZenonT(30), <2>1, <2>2 DEF Unlock
<1>3. \A u \in Txn : /\ txn'[u].kind = txn[u].kind /\ txn'[u].on = txn[u].on
                     /\ txn'[u].st = IF u = t THEN "unlocking" ELSE txn[u].st
  BY ZenonT(30), <1>1 DEF TypeOK, TxnOn
<1>4. /\ work'[w] = Call(pc, k, "unlock", t, o, ret)
      /\ \A v \in Worker \ {w} : work'[v] = work[v]
  BY ZenonT(30), <1>2, WorkUpdate
<1>5. \A u \in Txn : Tells(w, u)' => Tells(w, u)
  BY <1>4, TellsBegun
<1>6. \A v \in Worker \ {w}, u \in Txn : Tells(v, u)' => Tells(v, u)
  BY ZenonT(30), <1>4, TellsKept
<1>7. Holder(kind)' \subseteq Holder(kind) \cup {}
  BY ZenonT(30), <1>3, <1>5, <1>6, HoldersStay
<1>8. t \notin Holder(kind)'
  BY ZenonT(30), <1>3 DEF Holder
<1> QED
  BY ZenonT(30), <1>3, <1>7, <1>8

-----------------------------------------------------------------------------
(* Each holder has its lock *)

\* Holders keep their inode locks when none leaves the list.
LEMMA DealsKept ==
  ASSUME InodeHeld, Holder("inode")' \subseteq Holder("inode"),
         inodelk_list \subseteq inodelk_list',
         \A t \in Holder("inode")' : txn'[t].on = txn[t].on
  PROVE  InodeHeld'
<1>1. PICK f \in [Holder("inode") -> inodelk_list] : Deals(f)
  BY DEF InodeHeld
<1> DEFINE H == Holder("inode")
           g == [t \in H' |-> f[t]]
<1>2. \A t \in H' : t \in H /\ g[t] = f[t] /\ f[t] \in inodelk_list /\ txn'[t].on = txn[t].on
  OBVIOUS
<1>3. g \in [H' -> inodelk_list']
  BY ZenonT(30), <1>2
<1> HIDE DEF g
<1>4. /\ \A t, u \in H' : g[t] = g[u] => t = u
      /\ \A t \in H' : Asks(g[t], txn'[t].on) /\ (txn'[t].on.type = "WR" => g[t].txn = t)
  BY ZenonT(30), <1>1, <1>2 DEF Deals
<1> QED
  BY ZenonT(30), <1>3, <1>4 DEF InodeHeld, Deals, Asks

\* A transaction whose inode lock is granted has it in the list.
LEMMA DealsGranted ==
  ASSUME InodeHeld, NEW t, NEW lock, lock.txn = t, Asks(lock, txn'[t].on),
         Holder("inode")' \subseteq Holder("inode") \cup {t},
         inodelk_list' = inodelk_list \cup {lock}, \A l \in inodelk_list : l.txn # t,
         \A u \in Holder("inode")' \ {t} : txn'[u].on = txn[u].on
  PROVE  InodeHeld'
<1>1. PICK f \in [Holder("inode") -> inodelk_list] : Deals(f)
  BY ZenonT(30) DEF InodeHeld
<1> DEFINE H == Holder("inode")
           g == [u \in H' |-> IF u = t THEN lock ELSE f[u]]
<1>2. \A u \in H' : /\ u = t => g[u] = lock
                    /\ u # t => u \in H /\ g[u] = f[u] /\ f[u] \in inodelk_list
                                 /\ txn'[u].on = txn[u].on /\ f[u] # lock
  OBVIOUS
<1>3. g \in [H' -> inodelk_list']
  BY ZenonT(30)
<1> HIDE DEF g
<1>4. /\ \A u, v \in H' : g[u] = g[v] => u = v
      /\ \A u \in H' : Asks(g[u], txn'[u].on) /\ (txn'[u].on.type = "WR" => g[u].txn = u)
  BY <1>1, <1>2 DEF Deals
<1> QED
  BY ZenonT(30), <1>3, <1>4 DEF InodeHeld, Deals, Asks

(* An unlock takes any lock with the bounds it names. If that is the lock of
   another transaction, both only read, and the other one gets this one's. *)
LEMMA DealsUnlocked ==
  ASSUME TypeOK, ListInv, InodeHeld, NEW t \in Holder("inode"), txn[t].on \in Region,
         NEW l \in find_matching_inodelk(txn[t].on), inodelk_list' = inodelk_list \ {l},
         Holder("inode")' \subseteq Holder("inode") \ {t},
         \A u \in Holder("inode")' : txn'[u].on = txn[u].on
  PROVE  InodeHeld'
<1>1. PICK f \in [Holder("inode") -> inodelk_list] : Deals(f)
  BY ZenonT(30) DEF InodeHeld
<1> DEFINE H == Holder("inode")
           g == [u \in H' |-> IF f[u] = l THEN f[t] ELSE f[u]]
<1>2. /\ \A u, v \in H : f[u] = f[v] => u = v
      /\ \A u \in H : Asks(f[u], txn[u].on) /\ (txn[u].on.type = "WR" => f[u].txn = u)
      /\ \A u \in H : f[u] \in inodelk_list
  BY ZenonT(30), <1>1 DEF Deals
<1>3. \A u \in H' : u \in H /\ u # t /\ txn'[u].on = txn[u].on
  BY ZenonT(30)
<1>4. g \in [H' -> inodelk_list']
  BY ZenonT(30), <1>2, <1>3
<1>5. \A u \in H' : g[u] = IF f[u] = l THEN f[t] ELSE f[u]
  BY ZenonT(30)
<1> HIDE DEF g
<1>6. \A u, v \in H' : g[u] = g[v] => u = v
  BY ZenonT(30), <1>2, <1>3, <1>5
<1>7. ASSUME NEW u \in H', f[u] = l
      PROVE  l.type = "RD" /\ f[t].type = "RD"
  <2>1. l # f[t] /\ l \in inodelk_list /\ f[t] \in inodelk_list
    BY ZenonT(30), <1>2, <1>3, <1>7 DEF find_matching_inodelk
  <2>2. ~Clash(l, f[t])
    BY ZenonT(30), <2>1 DEF ListInv, InodelkTxnExclusion
  <2>3. /\ l.start = txn[t].on.start /\ l.end = txn[t].on.end
        /\ f[t].start = txn[t].on.start /\ f[t].end = txn[t].on.end
    BY ZenonT(30), <1>2 DEF find_matching_inodelk, Asks
  <2>4. txn[t].on.start \in Nat /\ txn[t].on.end \in Nat /\ txn[t].on.start <= txn[t].on.end
    BY ZenonT(30), RegionAssumption
  <2>5. l.type # "WR" /\ f[t].type # "WR"
    BY ZenonT(30), <2>2, <2>3, <2>4 DEF Clash, inodelk_overlap, inodelk_type_conflict
  <2> QED
    BY ZenonT(30), <2>1, <2>5 DEF TypeOK, InodeLock
<1>8. ASSUME NEW u \in H'
      PROVE  Asks(g[u], txn'[u].on) /\ (txn'[u].on.type = "WR" => g[u].txn = u)
  <2>1. CASE f[u] = l
    <3>1. l.type = "RD" /\ f[t].type = "RD" /\ g[u] = f[t]
      BY ZenonT(30), <1>5, <1>7, <2>1
    <3>2. Asks(l, txn'[u].on)
      BY ZenonT(30), <1>2, <1>3, <2>1
    <3>3. f[t].start = l.start /\ f[t].end = l.end
      BY ZenonT(30), <1>2 DEF find_matching_inodelk, Asks
    <3> QED
      BY ZenonT(30), <3>1, <3>2, <3>3 DEF Asks
  <2>2. CASE f[u] # l
    BY ZenonT(30), <1>2, <1>3, <1>5, <2>2
  <2> QED
    BY ZenonT(30), <2>1, <2>2
<1> QED
  BY ZenonT(30), <1>4, <1>6, <1>8 DEF InodeHeld, Deals, Asks

(* A request that was answered knows what it asked for. *)
KnownKind == \A t \in Txn : txn[t].st \in {"held", "asked"} => txn[t].kind # "none"

HolderInv == KnownKind /\ InodeHeld /\ EntryHeld

\* Holders keep their entry locks when none leaves the list.
LEMMA EntryHeldKept ==
  ASSUME EntryHeld, Holder("entry")' \subseteq Holder("entry"),
         entrylk_list \subseteq entrylk_list',
         \A t \in Holder("entry")' : txn'[t].on = txn[t].on
  PROVE  EntryHeld'
<1>1. \A t \in Holder("entry")' : \E l \in entrylk_list' : l.txn = t /\ l.name = txn'[t].on
  BY DEF EntryHeld
<1> QED
  BY ZenonT(30), <1>1 DEF EntryHeld

\* A transaction whose entry lock is granted has it in the list.
LEMMA EntryHeldGranted ==
  ASSUME EntryHeld, NEW t, NEW lock, lock.txn = t, lock.name = txn'[t].on,
         Holder("entry")' \subseteq Holder("entry") \cup {t},
         entrylk_list' = entrylk_list \cup {lock},
         \A u \in Holder("entry")' \ {t} : txn'[u].on = txn[u].on
  PROVE  EntryHeld'
<1>1. \A u \in Holder("entry")' : \E l \in entrylk_list' : l.txn = u /\ l.name = txn'[u].on
  BY DEF EntryHeld
<1> QED
  BY ZenonT(30), <1>1 DEF EntryHeld

\* A request for an inode lock takes none away.
LEMMA HolderInodelk ==
  ASSUME ~Remote, TypeOK, PlaceInv, HolderInv, NEW w \in Worker, NEW t \in Txn,
         NEW r \in Region, NEW b \in BOOLEAN, pl_inodelk(w, t, r, b)
  PROVE  HolderInv'
<1>1. /\ txn[t].st = "idle" /\ entrylk_list' = entrylk_list
      /\ txn' = [txn EXCEPT ![t] = [st |-> "asked", kind |-> "inode", on |-> r]]
  BY ZenonT(30) DEF pl_inodelk, elk
<1>2. PICK lock \in InodeLock, granted \in BOOLEAN :
        /\ lock.txn = t /\ lock.owner = t /\ Asks(lock, r)
        /\ lock_inodelk(lock, b, granted)
        /\ work' = [work EXCEPT ![w] = Answered("grant", "inode", t, t, granted, b)]
  BY InodelkRequested
<1>3. /\ Holder("inode")' \subseteq Holder("inode") \cup {t}
      /\ t \in Holder("inode")' => granted
      /\ Holder("entry")' \subseteq Holder("entry") \cup {t} /\ t \notin Holder("entry")'
      /\ \A u \in Txn \ {t} : txn'[u] = txn[u]
      /\ txn'[t].kind = "inode" /\ txn'[t].on = r
  <2>1. /\ \A u \in Txn \ {t} : txn'[u] = txn[u]
        /\ txn'[t].st = "asked" /\ txn'[t].kind = "inode" /\ txn'[t].on = r
    BY ZenonT(30), <1>1 DEF TypeOK
  <2>2. /\ work'[w] = Answered("grant", "inode", t, t, granted, b)
        /\ \A v \in Worker \ {w} : work'[v] = work[v]
    BY ZenonT(30), <1>2, WorkUpdate
  <2>3. Taking(w, t, "inode", granted)
    BY ZenonT(30), <1>1, <2>1, <2>2 DEF Taking
  <2>4. /\ Holder("inode")' \subseteq Holder("inode") \cup {t}
        /\ t \in Holder("inode")' => granted
    BY <2>3, RequestHolders
  <2>5. /\ Holder("entry")' \subseteq Holder("entry") \cup {t}
        /\ t \in Holder("entry")' => granted /\ "entry" = "inode"
    BY <2>3, RequestHolders
  <2> QED
    BY <2>1, <2>4, <2>5
<1>4. Holder("inode")' \subseteq Txn /\ Holder("entry")' \subseteq Txn
  BY ZenonT(30) DEF Holder
<1>5. \A l \in inodelk_list : l.txn # t
  BY <1>1 DEF PlaceInv, InodePlaces
<1>6. InodeHeld'
  <2>1. CASE granted
    BY ZenonT(30), <1>2, <1>3, <1>4, <1>5, <2>1, DealsGranted DEF lock_inodelk, HolderInv
  <2>2. CASE ~granted
    BY ZenonT(30), <1>2, <1>3, <1>4, <2>2, DealsKept DEF lock_inodelk, HolderInv
  <2> QED
    BY ZenonT(30), <2>1, <2>2
<1>7. EntryHeld'
  BY ZenonT(30), <1>1, <1>3, <1>4, EntryHeldKept DEF HolderInv
<1>8. KnownKind'
  BY ZenonT(30), <1>3 DEF HolderInv, KnownKind
<1> QED
  BY ZenonT(30), <1>6, <1>7, <1>8 DEF HolderInv

\* A request for an entry lock takes none away.
LEMMA HolderEntrylk ==
  ASSUME ~Remote, TypeOK, PlaceInv, HolderInv, NEW w \in Worker, NEW t \in Txn,
         NEW n \in Name, NEW b \in BOOLEAN, pl_entrylk(w, t, n, b)
  PROVE  HolderInv'
<1>1. /\ txn[t].st = "idle" /\ inodelk_list' = inodelk_list
      /\ txn' = [txn EXCEPT ![t] = [st |-> "asked", kind |-> "entry", on |-> n]]
  BY ZenonT(30) DEF pl_entrylk, ilk
<1>2. PICK lock \in EntryLock, granted \in BOOLEAN :
        /\ lock.txn = t /\ lock.owner = t /\ lock.name = n
        /\ lock_name(lock, b, granted)
        /\ work' = [work EXCEPT ![w] = Answered("unwind", "entry", t, t, granted, b)]
  BY EntrylkRequested
<1>3. /\ Holder("entry")' \subseteq Holder("entry") \cup {t}
      /\ t \in Holder("entry")' => granted
      /\ Holder("inode")' \subseteq Holder("inode") \cup {t} /\ t \notin Holder("inode")'
      /\ \A u \in Txn \ {t} : txn'[u] = txn[u]
      /\ txn'[t].kind = "entry" /\ txn'[t].on = n
  <2>1. /\ \A u \in Txn \ {t} : txn'[u] = txn[u]
        /\ txn'[t].st = "asked" /\ txn'[t].kind = "entry" /\ txn'[t].on = n
    BY ZenonT(30), <1>1 DEF TypeOK
  <2>2. /\ work'[w] = Answered("unwind", "entry", t, t, granted, b)
        /\ \A v \in Worker \ {w} : work'[v] = work[v]
    BY ZenonT(30), <1>2, WorkUpdate
  <2>3. Taking(w, t, "entry", granted)
    BY ZenonT(30), <1>1, <2>1, <2>2 DEF Taking
  <2>4. /\ Holder("entry")' \subseteq Holder("entry") \cup {t}
        /\ t \in Holder("entry")' => granted
    BY <2>3, RequestHolders
  <2>5. /\ Holder("inode")' \subseteq Holder("inode") \cup {t}
        /\ t \in Holder("inode")' => granted /\ "inode" = "entry"
    BY <2>3, RequestHolders
  <2> QED
    BY <2>1, <2>4, <2>5
<1>4. Holder("inode")' \subseteq Txn /\ Holder("entry")' \subseteq Txn
  BY DEF Holder
<1>5. EntryHeld'
  <2>1. CASE granted
    BY <1>2, <1>3, <1>4, <2>1, EntryHeldGranted DEF lock_name, HolderInv
  <2>2. CASE ~granted
    BY ZenonT(30), <1>2, <1>3, <1>4, <2>2, EntryHeldKept DEF lock_name, HolderInv
  <2> QED
    BY <2>1, <2>2
<1>6. InodeHeld'
  BY ZenonT(30), <1>1, <1>3, <1>4, DealsKept DEF HolderInv
<1>7. KnownKind'
  BY ZenonT(30), <1>3 DEF HolderInv, KnownKind
<1> QED
  BY ZenonT(30), <1>5, <1>6, <1>7 DEF HolderInv

\* An unlock takes away the caller's own lock only.
LEMMA HolderUnlock ==
  ASSUME TypeOK, PlaceInv, ListInv, EntrylkExclusion, HolderInv, NEW w \in Worker,
         NEW t \in Txn, Unlock(w, t)
  PROVE  HolderInv'
<1>1. /\ Holder("inode")' \subseteq Holder("inode") \ {t}
      /\ Holder("entry")' \subseteq Holder("entry") \ {t}
      /\ \A u \in Txn : /\ txn'[u].kind = txn[u].kind /\ txn'[u].on = txn[u].on
                        /\ txn'[u].st = IF u = t THEN "unlocking" ELSE txn[u].st
  BY ZenonT(30), UnlockHolders
<1>2. Holder("inode") \subseteq Txn /\ Holder("entry") \subseteq Txn
  BY ZenonT(30) DEF Holder
<1>3. KnownKind'
  BY ZenonT(30), <1>1 DEF HolderInv, KnownKind
<1>4. CASE pl_inode_unlock(w, t)
  <2>1. /\ t \in Holder("inode") /\ entrylk_list' = entrylk_list
    BY ZenonT(30), <1>4 DEF pl_inode_unlock, Holder, elk
  <2>2. txn[t].on \in Region
    BY ZenonT(30), <1>4 DEF pl_inode_unlock, TypeOK, TxnOn
  <2>3. \/ inodelk_list' = inodelk_list
        \/ \E l \in find_matching_inodelk(txn[t].on) : inodelk_list' = inodelk_list \ {l}
    BY <1>4 DEF pl_inode_unlock
  <2>4. InodeHeld'
    <3>1. CASE inodelk_list' = inodelk_list
      BY ZenonT(30), <1>1, <1>2, <3>1, DealsKept DEF HolderInv
    <3>2. ASSUME NEW l \in find_matching_inodelk(txn[t].on), inodelk_list' = inodelk_list \ {l}
          PROVE  InodeHeld'
      BY ZenonT(30), <1>1, <1>2, <2>1, <2>2, <3>2, DealsUnlocked DEF HolderInv
    <3> QED
      BY ZenonT(30), <2>3, <3>1, <3>2
  <2>5. EntryHeld'
    BY ZenonT(30), <1>1, <1>2, <2>1, EntryHeldKept DEF HolderInv
  <2> QED
    BY ZenonT(30), <1>3, <2>4, <2>5 DEF HolderInv
<1>5. CASE pl_entry_unlock(w, t)
  <2>1. /\ t \in Holder("entry") /\ inodelk_list' = inodelk_list
    BY ZenonT(30), <1>5 DEF pl_entry_unlock, Holder, ilk
  <2>2. \/ entrylk_list' = entrylk_list
        \/ \E l \in entrylk_list : l.name = txn[t].on /\ entrylk_list' = entrylk_list \ {l}
    BY ZenonT(30), <1>5 DEF pl_entry_unlock, find_matching_entrylk
  <2>3. PICK own \in entrylk_list : own.txn = t /\ own.name = txn[t].on
    BY ZenonT(30), <2>1 DEF HolderInv, EntryHeld
  <2>4. \A u \in Holder("entry")' : \E l \in entrylk_list' : l.txn = u /\ l.name = txn'[u].on
    <3> TAKE u \in Holder("entry")'
    <3>1. u \in Holder("entry") /\ u # t /\ txn'[u].on = txn[u].on
      BY ZenonT(30), <1>1, <1>2
    <3>2. PICK l \in entrylk_list : l.txn = u /\ l.name = txn[u].on
      BY ZenonT(30), <3>1 DEF HolderInv, EntryHeld
    <3>3. l # own /\ l.name # own.name
      BY ZenonT(30), <2>3, <3>1, <3>2 DEF EntrylkExclusion, names_conflict
    <3> QED
      BY ZenonT(30), <2>2, <2>3, <3>1, <3>2, <3>3
  <2>5. EntryHeld'
    BY ZenonT(30), <2>4 DEF EntryHeld
  <2>6. InodeHeld'
    BY ZenonT(30), <1>1, <1>2, <2>1, DealsKept DEF HolderInv
  <2> QED
    BY ZenonT(30), <1>3, <2>5, <2>6 DEF HolderInv
<1> QED
  BY ZenonT(30), <1>4, <1>5 DEF Unlock

\* The loops over the blocked locks take none away.
LEMMA HolderRetry ==
  ASSUME TypeOK, PlaceInv, HolderInv, NEW w \in Worker,
         grant_blocked_inode_lock(w) \/ grant_blocked_entry_lock(w)
  PROVE  HolderInv'
<1>1. Holder("inode")' \subseteq Txn /\ Holder("entry")' \subseteq Txn /\ UNCHANGED txn
  BY ZenonT(30) DEF Holder, grant_blocked_inode_lock, grant_blocked_entry_lock
<1>2. KnownKind'
  BY ZenonT(30), <1>1 DEF HolderInv, KnownKind
<1>3. CASE grant_blocked_inode_lock(w)
  <2>1. PICK bl \in InodeLock, granted \in BOOLEAN :
          /\ lock_inodelk(bl, TRUE, granted) /\ Asks(bl, txn[bl.txn].on)
          /\ txn[bl.txn].kind = "inode" /\ \A x \in inodelk_list : x.txn # bl.txn
          /\ work'[w].op = work[w].op /\ work'[w].txn = work[w].txn
          /\ work'[w].ret = work[w].ret
          /\ work'[w].granted = (IF granted THEN <<bl>> \o work[w].granted ELSE work[w].granted)
          /\ \A v \in Worker \ {w} : work'[v] = work[v]
    BY ZenonT(30), <1>3, InodeRetried
  <2>2. work[w].granted \in Seq(InodeLock) /\ entrylk_list' = entrylk_list
    BY ZenonT(30), <1>3 DEF grant_blocked_inode_lock, TypeOK, CallOn, elk
  <2>3. /\ Holder("inode")' \subseteq Holder("inode") \cup {bl.txn}
        /\ ~granted => Holder("inode")' \subseteq Holder("inode")
    BY ZenonT(30), <1>1, <2>1, <2>2, RetryHolders
  <2>4. Holder("entry")' \subseteq Holder("entry") \cup {bl.txn}
    BY ZenonT(30), <1>1, <2>1, <2>2, RetryHolders
  <2>5. bl.txn \notin Holder("entry")'
    BY ZenonT(30), <1>1, <2>1 DEF Holder
  <2>6. InodeHeld'
    <3>1. CASE granted
      BY ZenonT(30), <1>1, <2>1, <2>3, <3>1, DealsGranted DEF lock_inodelk, HolderInv
    <3>2. CASE ~granted
      BY ZenonT(30), <1>1, <2>1, <2>3, <3>2, DealsKept DEF lock_inodelk, HolderInv
    <3> QED
      BY ZenonT(30), <3>1, <3>2
  <2>7. EntryHeld'
    BY ZenonT(30), <1>1, <2>2, <2>4, <2>5, EntryHeldKept DEF HolderInv
  <2> QED
    BY ZenonT(30), <1>2, <2>6, <2>7 DEF HolderInv
<1>4. CASE grant_blocked_entry_lock(w)
  <2>1. PICK bl \in EntryLock, granted \in BOOLEAN :
          /\ lock_name(bl, TRUE, granted) /\ bl.name = txn[bl.txn].on
          /\ txn[bl.txn].kind = "entry" /\ \A x \in entrylk_list : x.txn # bl.txn
          /\ work'[w].op = work[w].op /\ work'[w].txn = work[w].txn
          /\ work'[w].ret = work[w].ret
          /\ work'[w].granted = (IF granted THEN <<bl>> \o work[w].granted ELSE work[w].granted)
          /\ \A v \in Worker \ {w} : work'[v] = work[v]
    BY ZenonT(30), <1>4, EntryRetried
  <2>2. work[w].granted \in Seq(EntryLock) /\ inodelk_list' = inodelk_list
    BY ZenonT(30), <1>4 DEF grant_blocked_entry_lock, TypeOK, CallOn, ilk
  <2>3. /\ Holder("entry")' \subseteq Holder("entry") \cup {bl.txn}
        /\ ~granted => Holder("entry")' \subseteq Holder("entry")
    BY ZenonT(30), <1>1, <2>1, <2>2, RetryHolders
  <2>4. Holder("inode")' \subseteq Holder("inode") \cup {bl.txn}
    BY ZenonT(30), <1>1, <2>1, <2>2, RetryHolders
  <2>5. bl.txn \notin Holder("inode")'
    BY ZenonT(30), <1>1, <2>1 DEF Holder
  <2>6. EntryHeld'
    <3>1. CASE granted
      BY ZenonT(30), <1>1, <2>1, <2>3, <3>1, EntryHeldGranted DEF lock_name, HolderInv
    <3>2. CASE ~granted
      BY ZenonT(30), <1>1, <2>1, <2>3, <3>2, EntryHeldKept DEF lock_name, HolderInv
    <3> QED
      BY <3>1, <3>2
  <2>7. InodeHeld'
    BY ZenonT(30), <1>1, <2>2, <2>4, <2>5, DealsKept DEF HolderInv
  <2> QED
    BY ZenonT(30), <1>2, <2>6, <2>7 DEF HolderInv
<1> QED
  BY ZenonT(30), <1>3, <1>4

\* Entering and leaving the loops, and the replies, take none away.
LEMMA HolderReply ==
  ASSUME TypeOK, PlaceInv, HolderInv, NEW w \in Worker,
         grant_enter(w) \/ grant_exit(w) \/ unwind_granted(w) \/ finish(w)
  PROVE  HolderInv'
<1>1. /\ Holder("inode")' \subseteq Holder("inode") /\ Holder("entry")' \subseteq Holder("entry")
      /\ inodelk_list' = inodelk_list /\ entrylk_list' = entrylk_list
      /\ \A u \in Txn : /\ txn'[u].kind = txn[u].kind /\ txn'[u].on = txn[u].on
                        /\ txn'[u].st \in {"held", "asked"} => txn[u].st \in {"held", "asked"}
  BY ZenonT(30), ReplyHolders
<1>2. Holder("inode") \subseteq Txn /\ Holder("entry") \subseteq Txn
  BY DEF Holder
<1>3. InodeHeld'
  BY <1>1, <1>2, DealsKept DEF HolderInv
<1>4. EntryHeld'
  BY <1>1, <1>2, EntryHeldKept DEF HolderInv
<1>5. KnownKind'
  BY <1>1 DEF HolderInv, KnownKind
<1> QED
  BY ZenonT(30), <1>3, <1>4, <1>5 DEF HolderInv

(* A caller in the server's own process that was told it holds a name or a
   region to write does hold it until it asks for the unlock, although
   pl_inodelk and pl_entrylk look for the lock to free by its bounds or its name
   and never by its owner. *)
THEOREM HolderKeepsLock == ~Remote => (Spec => []HeldIsListed)
<1> DEFINE Base == TypeOK /\ PlaceInv /\ ListInv /\ EntrylkExclusion
<1> SUFFICES ASSUME ~Remote PROVE Spec => []HeldIsListed
  OBVIOUS
<1>1. Spec => []Base
  BY LocalInv, EntryExclusion, PTL
<1>2. Init => HolderInv
  <2> SUFFICES ASSUME Init PROVE HolderInv
    OBVIOUS
  <2>1. Holder("inode") = {} /\ Holder("entry") = {}
    BY DEF Init, Holder
  <2>2. InodeHeld
    <3>1. [t \in {} |-> t] \in [Holder("inode") -> inodelk_list] /\ Deals([t \in {} |-> t])
      BY <2>1 DEF Deals
    <3> QED
      BY ZenonT(30), <3>1 DEF InodeHeld
  <2> QED
    BY <2>1, <2>2 DEF Init, HolderInv, EntryHeld, KnownKind
<1>3. Base /\ HolderInv /\ [Next]_vars => HolderInv'
  <2> SUFFICES ASSUME Base, HolderInv, [Next]_vars PROVE HolderInv'
    OBVIOUS
  <2>1. CASE Next
    BY <2>1, LocalSteps, HolderInodelk, HolderEntrylk, HolderUnlock, HolderRetry, HolderReply
  <2>2. CASE UNCHANGED vars
    <3>1. UNCHANGED <<inodelk_list, entrylk_list, txn, work>>
      BY <2>2 DEF vars, dom
    <3>2. Holder("inode")' = Holder("inode") /\ Holder("entry")' = Holder("entry")
      BY <3>1 DEF Holder, Tells
    <3>3. InodeHeld' /\ EntryHeld'
      BY <3>1, <3>2, DealsKept, EntryHeldKept DEF HolderInv
    <3> QED
      BY <3>1, <3>3 DEF HolderInv, KnownKind
  <2> QED
    BY <2>1, <2>2
<1>4. Base /\ HolderInv => HeldIsListed
  <2> SUFFICES ASSUME Base, HolderInv, NEW t \in Txn, txn[t].st = "held"
               PROVE  IF txn[t].kind = "entry" THEN \E l \in entrylk_list : l.txn = t
                      ELSE txn[t].on.type = "WR" => \E l \in inodelk_list : l.txn = t
    BY DEF HeldIsListed
  <2>1. CASE txn[t].kind = "entry"
    BY <2>1 DEF HolderInv, EntryHeld, Holder
  <2>2. CASE txn[t].kind # "entry"
    <3>1. txn[t].kind = "inode"
      BY <2>2 DEF HolderInv, KnownKind, TypeOK, TxnOn
    <3>2. t \in Holder("inode")
      BY <3>1 DEF Holder
    <3>3. PICK f \in [Holder("inode") -> inodelk_list] : Deals(f)
      BY DEF HolderInv, InodeHeld
    <3> QED
      BY <2>2, <3>2, <3>3 DEF Deals
  <2> QED
    BY <2>1, <2>2
<1> QED
  BY <1>1, <1>2, <1>3, <1>4, PTL DEF Spec
=============================================================================
