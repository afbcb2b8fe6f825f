-------------------------- MODULE LockPlaceProofs ---------------------------
(* Where the lock of a transaction in the server's own process is, listed or
   waiting: at one place only. Transactions exclude each other, and nobody
   overtakes one that waits for a name. Requests that come through
   protocol/server are answered with call stacks that are destroyed while the
   lock is held, so none of this holds for them (Remote = TRUE). *)
EXTENDS LockExclusionProofs

-----------------------------------------------------------------------------
(* Where the lock of a transaction can be: listed, or at one place of one
   blocked list, the one of the grant loop included. *)

Distinct(q) == \A i, j \in 1..Len(q) : q[i].txn = q[j].txn => i = j

Apart(p, q) == \A i \in 1..Len(p), j \in 1..Len(q) : p[i].txn # q[j].txn

Asks(l, r) == l.type = r.type /\ l.start = r.start /\ l.end = r.end

InodeWaiter(l) ==
  /\ l.owner = l.txn /\ txn[l.txn].st # "idle" /\ txn[l.txn].kind = "inode"
  /\ Asks(l, txn[l.txn].on)
  /\ \A x \in inodelk_list : x.txn # l.txn

EntryWaiter(l) ==
  /\ l.owner = l.txn /\ txn[l.txn].st # "idle" /\ txn[l.txn].kind = "entry"
  /\ l.name = txn[l.txn].on
  /\ \A x \in entrylk_list : x.txn # l.txn

WorkerOK(w) ==
  /\ work[w].pc # "cleanup" /\ work[w].lockers = {}
  /\ work[w].pc # "loop" => work[w].blocked = <<>>
  /\ work[w].op = "lock" => txn[work[w].txn].st # "idle"
  /\ \A i \in 1..Len(work[w].granted) : txn[work[w].granted[i].txn].st # "idle"
  /\ Distinct(work[w].blocked)
  /\ work[w].kind = "inode" =>
       /\ Apart(work[w].blocked, blocked_inodelks)
       /\ \A i \in 1..Len(work[w].blocked) : InodeWaiter(work[w].blocked[i])
  /\ work[w].kind = "entry" =>
       /\ Apart(work[w].blocked, blocked_entrylks)
       /\ \A i \in 1..Len(work[w].blocked) : EntryWaiter(work[w].blocked[i])

InodePlaces ==
  /\ \A l \in inodelk_list : l.owner = l.txn /\ txn[l.txn].st # "idle"
  /\ Distinct(blocked_inodelks)
  /\ \A i \in 1..Len(blocked_inodelks) : InodeWaiter(blocked_inodelks[i])

EntryPlaces ==
  /\ \A l \in entrylk_list : l.owner = l.txn /\ txn[l.txn].st # "idle"
  /\ Distinct(blocked_entrylks)
  /\ \A i \in 1..Len(blocked_entrylks) : EntryWaiter(blocked_entrylks[i])

PlaceInv ==
  /\ \A c \in Client : connected[c]
  /\ \A w \in Worker : WorkerOK(w)
  /\ InodePlaces /\ EntryPlaces

(* A transaction has one lock at a time, and two have none that clash. *)
ListInv ==
  /\ \A l1, l2 \in inodelk_list : l1.txn = l2.txn => l1 = l2
  /\ InodelkTxnExclusion

(* The thread will tell t that it has its lock. *)
Tells(w, t) ==
  \/ work[w].op = "lock" /\ work[w].ret = 0 /\ work[w].txn = t
  \/ \E i \in 1..Len(work[w].granted) : work[w].granted[i].txn = t

-----------------------------------------------------------------------------
(* Where the locks are *)

\* The locks in the lists and in the hands of threads are those of transactions.
LEMMA Places ==
  ASSUME TypeOK
  PROVE  /\ \A l \in inodelk_list \cup entrylk_list : l.txn \in Txn
         /\ \A i \in 1..Len(blocked_inodelks) : blocked_inodelks[i].txn \in Txn
         /\ \A i \in 1..Len(blocked_entrylks) : blocked_entrylks[i].txn \in Txn
         /\ \A w \in Worker :
              /\ work[w].kind \in {"inode", "entry"}
              /\ work[w].op = "lock" => work[w].txn \in Txn
              /\ \A i \in 1..Len(work[w].blocked) : work[w].blocked[i].txn \in Txn
              /\ \A i \in 1..Len(work[w].granted) : work[w].granted[i].txn \in Txn
<1>1. /\ inodelk_list \subseteq InodeLock /\ blocked_inodelks \in Seq(InodeLock)
      /\ entrylk_list \subseteq EntryLock /\ blocked_entrylks \in Seq(EntryLock)
  BY DEF TypeOK
<1>2. \A l \in InodeLock \cup EntryLock : l.txn \in Txn
  BY DEF InodeLock, EntryLock
<1>3. ASSUME NEW w \in Worker
      PROVE  /\ work[w].kind \in {"inode", "entry"}
             /\ work[w].op = "lock" => work[w].txn \in Txn
             /\ \A i \in 1..Len(work[w].blocked) : work[w].blocked[i].txn \in Txn
             /\ \A i \in 1..Len(work[w].granted) : work[w].granted[i].txn \in Txn
  <2>1. work[w] \in CallOn("inode", InodeLock) \/ work[w] \in CallOn("entry", EntryLock)
    BY DEF TypeOK
  <2>2. work[w].op = "lock" => work[w].txn \in Txn
    BY DEF TypeOK
  <2>3. \/ work[w].blocked \in Seq(InodeLock) /\ work[w].granted \in Seq(InodeLock)
        \/ work[w].blocked \in Seq(EntryLock) /\ work[w].granted \in Seq(EntryLock)
    BY <2>1 DEF CallOn
  <2> QED
    BY <1>2, <2>1, <2>2, <2>3 DEF CallOn
<1> QED
  BY <1>1, <1>2, <1>3

\* The places of a list whose head is taken.
LEMMA TailPlaces ==
  ASSUME NEW S, NEW q \in Seq(S), q # <<>>, Distinct(q)
  PROVE  /\ Head(q) = q[1] /\ Len(q) \in Nat /\ Len(q) >= 1
         /\ Tail(q) \in Seq(S) /\ Len(Tail(q)) = Len(q) - 1
         /\ \A i \in 1..Len(Tail(q)) : i + 1 \in 1..Len(q) /\ Tail(q)[i] = q[i + 1]
         /\ Distinct(Tail(q))
         /\ \A i \in 1..Len(Tail(q)) : Tail(q)[i].txn # Head(q).txn
<1>1. /\ Head(q) = q[1] /\ Len(q) \in Nat /\ Len(q) >= 1
      /\ Tail(q) \in Seq(S) /\ Len(Tail(q)) = Len(q) - 1
      /\ \A i \in 1..Len(Tail(q)) : i + 1 \in 1..Len(q) /\ Tail(q)[i] = q[i + 1]
  OBVIOUS
<1>2. Distinct(Tail(q))
  BY <1>1 DEF Distinct
<1>3. \A i \in 1..Len(Tail(q)) : Tail(q)[i].txn # Head(q).txn
  BY <1>1 DEF Distinct
<1> QED
  BY <1>1, <1>2, <1>3

\* The places of a list a lock is appended to.
LEMMA AppendPlaces ==
  ASSUME NEW S, NEW q \in Seq(S), NEW l \in S, Distinct(q),
         \A i \in 1..Len(q) : q[i].txn # l.txn
  PROVE  /\ Len(q) \in Nat /\ Len(Append(q, l)) = Len(q) + 1
         /\ \A i \in 1..Len(q) : Append(q, l)[i] = q[i]
         /\ Append(q, l)[Len(q) + 1] = l
         /\ Distinct(Append(q, l))
<1>1. /\ Len(q) \in Nat /\ Len(Append(q, l)) = Len(q) + 1
      /\ \A i \in 1..Len(q) : Append(q, l)[i] = q[i]
      /\ Append(q, l)[Len(q) + 1] = l
  OBVIOUS
<1>2. Distinct(Append(q, l))
  BY <1>1 DEF Distinct
<1> QED
  BY <1>1, <1>2

(* A transaction asks once: what it asked for stays. *)
Progress ==
  \A t \in Txn : txn[t].st # "idle" =>
    txn'[t].st # "idle" /\ txn'[t].kind = txn[t].kind /\ txn'[t].on = txn[t].on

\* An inode lock that waits is one that waits after a step of another.
LEMMA InodeWaiterStays ==
  ASSUME NEW l, l.txn \in Txn, InodeWaiter(l), Progress,
         \A x \in inodelk_list' : x \in inodelk_list \/ x.txn # l.txn
  PROVE  InodeWaiter(l)'
BY DEF InodeWaiter, Progress, Asks

\* The same for an entry lock.
LEMMA EntryWaiterStays ==
  ASSUME NEW l, l.txn \in Txn, EntryWaiter(l), Progress,
         \A x \in entrylk_list' : x \in entrylk_list \/ x.txn # l.txn
  PROVE  EntryWaiter(l)'
BY ZenonT(30) DEF EntryWaiter, Progress

(* A thread that is not in its grant loop has no lock to retry. *)
LEMMA OutsideLoop ==
  ASSUME TypeOK, NEW v \in Worker, WorkerOK(v), work'[v] = work[v],
         work[v].pc # "loop", Progress
  PROVE  WorkerOK(v)'
<1>1. work[v].blocked = <<>> /\ Len(work[v].blocked) = 0
  BY EmptySeqs DEF WorkerOK
<1>2. \A i : i \notin 1..Len(work[v].blocked)
  BY <1>1
<1>3. work'[v].op = "lock" => txn'[work'[v].txn].st # "idle"
  BY ZenonT(30), Places DEF WorkerOK, Progress
<1>4. \A i \in 1..Len(work'[v].granted) : txn'[work'[v].granted[i].txn].st # "idle"
  BY Places DEF WorkerOK, Progress
<1> QED
  BY ZenonT(30), <1>1, <1>2, <1>3, <1>4 DEF WorkerOK, Distinct, Apart

(* A thread that has begun a call has nothing to retry and nobody to tell. *)
LEMMA BegunCall ==
  ASSUME NEW w \in Worker, NEW pc, NEW kind, NEW op, NEW t, NEW f, NEW ret,
         work'[w] = Call(pc, kind, op, t, f, ret), pc # "cleanup",
         op = "lock" => txn'[t].st # "idle"
  PROVE  WorkerOK(w)'
<1>1. /\ work'[w].pc = pc /\ work'[w].op = op /\ work'[w].txn = t
      /\ work'[w].blocked = <<>> /\ work'[w].granted = <<>> /\ work'[w].lockers = {}
  BY DEF Call
<1>2. Len(<<>>) = 0
  OBVIOUS
<1> QED
  BY <1>1, <1>2 DEF WorkerOK, Distinct, Apart

(* Nobody else is in a grant loop while the mutex is free or one's own. *)
LEMMA LoopAlone ==
  ASSUME TypeOK, NEW w \in Worker, mutex = NoWorker \/ mutex = w
  PROVE  \A v \in Worker \ {w} : work[v].pc # "loop"
BY FreshAssumption DEF TypeOK

\* What Answered is: a call that carries the lock only if it was granted.
LEMMA AnsweredCall ==
  ASSUME NEW pc, NEW kind, NEW t, NEW o, NEW granted, NEW b
  PROVE  \E op, u, f, ret : /\ Answered(pc, kind, t, o, granted, b) = Call(pc, kind, op, u, f, ret)
                            /\ op = "lock" => u = t
                            /\ op = "lock" /\ ret = 0 => granted
<1>1. CASE ~granted /\ b
  <2>1. Answered(pc, kind, t, o, granted, b) = Call(pc, kind, "blocked", NoTxn, NoTxn, 0)
    BY <1>1 DEF Answered
  <2> QED
    BY <2>1
<1>2. CASE ~(~granted /\ b)
  <2>1. Answered(pc, kind, t, o, granted, b)
          = Call(pc, kind, "lock", t, o, IF granted THEN 0 ELSE 1)
    BY <1>2 DEF Answered
  <2> QED
    BY <2>1
<1> QED
  BY <1>1, <1>2

\* What a request for an inode lock does.
LEMMA InodelkRequested ==
  ASSUME ~Remote, NEW w \in Worker, NEW t \in Txn, NEW r \in Region, NEW b \in BOOLEAN,
         pl_inodelk(w, t, r, b)
  PROVE  \E lock \in InodeLock, granted \in BOOLEAN :
           /\ lock.txn = t /\ lock.owner = t /\ Asks(lock, r)
           /\ granted => inodelk_grantable(lock)
           /\ lock_inodelk(lock, b, granted)
           /\ work' = [work EXCEPT ![w] = Answered("grant", "inode", t, t, granted, b)]
<1>1. PICK has \in BOOLEAN :
        LET lock == [txn |-> t, client |-> Home[t], owner |-> t, type |-> r.type,
                     start |-> r.start, end |-> r.end]
            granted == inodelk_granted(lock, has)
        IN /\ lock_inodelk(lock, b, granted)
           /\ work' = [work EXCEPT ![w] = Answered("grant", "inode", t, t, granted, b)]
  BY ZenonT(30) DEF pl_inodelk, OwnerOf, inodelk_owner_has_lock
<1> DEFINE lock == [txn |-> t, client |-> Home[t], owner |-> t, type |-> r.type,
                    start |-> r.start, end |-> r.end]
           granted == inodelk_granted(lock, has)
<1>2. /\ lock_inodelk(lock, b, granted)
      /\ work' = [work EXCEPT ![w] = Answered("grant", "inode", t, t, granted, b)]
  BY <1>1
<1>3. lock \in InodeLock /\ lock.txn = t /\ lock.owner = t /\ Asks(lock, r)
  BY ConstantTypes DEF InodeLock, Asks
<1>4. granted \in BOOLEAN /\ (granted => inodelk_grantable(lock))
  BY DEF inodelk_granted, inodelk_grantable
<1> HIDE DEF lock, granted
<1> QED
  BY ZenonT(30), <1>2, <1>3, <1>4

\* What a request for an entry lock does.
LEMMA EntrylkRequested ==
  ASSUME ~Remote, NEW w \in Worker, NEW t \in Txn, NEW n \in Name, NEW b \in BOOLEAN,
         pl_entrylk(w, t, n, b)
  PROVE  \E lock \in EntryLock, granted \in BOOLEAN :
           /\ lock.txn = t /\ lock.owner = t /\ lock.name = n
           /\ granted => entrylk_granted(lock)
           /\ lock_name(lock, b, granted)
           /\ work' = [work EXCEPT ![w] = Answered("unwind", "entry", t, t, granted, b)]
<1> DEFINE lock == [txn |-> t, client |-> Home[t], owner |-> t, name |-> n]
           granted == entrylk_granted(lock)
<1>2. /\ lock_name(lock, b, granted)
      /\ work' = [work EXCEPT ![w] = Answered("unwind", "entry", t, t, granted, b)]
  BY DEF pl_entrylk, OwnerOf
<1>3. lock \in EntryLock /\ lock.txn = t /\ lock.owner = t /\ lock.name = n
  BY ZenonT(30), ConstantTypes DEF EntryLock
<1>4. granted \in BOOLEAN
  BY DEF entrylk_granted, entrylk_grantable
<1> HIDE DEF lock
<1>5. granted => entrylk_granted(lock)
  OBVIOUS
<1> HIDE DEF granted
<1> QED
  BY ZenonT(30), <1>2, <1>3, <1>4, <1>5

(* __lock_inodelk with the lock of a transaction that has no other place *)
LEMMA InodeTaken ==
  ASSUME TypeOK, InodePlaces, Progress, NEW lock \in InodeLock, NEW b \in BOOLEAN,
         NEW granted \in BOOLEAN, lock_inodelk(lock, b, granted),
         lock.owner = lock.txn, txn'[lock.txn].st # "idle",
         txn'[lock.txn].kind = "inode", Asks(lock, txn'[lock.txn].on),
         \A l \in inodelk_list : l.txn # lock.txn,
         \A i \in 1..Len(blocked_inodelks) : blocked_inodelks[i].txn # lock.txn
  PROVE  InodePlaces'
<1>1. CASE granted
  <2>1. inodelk_list' = inodelk_list \cup {lock} /\ blocked_inodelks' = blocked_inodelks
    BY ZenonT(30), <1>1 DEF lock_inodelk
  <2>2. \A l \in inodelk_list' : l.owner = l.txn /\ txn'[l.txn].st # "idle"
    BY ZenonT(30), <2>1, Places DEF InodePlaces, Progress
  <2>3. \A i \in 1..Len(blocked_inodelks) :
          \A l : l = blocked_inodelks[i] => InodeWaiter(l)'
    BY <2>1, Places, InodeWaiterStays DEF InodePlaces
  <2> QED
    BY <2>1, <2>2, <2>3 DEF InodePlaces
<1>2. CASE ~granted
  <2>1. /\ inodelk_list' = inodelk_list
        /\ blocked_inodelks' = IF b THEN Append(blocked_inodelks, lock) ELSE blocked_inodelks
    BY ZenonT(30), <1>2 DEF lock_inodelk
  <2>2. \A l \in inodelk_list' : l.owner = l.txn /\ txn'[l.txn].st # "idle"
    BY ZenonT(30), <2>1, Places DEF InodePlaces, Progress
  <2>3. \A i \in 1..Len(blocked_inodelks) :
          \A l : l = blocked_inodelks[i] => InodeWaiter(l)'
    BY ZenonT(30), <2>1, Places, InodeWaiterStays DEF InodePlaces
  <2>4. InodeWaiter(lock)'
    BY ZenonT(30), <2>1 DEF InodeWaiter, Asks
  <2>5. blocked_inodelks \in Seq(InodeLock) /\ Distinct(blocked_inodelks)
    BY ZenonT(30) DEF TypeOK, InodePlaces
  <2>6. CASE b
    <3>1. /\ Len(blocked_inodelks) \in Nat /\ Len(blocked_inodelks') = Len(blocked_inodelks) + 1
          /\ \A i \in 1..Len(blocked_inodelks) : blocked_inodelks'[i] = blocked_inodelks[i]
          /\ blocked_inodelks'[Len(blocked_inodelks) + 1] = lock
          /\ Distinct(blocked_inodelks')
      BY <2>1, <2>5, <2>6, AppendPlaces
    <3>2. \A i \in 1..Len(blocked_inodelks') : \A l : l = blocked_inodelks'[i] => InodeWaiter(l)'
      BY <2>3, <2>4, <3>1
    <3> QED
      BY ZenonT(30), <2>2, <3>1, <3>2 DEF InodePlaces
  <2>7. CASE ~b
    BY ZenonT(30), <2>1, <2>2, <2>3, <2>5, <2>7 DEF InodePlaces
  <2> QED
    BY <2>6, <2>7
<1> QED
  BY <1>1, <1>2

\* Locks that leave the list disturb no place.
LEMMA InodeKept ==
  ASSUME TypeOK, InodePlaces, Progress, inodelk_list' \subseteq inodelk_list, UNCHANGED blocked_inodelks
  PROVE  InodePlaces'
<1>1. \A l \in inodelk_list' : l.owner = l.txn /\ txn'[l.txn].st # "idle"
  BY ZenonT(30), Places DEF InodePlaces, Progress
<1>2. \A i \in 1..Len(blocked_inodelks) : \A l : l = blocked_inodelks[i] => InodeWaiter(l)'
  BY Places, InodeWaiterStays DEF InodePlaces
<1> QED
  BY <1>1, <1>2 DEF InodePlaces

(* __lock_name with the lock of a transaction that has no other place *)
LEMMA EntryTaken ==
  ASSUME TypeOK, EntryPlaces, Progress, NEW lock \in EntryLock, NEW b \in BOOLEAN,
         NEW granted \in BOOLEAN, lock_name(lock, b, granted),
         lock.owner = lock.txn, txn'[lock.txn].st # "idle",
         txn'[lock.txn].kind = "entry", lock.name = txn'[lock.txn].on,
         \A l \in entrylk_list : l.txn # lock.txn,
         \A i \in 1..Len(blocked_entrylks) : blocked_entrylks[i].txn # lock.txn
  PROVE  EntryPlaces'
<1>1. CASE granted
  <2>1. entrylk_list' = entrylk_list \cup {lock} /\ blocked_entrylks' = blocked_entrylks
    BY ZenonT(30), <1>1 DEF lock_name
  <2>2. \A l \in entrylk_list' : l.owner = l.txn /\ txn'[l.txn].st # "idle"
    BY ZenonT(30), <2>1, Places DEF EntryPlaces, Progress
  <2>3. \A i \in 1..Len(blocked_entrylks) :
          \A l : l = blocked_entrylks[i] => EntryWaiter(l)'
    BY ZenonT(30), <2>1, Places, EntryWaiterStays DEF EntryPlaces
  <2> QED
    BY ZenonT(30), <2>1, <2>2, <2>3 DEF EntryPlaces
<1>2. CASE ~granted
  <2>1. /\ entrylk_list' = entrylk_list
        /\ blocked_entrylks' = IF b THEN Append(blocked_entrylks, lock) ELSE blocked_entrylks
    BY ZenonT(30), <1>2 DEF lock_name
  <2>2. \A l \in entrylk_list' : l.owner = l.txn /\ txn'[l.txn].st # "idle"
    BY ZenonT(30), <2>1, Places DEF EntryPlaces, Progress
  <2>3. \A i \in 1..Len(blocked_entrylks) :
          \A l : l = blocked_entrylks[i] => EntryWaiter(l)'
    BY ZenonT(30), <2>1, Places, EntryWaiterStays DEF EntryPlaces
  <2>4. EntryWaiter(lock)'
    BY ZenonT(30), <2>1 DEF EntryWaiter
  <2>5. blocked_entrylks \in Seq(EntryLock) /\ Distinct(blocked_entrylks)
    BY ZenonT(30) DEF TypeOK, EntryPlaces
  <2>6. CASE b
    <3>1. /\ Len(blocked_entrylks) \in Nat /\ Len(blocked_entrylks') = Len(blocked_entrylks) + 1
          /\ \A i \in 1..Len(blocked_entrylks) : blocked_entrylks'[i] = blocked_entrylks[i]
          /\ blocked_entrylks'[Len(blocked_entrylks) + 1] = lock
          /\ Distinct(blocked_entrylks')
      BY <2>1, <2>5, <2>6, AppendPlaces
    <3>2. \A i \in 1..Len(blocked_entrylks') : \A l : l = blocked_entrylks'[i] => EntryWaiter(l)'
      BY <2>3, <2>4, <3>1
    <3> QED
      BY ZenonT(30), <2>2, <3>1, <3>2 DEF EntryPlaces
  <2>7. CASE ~b
    BY ZenonT(30), <2>1, <2>2, <2>3, <2>5, <2>7 DEF EntryPlaces
  <2> QED
    BY ZenonT(30), <2>6, <2>7
<1> QED
  BY ZenonT(30), <1>1, <1>2

\* The same for entry locks.
LEMMA EntryKept ==
  ASSUME TypeOK, EntryPlaces, Progress, entrylk_list' \subseteq entrylk_list, UNCHANGED blocked_entrylks
  PROVE  EntryPlaces'
<1>1. \A l \in entrylk_list' : l.owner = l.txn /\ txn'[l.txn].st # "idle"
  BY ZenonT(30), Places DEF EntryPlaces, Progress
<1>2. \A i \in 1..Len(blocked_entrylks) : \A l : l = blocked_entrylks[i] => EntryWaiter(l)'
  BY Places, EntryWaiterStays DEF EntryPlaces
<1> QED
  BY <1>1, <1>2 DEF EntryPlaces

(* A new request is the only place of its transaction. *)
LEMMA PlaceInodelk ==
  ASSUME ~Remote, TypeOK, PlaceInv, NEW w \in Worker, NEW t \in Txn, NEW r \in Region,
         NEW b \in BOOLEAN, pl_inodelk(w, t, r, b)
  PROVE  PlaceInv' /\ Progress
<1>1. /\ txn[t].st = "idle" /\ mutex = NoWorker
      /\ txn' = [txn EXCEPT ![t] = [st |-> "asked", kind |-> "inode", on |-> r]]
      /\ UNCHANGED <<entrylk_list, blocked_entrylks, connected>>
  BY ZenonT(30) DEF pl_inodelk, Ready, elk
<1>2. PICK lock \in InodeLock, granted \in BOOLEAN :
        /\ lock.txn = t /\ lock.owner = t /\ Asks(lock, r)
        /\ lock_inodelk(lock, b, granted)
        /\ work' = [work EXCEPT ![w] = Answered("grant", "inode", t, t, granted, b)]
  BY InodelkRequested
<1>3. PICK op, u, f, ret : /\ Answered("grant", "inode", t, t, granted, b)
                                = Call("grant", "inode", op, u, f, ret)
                           /\ op = "lock" => u = t
  BY AnsweredCall
<1>4. txn'[t].st = "asked" /\ txn'[t].kind = "inode" /\ txn'[t].on = r /\ Progress
  BY <1>1 DEF TypeOK, Progress
<1>5. /\ work'[w] = Call("grant", "inode", op, u, f, ret)
      /\ \A v \in Worker \ {w} : work'[v] = work[v]
  BY ZenonT(30), <1>2, <1>3, WorkUpdate
<1>6. \A v \in Worker : WorkerOK(v)'
  <2>1. WorkerOK(w)'
    BY ZenonT(30), <1>3, <1>4, <1>5, BegunCall
  <2>2. \A v \in Worker \ {w} : WorkerOK(v)'
    BY ZenonT(30), <1>1, <1>4, <1>5, LoopAlone, OutsideLoop DEF PlaceInv
  <2> QED
    BY ZenonT(30), <2>1, <2>2
<1>7. /\ \A l \in inodelk_list : l.txn # t
      /\ \A i \in 1..Len(blocked_inodelks) : blocked_inodelks[i].txn # t
  BY ZenonT(30), <1>1 DEF PlaceInv, InodePlaces, InodeWaiter
<1>8. InodePlaces'
  BY ZenonT(30), <1>2, <1>4, <1>7, InodeTaken DEF PlaceInv, Asks
<1>9. EntryPlaces'
  BY ZenonT(30), <1>1, <1>4, EntryKept DEF PlaceInv
<1> QED
  BY ZenonT(30), <1>1, <1>4, <1>6, <1>8, <1>9 DEF PlaceInv

\* A request for an entry lock keeps the places.
LEMMA PlaceEntrylk ==
  ASSUME ~Remote, TypeOK, PlaceInv, NEW w \in Worker, NEW t \in Txn, NEW n \in Name,
         NEW b \in BOOLEAN, pl_entrylk(w, t, n, b)
  PROVE  PlaceInv' /\ Progress
<1>1. /\ txn[t].st = "idle" /\ mutex = NoWorker
      /\ txn' = [txn EXCEPT ![t] = [st |-> "asked", kind |-> "entry", on |-> n]]
      /\ UNCHANGED <<inodelk_list, blocked_inodelks, connected>>
  BY DEF pl_entrylk, Ready, ilk
<1>2. PICK lock \in EntryLock, granted \in BOOLEAN :
        /\ lock.txn = t /\ lock.owner = t /\ lock.name = n
        /\ lock_name(lock, b, granted)
        /\ work' = [work EXCEPT ![w] = Answered("unwind", "entry", t, t, granted, b)]
  BY EntrylkRequested
<1>3. PICK op, u, f, ret : /\ Answered("unwind", "entry", t, t, granted, b)
                                = Call("unwind", "entry", op, u, f, ret)
                           /\ op = "lock" => u = t
  BY AnsweredCall
<1>4. txn'[t].st = "asked" /\ txn'[t].kind = "entry" /\ txn'[t].on = n /\ Progress
  BY <1>1 DEF TypeOK, Progress
<1>5. /\ work'[w] = Call("unwind", "entry", op, u, f, ret)
      /\ \A v \in Worker \ {w} : work'[v] = work[v]
  BY ZenonT(30), <1>2, <1>3, WorkUpdate
<1>6. \A v \in Worker : WorkerOK(v)'
  <2>1. WorkerOK(w)'
    BY ZenonT(30), <1>3, <1>4, <1>5, BegunCall
  <2>2. \A v \in Worker \ {w} : WorkerOK(v)'
    BY ZenonT(30), <1>1, <1>4, <1>5, LoopAlone, OutsideLoop DEF PlaceInv
  <2> QED
    BY <2>1, <2>2
<1>7. /\ \A l \in entrylk_list : l.txn # t
      /\ \A i \in 1..Len(blocked_entrylks) : blocked_entrylks[i].txn # t
  BY ZenonT(30), <1>1 DEF PlaceInv, EntryPlaces, EntryWaiter
<1>8. EntryPlaces'
  BY ZenonT(30), <1>2, <1>4, <1>7, EntryTaken DEF PlaceInv
<1>9. InodePlaces'
  BY ZenonT(30), <1>1, <1>4, InodeKept DEF PlaceInv
<1> QED
  BY ZenonT(30), <1>1, <1>4, <1>6, <1>8, <1>9 DEF PlaceInv

(* Replies change no more than the state of a transaction. *)
LEMMA StateChanges ==
  ASSUME TypeOK, NEW t \in Txn, NEW x, x # "idle", txn' = [txn EXCEPT ![t].st = x]
  PROVE  /\ Progress
         /\ \A u \in Txn : /\ txn'[u].kind = txn[u].kind /\ txn'[u].on = txn[u].on
                           /\ txn'[u].st = IF u = t THEN x ELSE txn[u].st
BY DEF TypeOK, Progress, TxnOn

\* An unlock keeps the places.
LEMMA PlaceUnlock ==
  ASSUME TypeOK, PlaceInv, NEW w \in Worker, NEW t \in Txn, Unlock(w, t)
  PROVE  PlaceInv' /\ Progress
<1>1. /\ mutex = NoWorker /\ txn' = [txn EXCEPT ![t].st = "unlocking"]
      /\ inodelk_list' \subseteq inodelk_list /\ entrylk_list' \subseteq entrylk_list
      /\ UNCHANGED <<blocked_inodelks, blocked_entrylks, connected>>
  BY DEF Unlock, pl_inode_unlock, pl_entry_unlock, Ready, ilk, elk
<1>2. PICK pc, kind, o, ret :
        /\ pc \in {"grant", "unwind"}
        /\ work' = [work EXCEPT ![w] = Call(pc, kind, "unlock", t, o, ret)]
  <2>1. CASE pl_inode_unlock(w, t)
    BY <2>1 DEF pl_inode_unlock
  <2>2. CASE pl_entry_unlock(w, t)
    BY <2>2 DEF pl_entry_unlock
  <2> QED
    BY <2>1, <2>2 DEF Unlock
<1>3. Progress
  BY ZenonT(30), <1>1, StateChanges
<1>4. /\ work'[w] = Call(pc, kind, "unlock", t, o, ret)
      /\ \A v \in Worker \ {w} : work'[v] = work[v]
  BY ZenonT(30), <1>2, WorkUpdate
<1>5. WorkerOK(w)'
  BY SMTT(30), <1>2, <1>4, BegunCall
<1>6. \A v \in Worker \ {w} : WorkerOK(v)'
  BY ZenonT(30), <1>1, <1>3, <1>4, LoopAlone, OutsideLoop DEF PlaceInv
<1>7. InodePlaces' /\ EntryPlaces'
  BY ZenonT(30), <1>1, <1>3, InodeKept, EntryKept DEF PlaceInv
<1> QED
  BY ZenonT(30), <1>1, <1>3, <1>5, <1>6, <1>7 DEF PlaceInv

\* A thread that takes the blocked list over keeps the places.
LEMMA PlaceEnter ==
  ASSUME TypeOK, PlaceInv, NEW w \in Worker, grant_enter(w)
  PROVE  PlaceInv' /\ Progress
<1>1. /\ mutex = NoWorker /\ UNCHANGED <<inodelk_list, entrylk_list, connected, txn>>
  BY ZenonT(30) DEF grant_enter
<1>2. Progress
  BY ZenonT(30), <1>1 DEF Progress
<1>3. work[w] \in CallOn("inode", InodeLock) \/ work[w] \in CallOn("entry", EntryLock)
  BY DEF TypeOK
<1>4. \A v \in Worker \ {w} : work'[v] = work[v]
  BY ZenonT(30) DEF grant_enter, TypeOK
<1>5. \A v \in Worker \ {w} : WorkerOK(v)'
  BY ZenonT(30), <1>1, <1>2, <1>4, LoopAlone, OutsideLoop DEF PlaceInv
<1>6. ASSUME NEW q, work' = [work EXCEPT ![w].pc = "loop", ![w].blocked = q]
      PROVE  /\ work'[w].pc = "loop" /\ work'[w].blocked = q /\ work'[w].kind = work[w].kind
             /\ work'[w].op = work[w].op /\ work'[w].txn = work[w].txn
             /\ work'[w].granted = work[w].granted /\ work'[w].lockers = work[w].lockers
  BY ZenonT(30), <1>3, <1>6 DEF TypeOK, CallOn
<1>7. CASE work[w].kind = "inode"
  <2>1. /\ work' = [work EXCEPT ![w].pc = "loop", ![w].blocked = blocked_inodelks]
        /\ blocked_inodelks' = <<>> /\ UNCHANGED blocked_entrylks
    BY ZenonT(30), <1>7 DEF grant_enter
  <2>2. \A i \in 1..Len(blocked_inodelks) : \A l : l = blocked_inodelks[i] => InodeWaiter(l)'
    BY <1>1, <1>2, Places, InodeWaiterStays DEF PlaceInv, InodePlaces
  <2>3. Len(<<>>) = 0
    BY ZenonT(30)
  <2>4. WorkerOK(w)'
    <3>1. /\ work'[w].pc = "loop" /\ work'[w].blocked = blocked_inodelks
          /\ work'[w].kind = "inode" /\ work'[w].op = work[w].op /\ work'[w].txn = work[w].txn
          /\ work'[w].granted = work[w].granted /\ work'[w].lockers = work[w].lockers
      BY ZenonT(30), <1>6, <1>7, <2>1
    <3>2. WorkerOK(w) /\ Distinct(blocked_inodelks)
      BY DEF PlaceInv, InodePlaces
    <3>3. Apart(work'[w].blocked, blocked_inodelks')
      BY <2>1, <2>3 DEF Apart
    <3>4. \A i \in 1..Len(work'[w].blocked) :
            \A l : l = work'[w].blocked[i] => InodeWaiter(l)'
      BY ZenonT(30), <2>2, <3>1
    <3>5. /\ work'[w].op = "lock" => txn'[work'[w].txn].st # "idle"
          /\ \A i \in 1..Len(work'[w].granted) : txn'[work'[w].granted[i].txn].st # "idle"
          /\ work'[w].lockers = {}
      BY SMTT(30), <1>1, <3>1, <3>2 DEF WorkerOK
    <3> QED
      BY ZenonT(30), <3>1, <3>2, <3>3, <3>4, <3>5 DEF WorkerOK
  <2>5. InodePlaces'
    BY <1>1, <2>1, <2>3 DEF PlaceInv, InodePlaces, Distinct
  <2>6. EntryPlaces'
    BY ZenonT(30), <1>1, <1>2, <2>1, EntryKept DEF PlaceInv
  <2> QED
    BY ZenonT(30), <1>1, <1>2, <1>5, <2>4, <2>5, <2>6 DEF PlaceInv
<1>8. CASE work[w].kind = "entry"
  <2>1. /\ work' = [work EXCEPT ![w].pc = "loop", ![w].blocked = blocked_entrylks]
        /\ blocked_entrylks' = <<>> /\ UNCHANGED blocked_inodelks
    BY ZenonT(30), <1>8 DEF grant_enter
  <2>2. \A i \in 1..Len(blocked_entrylks) : \A l : l = blocked_entrylks[i] => EntryWaiter(l)'
    BY ZenonT(30), <1>1, <1>2, Places, EntryWaiterStays DEF PlaceInv, EntryPlaces
  <2>3. Len(<<>>) = 0
    OBVIOUS
  <2>4. WorkerOK(w)'
    <3>1. /\ work'[w].pc = "loop" /\ work'[w].blocked = blocked_entrylks
          /\ work'[w].kind = "entry" /\ work'[w].op = work[w].op /\ work'[w].txn = work[w].txn
          /\ work'[w].granted = work[w].granted /\ work'[w].lockers = work[w].lockers
      BY ZenonT(30), <1>6, <1>8, <2>1
    <3>2. WorkerOK(w) /\ Distinct(blocked_entrylks)
      BY ZenonT(30) DEF PlaceInv, EntryPlaces
    <3>3. Apart(work'[w].blocked, blocked_entrylks')
      BY <2>1, <2>3 DEF Apart
    <3>4. \A i \in 1..Len(work'[w].blocked) :
            \A l : l = work'[w].blocked[i] => EntryWaiter(l)'
      BY ZenonT(30), <2>2, <3>1
    <3>5. /\ work'[w].op = "lock" => txn'[work'[w].txn].st # "idle"
          /\ \A i \in 1..Len(work'[w].granted) : txn'[work'[w].granted[i].txn].st # "idle"
          /\ work'[w].lockers = {}
      BY SMTT(30), <1>1, <3>1, <3>2 DEF WorkerOK
    <3> QED
      BY SMTT(30), <3>1, <3>2, <3>3, <3>4, <3>5 DEF WorkerOK
  <2>5. EntryPlaces'
    BY <1>1, <2>1, <2>3 DEF PlaceInv, EntryPlaces, Distinct
  <2>6. InodePlaces'
    BY <1>1, <1>2, <2>1, InodeKept DEF PlaceInv
  <2> QED
    BY ZenonT(30), <1>1, <1>2, <1>5, <2>4, <2>5, <2>6 DEF PlaceInv
<1> QED
  BY <1>3, <1>7, <1>8 DEF CallOn

\* The places of a list with a new head.
LEMMA Prepended ==
  ASSUME NEW S, NEW q \in Seq(S), NEW l \in S
  PROVE  /\ Len(<<l>> \o q) = Len(q) + 1 /\ Len(q) \in Nat /\ (<<l>> \o q)[1] = l
         /\ \A i \in 1..Len(q) : (<<l>> \o q)[i + 1] = q[i]
OBVIOUS

(* The grant loop retries the lock of a transaction that has no other place. *)
LEMMA InodeRetried ==
  ASSUME TypeOK, PlaceInv, NEW w \in Worker, grant_blocked_inode_lock(w)
  PROVE  \E bl \in InodeLock, granted \in BOOLEAN :
           /\ work[w].blocked # <<>> /\ bl = Head(work[w].blocked)
           /\ granted => inodelk_grantable(bl)
           /\ lock_inodelk(bl, TRUE, granted)
           /\ bl.owner = bl.txn /\ txn[bl.txn].st # "idle" /\ txn[bl.txn].kind = "inode"
           /\ Asks(bl, txn[bl.txn].on) /\ \A x \in inodelk_list : x.txn # bl.txn
           /\ \A i \in 1..Len(blocked_inodelks) : blocked_inodelks[i].txn # bl.txn
           /\ bl.txn \in Txn
           /\ work'[w].pc = "loop" /\ work'[w].kind = "inode"
           /\ work'[w].blocked = Tail(work[w].blocked)
           /\ work'[w].op = work[w].op /\ work'[w].txn = work[w].txn
           /\ work'[w].ret = work[w].ret
           /\ work'[w].granted = (IF granted THEN <<bl>> \o work[w].granted ELSE work[w].granted)
           /\ work'[w].lockers = work[w].lockers
           /\ \A v \in Worker \ {w} : work'[v] = work[v]
<1> DEFINE head == Head(work[w].blocked)
           q == work[w].blocked
<1>1. PICK granted \in BOOLEAN :
        /\ granted => inodelk_grantable(head)
        /\ lock_inodelk(head, TRUE, granted)
        /\ work' = [work EXCEPT ![w].blocked = Tail(@), ![w].granted =
                       IF granted THEN <<head>> \o @ ELSE @]
  BY ZenonT(30) DEF grant_blocked_inode_lock, inodelk_granted, inodelk_grantable
<1>2. work[w].pc = "loop" /\ work[w].kind = "inode" /\ q # <<>>
  BY ZenonT(30) DEF grant_blocked_inode_lock
<1>3. work[w] \in CallOn("inode", InodeLock)
  BY ZenonT(30), <1>2 DEF TypeOK, CallOn
<1>4. q \in Seq(InodeLock)
  BY <1>3 DEF CallOn
<1>5. head = q[1] /\ 1 \in 1..Len(q) /\ head \in InodeLock
  BY <1>2, <1>4
<1>6. /\ head.owner = head.txn /\ txn[head.txn].st # "idle" /\ txn[head.txn].kind = "inode"
      /\ Asks(head, txn[head.txn].on) /\ \A x \in inodelk_list : x.txn # head.txn
      /\ \A i \in 1..Len(blocked_inodelks) : blocked_inodelks[i].txn # head.txn
      /\ head.txn \in Txn
  <2>1. InodeWaiter(head) /\ Apart(q, blocked_inodelks)
    BY ZenonT(30), <1>2, <1>5 DEF PlaceInv, WorkerOK
  <2>2. head.txn \in Txn
    BY ZenonT(30), <1>5, Places
  <2> QED
    BY ZenonT(30), <1>5, <2>1, <2>2 DEF InodeWaiter, Apart
<1>7. /\ work'[w].pc = "loop" /\ work'[w].kind = "inode" /\ work'[w].blocked = Tail(q)
      /\ work'[w].op = work[w].op /\ work'[w].txn = work[w].txn /\ work'[w].ret = work[w].ret
      /\ work'[w].granted = (IF granted THEN <<head>> \o work[w].granted ELSE work[w].granted)
      /\ work'[w].lockers = work[w].lockers
      /\ \A v \in Worker \ {w} : work'[v] = work[v]
  BY ZenonT(30), <1>1, <1>2, <1>3 DEF TypeOK, CallOn
<1> HIDE DEF head
<1>8. head = Head(q)
  BY DEF head
<1> HIDE DEF q
<1> QED
  BY ZenonT(30), <1>1, <1>2, <1>5, <1>6, <1>7, <1>8 DEF q

\* One round of the loop over the blocked inode locks keeps the places.
LEMMA PlaceInodeLoop ==
  ASSUME TypeOK, PlaceInv, NEW w \in Worker, grant_blocked_inode_lock(w)
  PROVE  PlaceInv' /\ Progress
<1>1. /\ work[w].pc = "loop" /\ work[w].kind = "inode"
      /\ UNCHANGED <<entrylk_list, blocked_entrylks, connected, txn>>
  BY ZenonT(30) DEF grant_blocked_inode_lock, elk
<1>2. mutex = w /\ work[w] \in CallOn("inode", InodeLock)
  BY ZenonT(30), <1>1 DEF TypeOK, CallOn
<1>3. work[w].blocked \in Seq(InodeLock) /\ work[w].granted \in Seq(InodeLock)
  BY <1>2 DEF CallOn
<1>4. PICK bl \in InodeLock, granted \in BOOLEAN :
        /\ work[w].blocked # <<>> /\ bl = Head(work[w].blocked)
        /\ lock_inodelk(bl, TRUE, granted)
        /\ bl.owner = bl.txn /\ txn[bl.txn].st # "idle" /\ txn[bl.txn].kind = "inode"
        /\ Asks(bl, txn[bl.txn].on) /\ \A x \in inodelk_list : x.txn # bl.txn
        /\ \A i \in 1..Len(blocked_inodelks) : blocked_inodelks[i].txn # bl.txn
        /\ bl.txn \in Txn
        /\ work'[w].pc = "loop" /\ work'[w].kind = "inode"
        /\ work'[w].blocked = Tail(work[w].blocked)
        /\ work'[w].op = work[w].op /\ work'[w].txn = work[w].txn
        /\ work'[w].granted = (IF granted THEN <<bl>> \o work[w].granted ELSE work[w].granted)
        /\ work'[w].lockers = work[w].lockers
        /\ \A v \in Worker \ {w} : work'[v] = work[v]
  BY ZenonT(30), InodeRetried
<1> DEFINE q == work[w].blocked
<1>5. /\ \A i \in 1..Len(Tail(q)) : i + 1 \in 1..Len(q) /\ Tail(q)[i] = q[i + 1]
      /\ Distinct(Tail(q)) /\ \A i \in 1..Len(Tail(q)) : Tail(q)[i].txn # bl.txn
  <2>1. Distinct(q)
    BY ZenonT(30) DEF PlaceInv, WorkerOK
  <2> QED
    BY ZenonT(30), <1>3, <1>4, <2>1, TailPlaces
<1>6. Progress
  BY <1>1 DEF Progress
<1>7. InodePlaces'
  BY ZenonT(30), <1>1, <1>4, <1>6, InodeTaken DEF PlaceInv
<1>8. EntryPlaces'
  BY <1>1, <1>6, EntryKept DEF PlaceInv
<1> HIDE DEF q
<1>9. \A x \in inodelk_list' : x \in inodelk_list \/ x = bl
  BY ZenonT(30), <1>4 DEF lock_inodelk
<1>10. \A i \in 1..Len(Tail(q)) : \A l : l = Tail(q)[i] => InodeWaiter(l)'
  <2> TAKE i \in 1..Len(Tail(q))
  <2> TAKE l
  <2> HAVE l = Tail(q)[i]
  <2>1. InodeWaiter(l) /\ l.txn \in Txn /\ l.txn # bl.txn
    BY ZenonT(30), <1>1, <1>5, Places DEF PlaceInv, WorkerOK, q
  <2> QED
    BY ZenonT(30), <1>6, <1>9, <2>1, InodeWaiterStays
<1>11. \A i \in 1..Len(Tail(q)), j \in 1..Len(blocked_inodelks') : Tail(q)[i].txn # blocked_inodelks'[j].txn
  <2>1. \A i \in 1..Len(Tail(q)), j \in 1..Len(blocked_inodelks) : Tail(q)[i].txn # blocked_inodelks[j].txn
    <3>1. Apart(q, blocked_inodelks)
      BY ZenonT(30), <1>1, <1>4 DEF PlaceInv, WorkerOK, q
    <3> QED
      BY <1>5, <3>1 DEF Apart
  <2>2. \A j \in 1..Len(blocked_inodelks') :
          (j \in 1..Len(blocked_inodelks) /\ blocked_inodelks'[j] = blocked_inodelks[j]) \/ blocked_inodelks'[j] = bl
    <3>1. blocked_inodelks \in Seq(InodeLock)
      BY DEF TypeOK
    <3>2. CASE granted
      BY ZenonT(30), <1>4, <3>2 DEF lock_inodelk
    <3>3. CASE ~granted
      <4>1. blocked_inodelks' = Append(blocked_inodelks, bl)
        BY ZenonT(30), <1>4, <3>3 DEF lock_inodelk
      <4> QED
        BY <3>1, <4>1
    <3> QED
      BY ZenonT(30), <3>2, <3>3
  <2> QED
    BY ZenonT(30), <1>5, <2>1, <2>2
<1>12. \A i \in 1..Len(work'[w].granted) : txn'[work'[w].granted[i].txn].st # "idle"
  <2>1. \A i \in 1..Len(work[w].granted) : txn'[work[w].granted[i].txn].st # "idle"
    BY ZenonT(30), <1>1 DEF PlaceInv, WorkerOK
  <2>2. CASE granted
    <3>1. txn'[bl.txn].st # "idle"
      BY ZenonT(30), <1>1, <1>4
    <3>2. work'[w].granted = <<bl>> \o work[w].granted
      BY ZenonT(30), <1>4, <2>2
    <3>3. /\ Len(work'[w].granted) = Len(work[w].granted) + 1 /\ Len(work[w].granted) \in Nat
          /\ work'[w].granted[1] = bl
          /\ \A i \in 1..Len(work[w].granted) : work'[w].granted[i + 1] = work[w].granted[i]
      BY <1>3, <3>2, Prepended
    <3> TAKE i \in 1..Len(work'[w].granted)
    <3>4. CASE i = 1
      BY <3>1, <3>3, <3>4
    <3>5. CASE i # 1
      <4>1. i - 1 \in 1..Len(work[w].granted) /\ (i - 1) + 1 = i
        BY <3>3, <3>5
      <4> QED
        BY ZenonT(30), <2>1, <3>3, <4>1
    <3> QED
      BY <3>4, <3>5
  <2>3. CASE ~granted
    BY ZenonT(30), <1>4, <2>1, <2>3
  <2> QED
    BY ZenonT(30), <2>2, <2>3
<1>13. WorkerOK(w)'
  <2>1. WorkerOK(w) /\ Tail(q) = work'[w].blocked
    BY ZenonT(30), <1>4 DEF PlaceInv, q
  <2>2. /\ work'[w].lockers = {}
        /\ work'[w].op = "lock" => txn'[work'[w].txn].st # "idle"
    BY ZenonT(30), <1>1, <1>4, <2>1 DEF WorkerOK
  <2>3. /\ Distinct(work'[w].blocked)
        /\ Apart(work'[w].blocked, blocked_inodelks')
        /\ \A i \in 1..Len(work'[w].blocked) : \A l : l = work'[w].blocked[i] => InodeWaiter(l)'
    BY ZenonT(30), <1>5, <1>10, <1>11, <2>1 DEF Apart
  <2> QED
    BY ZenonT(30), <1>4, <1>12, <2>2, <2>3 DEF WorkerOK
<1>14. \A v \in Worker \ {w} : WorkerOK(v)'
  BY ZenonT(30), <1>2, <1>4, <1>6, LoopAlone, OutsideLoop DEF PlaceInv
<1> QED
  BY ZenonT(30), <1>1, <1>6, <1>7, <1>8, <1>13, <1>14 DEF PlaceInv

(* The grant loop retries the lock of a transaction that has no other place. *)
LEMMA EntryRetried ==
  ASSUME TypeOK, PlaceInv, NEW w \in Worker, grant_blocked_entry_lock(w)
  PROVE  \E bl \in EntryLock, granted \in BOOLEAN :
           /\ work[w].blocked # <<>> /\ bl = Head(work[w].blocked)
           /\ granted => entrylk_granted(bl)
           /\ lock_name(bl, TRUE, granted)
           /\ bl.owner = bl.txn /\ txn[bl.txn].st # "idle" /\ txn[bl.txn].kind = "entry"
           /\ bl.name = txn[bl.txn].on /\ \A x \in entrylk_list : x.txn # bl.txn
           /\ \A i \in 1..Len(blocked_entrylks) : blocked_entrylks[i].txn # bl.txn
           /\ bl.txn \in Txn
           /\ work'[w].pc = "loop" /\ work'[w].kind = "entry"
           /\ work'[w].blocked = Tail(work[w].blocked)
           /\ work'[w].op = work[w].op /\ work'[w].txn = work[w].txn
           /\ work'[w].ret = work[w].ret
           /\ work'[w].granted = (IF granted THEN <<bl>> \o work[w].granted ELSE work[w].granted)
           /\ work'[w].lockers = work[w].lockers
           /\ \A v \in Worker \ {w} : work'[v] = work[v]
<1> DEFINE head == Head(work[w].blocked)
           q == work[w].blocked
<1>1. PICK granted \in BOOLEAN :
        /\ granted => entrylk_granted(head)
        /\ lock_name(head, TRUE, granted)
        /\ work' = [work EXCEPT ![w].blocked = Tail(@), ![w].granted =
                       IF granted THEN <<head>> \o @ ELSE @]
  BY ZenonT(30) DEF grant_blocked_entry_lock, entrylk_granted, entrylk_grantable
<1>2. work[w].pc = "loop" /\ work[w].kind = "entry" /\ q # <<>>
  BY ZenonT(30) DEF grant_blocked_entry_lock
<1>3. work[w] \in CallOn("entry", EntryLock)
  BY ZenonT(30), <1>2 DEF TypeOK, CallOn
<1>4. q \in Seq(EntryLock)
  BY <1>3 DEF CallOn
<1>5. head = q[1] /\ 1 \in 1..Len(q) /\ head \in EntryLock
  BY <1>2, <1>4
<1>6. /\ head.owner = head.txn /\ txn[head.txn].st # "idle" /\ txn[head.txn].kind = "entry"
      /\ head.name = txn[head.txn].on /\ \A x \in entrylk_list : x.txn # head.txn
      /\ \A i \in 1..Len(blocked_entrylks) : blocked_entrylks[i].txn # head.txn
      /\ head.txn \in Txn
  <2>1. EntryWaiter(head) /\ Apart(q, blocked_entrylks)
    BY ZenonT(30), <1>2, <1>5 DEF PlaceInv, WorkerOK
  <2>2. head.txn \in Txn
    BY <1>5, Places
  <2> QED
    BY ZenonT(30), <1>5, <2>1, <2>2 DEF EntryWaiter, Apart
<1>7. /\ work'[w].pc = "loop" /\ work'[w].kind = "entry" /\ work'[w].blocked = Tail(q)
      /\ work'[w].op = work[w].op /\ work'[w].txn = work[w].txn /\ work'[w].ret = work[w].ret
      /\ work'[w].granted = (IF granted THEN <<head>> \o work[w].granted ELSE work[w].granted)
      /\ work'[w].lockers = work[w].lockers
      /\ \A v \in Worker \ {w} : work'[v] = work[v]
  BY ZenonT(30), <1>1, <1>2, <1>3 DEF TypeOK, CallOn
<1> HIDE DEF head
<1>8. head = Head(q)
  BY DEF head
<1> HIDE DEF q
<1> QED
  BY ZenonT(30), <1>1, <1>2, <1>5, <1>6, <1>7, <1>8 DEF q

\* One round of the loop over the blocked entry locks keeps the places.
LEMMA PlaceEntryLoop ==
  ASSUME TypeOK, PlaceInv, NEW w \in Worker, grant_blocked_entry_lock(w)
  PROVE  PlaceInv' /\ Progress
<1>1. /\ work[w].pc = "loop" /\ work[w].kind = "entry"
      /\ UNCHANGED <<inodelk_list, blocked_inodelks, connected, txn>>
  BY ZenonT(30) DEF grant_blocked_entry_lock, ilk
<1>2. mutex = w /\ work[w] \in CallOn("entry", EntryLock)
  BY ZenonT(30), <1>1 DEF TypeOK, CallOn
<1>3. work[w].blocked \in Seq(EntryLock) /\ work[w].granted \in Seq(EntryLock)
  BY <1>2 DEF CallOn
<1>4. PICK bl \in EntryLock, granted \in BOOLEAN :
        /\ work[w].blocked # <<>> /\ bl = Head(work[w].blocked)
        /\ lock_name(bl, TRUE, granted)
        /\ bl.owner = bl.txn /\ txn[bl.txn].st # "idle" /\ txn[bl.txn].kind = "entry"
        /\ bl.name = txn[bl.txn].on /\ \A x \in entrylk_list : x.txn # bl.txn
        /\ \A i \in 1..Len(blocked_entrylks) : blocked_entrylks[i].txn # bl.txn
        /\ bl.txn \in Txn
        /\ work'[w].pc = "loop" /\ work'[w].kind = "entry"
        /\ work'[w].blocked = Tail(work[w].blocked)
        /\ work'[w].op = work[w].op /\ work'[w].txn = work[w].txn
        /\ work'[w].granted = (IF granted THEN <<bl>> \o work[w].granted ELSE work[w].granted)
        /\ work'[w].lockers = work[w].lockers
        /\ \A v \in Worker \ {w} : work'[v] = work[v]
  BY ZenonT(30), EntryRetried
<1> DEFINE q == work[w].blocked
<1>5. /\ \A i \in 1..Len(Tail(q)) : i + 1 \in 1..Len(q) /\ Tail(q)[i] = q[i + 1]
      /\ Distinct(Tail(q)) /\ \A i \in 1..Len(Tail(q)) : Tail(q)[i].txn # bl.txn
  <2>1. Distinct(q)
    BY DEF PlaceInv, WorkerOK
  <2> QED
    BY ZenonT(30), <1>3, <1>4, <2>1, TailPlaces
<1>6. Progress
  BY <1>1 DEF Progress
<1>7. EntryPlaces'
  BY ZenonT(30), <1>1, <1>4, <1>6, EntryTaken DEF PlaceInv
<1>8. InodePlaces'
  BY ZenonT(30), <1>1, <1>6, InodeKept DEF PlaceInv
<1> HIDE DEF q
<1>9. \A x \in entrylk_list' : x \in entrylk_list \/ x = bl
  BY ZenonT(30), <1>4 DEF lock_name
<1>10. \A i \in 1..Len(Tail(q)) : \A l : l = Tail(q)[i] => EntryWaiter(l)'
  <2> TAKE i \in 1..Len(Tail(q))
  <2> TAKE l
  <2> HAVE l = Tail(q)[i]
  <2>1. EntryWaiter(l) /\ l.txn \in Txn /\ l.txn # bl.txn
    BY ZenonT(30), <1>1, <1>5, Places DEF PlaceInv, WorkerOK, q
  <2> QED
    BY <1>6, <1>9, <2>1, EntryWaiterStays
<1>11. \A i \in 1..Len(Tail(q)), j \in 1..Len(blocked_entrylks') : Tail(q)[i].txn # blocked_entrylks'[j].txn
  <2>1. \A i \in 1..Len(Tail(q)), j \in 1..Len(blocked_entrylks) : Tail(q)[i].txn # blocked_entrylks[j].txn
    BY <1>1, <1>5 DEF PlaceInv, WorkerOK, Apart, q
  <2>2. \A j \in 1..Len(blocked_entrylks') :
          (j \in 1..Len(blocked_entrylks) /\ blocked_entrylks'[j] = blocked_entrylks[j]) \/ blocked_entrylks'[j] = bl
    <3>1. blocked_entrylks \in Seq(EntryLock)
      BY DEF TypeOK
    <3>2. CASE granted
      BY ZenonT(30), <1>4, <3>2 DEF lock_name
    <3>3. CASE ~granted
      <4>1. blocked_entrylks' = Append(blocked_entrylks, bl)
        BY ZenonT(30), <1>4, <3>3 DEF lock_name
      <4> QED
        BY <3>1, <4>1
    <3> QED
      BY <3>2, <3>3
  <2> QED
    BY <1>5, <2>1, <2>2
<1>12. \A i \in 1..Len(work'[w].granted) : txn'[work'[w].granted[i].txn].st # "idle"
  <2>1. \A i \in 1..Len(work[w].granted) : txn'[work[w].granted[i].txn].st # "idle"
    BY ZenonT(30), <1>1 DEF PlaceInv, WorkerOK
  <2>2. CASE granted
    <3>1. txn'[bl.txn].st # "idle"
      BY SMTT(30), <1>1, <1>4
    <3>2. work'[w].granted = <<bl>> \o work[w].granted
      BY ZenonT(30), <1>4, <2>2
    <3>3. /\ Len(work'[w].granted) = Len(work[w].granted) + 1 /\ Len(work[w].granted) \in Nat
          /\ work'[w].granted[1] = bl
          /\ \A i \in 1..Len(work[w].granted) : work'[w].granted[i + 1] = work[w].granted[i]
      BY <1>3, <3>2, Prepended
    <3> TAKE i \in 1..Len(work'[w].granted)
    <3>4. CASE i = 1
      BY <3>1, <3>3, <3>4
    <3>5. CASE i # 1
      <4>1. i - 1 \in 1..Len(work[w].granted) /\ (i - 1) + 1 = i
        BY <3>3, <3>5
      <4> QED
        BY ZenonT(30), <2>1, <3>3, <4>1
    <3> QED
      BY <3>4, <3>5
  <2>3. CASE ~granted
    BY ZenonT(30), <1>4, <2>1, <2>3
  <2> QED
    BY <2>2, <2>3
<1>13. WorkerOK(w)'
  <2>1. WorkerOK(w) /\ Tail(q) = work'[w].blocked
    BY SMTT(30), <1>4 DEF PlaceInv, q
  <2>2. /\ work'[w].lockers = {}
        /\ work'[w].op = "lock" => txn'[work'[w].txn].st # "idle"
    BY ZenonT(30), <1>1, <1>4, <2>1 DEF WorkerOK
  <2>3. /\ Distinct(work'[w].blocked)
        /\ Apart(work'[w].blocked, blocked_entrylks')
        /\ \A i \in 1..Len(work'[w].blocked) : \A l : l = work'[w].blocked[i] => EntryWaiter(l)'
    BY ZenonT(30), <1>5, <1>10, <1>11, <2>1 DEF Apart
  <2> QED
    BY ZenonT(30), <1>4, <1>12, <2>2, <2>3 DEF WorkerOK
<1>14. \A v \in Worker \ {w} : WorkerOK(v)'
  BY ZenonT(30), <1>2, <1>4, <1>6, LoopAlone, OutsideLoop DEF PlaceInv
<1> QED
  BY ZenonT(30), <1>1, <1>6, <1>7, <1>8, <1>13, <1>14 DEF PlaceInv

(* Nothing but replies: the lists stay as they are. *)
LEMMA ListsStay ==
  ASSUME TypeOK, NEW v \in Worker, WorkerOK(v), Progress, UNCHANGED <<ilk, elk>>,
         work'[v].kind = work[v].kind, work'[v].blocked = work[v].blocked,
         work'[v].op = work[v].op, work'[v].txn = work[v].txn,
         work'[v].lockers = work[v].lockers, work'[v].pc # "cleanup",
         work'[v].pc # "loop" => work'[v].blocked = <<>>,
         \A i \in 1..Len(work'[v].granted) : txn'[work'[v].granted[i].txn].st # "idle"
  PROVE  WorkerOK(v)'
<1>1. /\ inodelk_list' = inodelk_list /\ blocked_inodelks' = blocked_inodelks
      /\ entrylk_list' = entrylk_list /\ blocked_entrylks' = blocked_entrylks
  BY DEF ilk, elk
<1>2. work'[v].op = "lock" => txn'[work'[v].txn].st # "idle"
  BY ZenonT(30), Places DEF WorkerOK, Progress
<1>3. work[v].kind = "inode" => \A i \in 1..Len(work[v].blocked) :
                                  \A l : l = work[v].blocked[i] => InodeWaiter(l)'
  BY ZenonT(30), <1>1, Places, InodeWaiterStays DEF WorkerOK
<1>4. work[v].kind = "entry" => \A i \in 1..Len(work[v].blocked) :
                                  \A l : l = work[v].blocked[i] => EntryWaiter(l)'
  BY ZenonT(30), <1>1, Places, EntryWaiterStays DEF WorkerOK
<1> QED
  BY ZenonT(30), <1>1, <1>2, <1>3, <1>4 DEF WorkerOK

\* The end of the loop keeps the places.
LEMMA PlaceExit ==
  ASSUME TypeOK, PlaceInv, NEW w \in Worker, grant_exit(w)
  PROVE  PlaceInv' /\ Progress
<1>1. /\ work[w].pc = "loop" /\ work[w].blocked = <<>>
      /\ UNCHANGED <<ilk, elk, connected, txn>>
      /\ work' = [work EXCEPT ![w].pc = "unwind"]
  BY DEF grant_exit, dom, ilk, elk
<1>2. Progress
  BY ZenonT(30), <1>1 DEF Progress
<1>3. work[w] \in CallOn("inode", InodeLock) \/ work[w] \in CallOn("entry", EntryLock)
  BY DEF TypeOK
<1>4. /\ work'[w].pc = "unwind" /\ work'[w].blocked = <<>> /\ work'[w].kind = work[w].kind
      /\ work'[w].op = work[w].op /\ work'[w].txn = work[w].txn
      /\ work'[w].granted = work[w].granted /\ work'[w].lockers = work[w].lockers
      /\ \A v \in Worker \ {w} : work'[v] = work[v]
  BY ZenonT(30), <1>1, <1>3 DEF TypeOK, CallOn
<1>5. \A v \in Worker : WorkerOK(v)'
  <2> TAKE v \in Worker
  <2>1. /\ WorkerOK(v) /\ work'[v].kind = work[v].kind /\ work'[v].blocked = work[v].blocked
        /\ work'[v].op = work[v].op /\ work'[v].txn = work[v].txn
        /\ work'[v].granted = work[v].granted /\ work'[v].lockers = work[v].lockers
        /\ v # w => work'[v].pc = work[v].pc
    BY ZenonT(30), <1>1, <1>4 DEF PlaceInv
  <2>2. /\ work'[v].pc # "cleanup"
        /\ work'[v].pc # "loop" => work'[v].blocked = <<>>
        /\ \A i \in 1..Len(work'[v].granted) : txn'[work'[v].granted[i].txn].st # "idle"
    BY ZenonT(30), <1>1, <1>4, <2>1 DEF WorkerOK
  <2> QED
    BY ZenonT(30), <1>1, <1>2, <2>1, <2>2, ListsStay
<1>6. InodePlaces' /\ EntryPlaces'
  BY ZenonT(30), <1>1, <1>2, InodeKept, EntryKept DEF PlaceInv, ilk, elk
<1> QED
  BY ZenonT(30), <1>1, <1>2, <1>5, <1>6 DEF PlaceInv

(* The answer to a lock request makes a holder of one that asked. *)
LEMMA LockedReply ==
  ASSUME TypeOK, NEW t \in Txn, reply_locked(t)
  PROVE  /\ Progress
         /\ \A u \in Txn : /\ txn'[u].kind = txn[u].kind /\ txn'[u].on = txn[u].on
                           /\ txn'[u].st = IF u = t /\ txn[u].st = "asked" THEN "held"
                                            ELSE txn[u].st
<1>1. CASE txn[t].st = "asked"
  BY ZenonT(30), <1>1 DEF reply_locked, TypeOK, Progress, TxnOn
<1>2. CASE txn[t].st # "asked"
  BY <1>2 DEF reply_locked, Progress
<1> QED
  BY ZenonT(30), <1>1, <1>2

\* Answering a granted lock keeps the places.
LEMMA PlaceUnwind ==
  ASSUME TypeOK, PlaceInv, NEW w \in Worker, unwind_granted(w)
  PROVE  PlaceInv' /\ Progress
<1>1. /\ work[w].pc = "unwind" /\ work[w].granted # <<>>
      /\ UNCHANGED <<ilk, elk, connected>>
      /\ reply_locked(Head(work[w].granted).txn)
      /\ work' = [work EXCEPT ![w].granted = Tail(@)]
  BY ZenonT(30) DEF unwind_granted, dom, ilk, elk
<1>2. work[w] \in CallOn("inode", InodeLock) \/ work[w] \in CallOn("entry", EntryLock)
  BY DEF TypeOK
<1>3. \E S : work[w].granted \in Seq(S)
  BY <1>2 DEF CallOn
<1>4. /\ 1 \in 1..Len(work[w].granted) /\ Head(work[w].granted) = work[w].granted[1]
      /\ \A i \in 1..Len(Tail(work[w].granted)) :
           i + 1 \in 1..Len(work[w].granted) /\ Tail(work[w].granted)[i] = work[w].granted[i + 1]
  BY <1>1, <1>3
<1>5. Progress
  BY ZenonT(30), <1>1, <1>4, Places, LockedReply
<1>6. /\ work'[w].pc = "unwind" /\ work'[w].blocked = work[w].blocked
      /\ work'[w].kind = work[w].kind
      /\ work'[w].op = work[w].op /\ work'[w].txn = work[w].txn
      /\ work'[w].granted = Tail(work[w].granted) /\ work'[w].lockers = work[w].lockers
      /\ \A v \in Worker \ {w} : work'[v] = work[v]
  BY ZenonT(30), <1>1, <1>2 DEF TypeOK, CallOn
<1>7. ASSUME NEW v \in Worker
      PROVE  \A i \in 1..Len(work[v].granted) : txn'[work[v].granted[i].txn].st # "idle"
  BY ZenonT(30), <1>5, Places DEF PlaceInv, WorkerOK, Progress
<1>8. \A v \in Worker : WorkerOK(v)'
  <2>1. ASSUME NEW v \in Worker \ {w} PROVE WorkerOK(v)'
    <3>1. WorkerOK(v) /\ work'[v] = work[v]
      BY ZenonT(30), <1>6 DEF PlaceInv
    <3>2. /\ work'[v].pc # "cleanup"
          /\ work'[v].pc # "loop" => work'[v].blocked = <<>>
          /\ \A i \in 1..Len(work'[v].granted) : txn'[work'[v].granted[i].txn].st # "idle"
      BY ZenonT(30), <1>7, <3>1 DEF WorkerOK
    <3> QED
      BY ZenonT(30), <1>1, <1>5, <3>1, <3>2, ListsStay
  <2>2. \A i \in 1..Len(work'[w].granted) : txn'[work'[w].granted[i].txn].st # "idle"
    BY SMTT(30), <1>4, <1>6, <1>7
  <2>3. WorkerOK(w)'
    BY ZenonT(30), <1>1, <1>5, <1>6, <2>2, ListsStay DEF PlaceInv, WorkerOK
  <2> QED
    BY ZenonT(30), <2>1, <2>3
<1>9. InodePlaces' /\ EntryPlaces'
  BY <1>1, <1>5, InodeKept, EntryKept DEF PlaceInv, ilk, elk
<1> QED
  BY ZenonT(30), <1>1, <1>5, <1>8, <1>9 DEF PlaceInv

(* What the answer of a call does to the transactions: none becomes a holder
   that the thread did not tell. *)
LEMMA FinishReply ==
  ASSUME TypeOK, NEW w \in Worker, finish(w)
  PROVE  /\ Progress
         /\ \A u \in Txn :
              /\ txn'[u].kind = txn[u].kind /\ txn'[u].on = txn[u].on
              /\ \/ txn'[u].st = txn[u].st
                 \/ txn'[u].st = "done"
                 \/ txn'[u].st = "held" /\ txn[u].st = "asked" /\ Tells(w, u)
<1> DEFINE k == work[w]
<1>0. k.op \in {"lock", "unlock"} => k.txn \in Txn
  BY DEF TypeOK
<1>1. CASE k.op = "lock" /\ k.ret = 0 /\ reply_locked(k.txn)
  BY <1>0, <1>1, LockedReply DEF Tells
<1>2. CASE k.op = "lock" /\ k.ret # 0 /\ reply_failed(k.txn)
  <2>1. CASE txn[k.txn].st = "asked"
    BY ZenonT(30), <1>0, <1>2, <2>1 DEF reply_failed, TypeOK, Progress, TxnOn
  <2>2. CASE txn[k.txn].st # "asked"
    BY ZenonT(30), <1>2, <2>2 DEF reply_failed, Progress
  <2> QED
    BY ZenonT(30), <2>1, <2>2
<1>3. CASE k.op = "unlock" /\ reply_unlocked(k.txn, k.ret)
  BY ZenonT(30), <1>0, <1>3 DEF reply_unlocked, TypeOK, Progress, TxnOn
<1>4. CASE UNCHANGED txn
  BY ZenonT(30), <1>4 DEF Progress
<1> QED
  BY <1>1, <1>2, <1>3, <1>4 DEF finish

\* Leaving the call keeps the places.
LEMMA PlaceFinish ==
  ASSUME TypeOK, PlaceInv, NEW w \in Worker, finish(w)
  PROVE  PlaceInv' /\ Progress
<1>1. Progress
  BY FinishReply
<1>2. mutex = NoWorker /\ UNCHANGED <<ilk, elk, connected>>
  BY DEF finish, dom, ilk, elk
<1>3. work' = [work EXCEPT ![w] = Idle]
  BY ZenonT(30) DEF finish, PlaceInv, WorkerOK
<1>4. work'[w] = Idle /\ \A v \in Worker \ {w} : work'[v] = work[v]
  BY ZenonT(30), <1>3, WorkUpdate
<1>5. WorkerOK(w)'
  BY ZenonT(30), <1>4, BegunCall DEF Idle
<1>6. \A v \in Worker \ {w} : WorkerOK(v)'
  BY ZenonT(30), <1>1, <1>2, <1>4, LoopAlone, OutsideLoop DEF PlaceInv
<1>7. InodePlaces' /\ EntryPlaces'
  BY ZenonT(30), <1>1, <1>2, InodeKept, EntryKept DEF PlaceInv, ilk, elk
<1> QED
  BY ZenonT(30), <1>1, <1>2, <1>5, <1>6, <1>7 DEF PlaceInv

(* With a caller in the same process no connection goes away, so these are all
   the steps there are. *)
LEMMA LocalSteps ==
  ASSUME ~Remote, PlaceInv, Next
  PROVE  \E w \in Worker :
           \/ \E t \in Txn : \/ \E r \in Region, b \in BOOLEAN : pl_inodelk(w, t, r, b)
                             \/ \E n \in Name, b \in BOOLEAN : pl_entrylk(w, t, n, b)
                             \/ Unlock(w, t)
           \/ grant_enter(w) \/ grant_blocked_inode_lock(w) \/ grant_blocked_entry_lock(w)
           \/ grant_exit(w) \/ unwind_granted(w) \/ finish(w)
<1>1. ~MayDisconnect
  BY ZenonT(30), LocalAssumption
<1>2. \A w \in Worker, t \in Txn : ~cleanup_file_locker(w, t) /\ ~cleanup_dir_locker(w, t)
  BY DEF PlaceInv, WorkerOK, cleanup_file_locker, cleanup_dir_locker
<1>3. \A c \in Client : ~server_connection_get(c) /\ \A w \in Worker : ~server_connection_cleanup(w, c)
  BY <1>1 DEF PlaceInv, server_connection_get, server_connection_cleanup
<1>4. \A t \in Txn : ~unlock_enotconn(t)
  BY ZenonT(30), ConstantTypes DEF PlaceInv, unlock_enotconn
<1> QED
  BY <1>2, <1>3, <1>4 DEF Next, Serve, Request

\* There are no locks at the start.
LEMMA PlaceInit == Init => PlaceInv
<1>1. Len(<<>>) = 0
  OBVIOUS
<1> SUFFICES ASSUME Init PROVE PlaceInv
  BY ZenonT(30)
<1>2. \A w \in Worker : WorkerOK(w)
  BY <1>1 DEF Init, WorkerOK, Idle, Call, Distinct, Apart
<1> QED
  BY <1>1, <1>2 DEF Init, PlaceInv, InodePlaces, EntryPlaces, Distinct

\* Every step keeps the places, when requests are the process's own.
LEMMA PlaceNext == ~Remote /\ TypeOK /\ PlaceInv /\ [Next]_vars => PlaceInv' /\ Progress
<1> SUFFICES ASSUME ~Remote, TypeOK, PlaceInv, [Next]_vars PROVE PlaceInv' /\ Progress
  OBVIOUS
<1>1. CASE UNCHANGED vars
  <2>1. UNCHANGED <<ilk, elk, connected, work, txn>>
    BY ZenonT(30), <1>1 DEF vars, dom, ilk, elk
  <2>2. Progress
    BY <2>1 DEF Progress
  <2>3. \A v \in Worker : WorkerOK(v)'
    BY ZenonT(30), <2>1, <2>2, ListsStay DEF PlaceInv, WorkerOK
  <2>4. InodePlaces' /\ EntryPlaces'
    BY ZenonT(30), <2>1, <2>2, InodeKept, EntryKept DEF PlaceInv, ilk, elk
  <2> QED
    BY ZenonT(30), <2>1, <2>2, <2>3, <2>4 DEF PlaceInv
<1>2. CASE Next
  BY ZenonT(30), <1>2, LocalSteps, PlaceInodelk, PlaceEntrylk, PlaceUnlock, PlaceEnter, PlaceInodeLoop,
     PlaceEntryLoop, PlaceExit, PlaceUnwind, PlaceFinish
<1> QED
  BY <1>1, <1>2

-----------------------------------------------------------------------------
(* Two transactions exclude each other *)

\* A granted lock conflicts with none of another transaction.
LEMMA ListTaken ==
  ASSUME TypeOK, InodePlaces, ListInv, NEW lock \in InodeLock, NEW b \in BOOLEAN,
         NEW granted \in BOOLEAN, lock_inodelk(lock, b, granted),
         granted => inodelk_grantable(lock), lock.owner = lock.txn,
         \A l \in inodelk_list : l.txn # lock.txn
  PROVE  ListInv'
<1>1. CASE granted
  <2>1. inodelk_list' = inodelk_list \cup {lock}
    BY ZenonT(30), <1>1 DEF lock_inodelk
  <2>2. \A l \in inodelk_list : ~Clash(lock, l) /\ ~Clash(l, lock)
    <3> TAKE l \in inodelk_list
    <3>1. ~same_inodelk_owner(lock, l)
      BY ZenonT(30) DEF InodePlaces, same_inodelk_owner
    <3>2. ~inodelk_conflict(lock, l)
      BY ZenonT(30), <1>1 DEF inodelk_grantable
    <3> QED
      BY ZenonT(30), <3>1, <3>2 DEF inodelk_conflict, Clash, inodelk_overlap, inodelk_type_conflict
  <2> QED
    BY <2>1, <2>2 DEF ListInv, InodelkTxnExclusion
<1>2. CASE ~granted
  BY <1>2 DEF lock_inodelk, ListInv, InodelkTxnExclusion
<1> QED
  BY ZenonT(30), <1>1, <1>2

\* A shorter list has no conflict either.
LEMMA ListKept ==
  ASSUME ListInv, inodelk_list' \subseteq inodelk_list
  PROVE  ListInv'
BY ZenonT(30) DEF ListInv, InodelkTxnExclusion

\* Every step keeps conflicting locks of two transactions out of the list.
LEMMA ListNext == ~Remote /\ TypeOK /\ PlaceInv /\ ListInv /\ [Next]_vars => ListInv'
<1> SUFFICES ASSUME ~Remote, TypeOK, PlaceInv, ListInv, [Next]_vars PROVE ListInv'
  BY ZenonT(30)
<1>1. ASSUME NEW w \in Worker, NEW t \in Txn, NEW r \in Region, NEW b \in BOOLEAN,
             pl_inodelk(w, t, r, b)
      PROVE  ListInv'
  <2>1. txn[t].st = "idle"
    BY ZenonT(30), <1>1 DEF pl_inodelk
  <2>2. PICK lock \in InodeLock, granted \in BOOLEAN :
          /\ lock.txn = t /\ lock.owner = t
          /\ granted => inodelk_grantable(lock)
          /\ lock_inodelk(lock, b, granted)
    BY <1>1, InodelkRequested
  <2>3. \A l \in inodelk_list : l.txn # lock.txn
    BY ZenonT(30), <2>1, <2>2 DEF PlaceInv, InodePlaces
  <2> QED
    BY ZenonT(30), <2>2, <2>3, ListTaken DEF PlaceInv
<1>2. ASSUME NEW w \in Worker, grant_blocked_inode_lock(w)
      PROVE  ListInv'
  <2>1. PICK bl \in InodeLock, granted \in BOOLEAN :
          /\ granted => inodelk_grantable(bl)
          /\ lock_inodelk(bl, TRUE, granted)
          /\ bl.owner = bl.txn /\ \A x \in inodelk_list : x.txn # bl.txn
    BY ZenonT(30), <1>2, InodeRetried
  <2> QED
    BY ZenonT(30), <2>1, ListTaken DEF PlaceInv
<1>3. ASSUME NEW w \in Worker,
             \/ \E t \in Txn : \/ \E n \in Name, b \in BOOLEAN : pl_entrylk(w, t, n, b)
                               \/ Unlock(w, t)
             \/ grant_enter(w) \/ grant_blocked_entry_lock(w)
             \/ grant_exit(w) \/ unwind_granted(w) \/ finish(w)
      PROVE  inodelk_list' \subseteq inodelk_list
  BY ZenonT(30), <1>3 DEF pl_entrylk, Unlock, pl_inode_unlock, pl_entry_unlock, grant_enter,
     grant_blocked_entry_lock, grant_exit, unwind_granted, finish, dom, ilk
<1>4. CASE UNCHANGED vars
  BY <1>4, ListKept DEF vars, dom
<1> QED
  BY ZenonT(30), <1>1, <1>2, <1>3, <1>4, LocalSteps, ListKept

(* Everything above together, for a caller in the server's process. *)
LEMMA LocalInv == ~Remote => (Spec => [](TypeOK /\ PlaceInv /\ ListInv))
<1> DEFINE Inv == TypeOK /\ PlaceInv /\ ListInv
<1> SUFFICES ASSUME ~Remote PROVE Spec => []Inv
  BY ZenonT(30)
<1>1. Init => Inv
  BY ZenonT(30), TypeInit, PlaceInit DEF Init, ListInv, InodelkTxnExclusion
<1>2. Inv /\ [Next]_vars => Inv'
  BY TypeNext, PlaceNext, ListNext
<1> QED
  BY <1>1, <1>2, PTL DEF Spec

(* For a caller in the server's own process (cluster/afr and features/locks in
   one graph) no two transactions hold inode locks that overlap unless both only
   read, whatever the number of threads, clients and regions. *)
THEOREM TransactionExclusion == ~Remote => (Spec => []InodelkTxnExclusion)
<1> SUFFICES ASSUME ~Remote PROVE Spec => []InodelkTxnExclusion
  OBVIOUS
<1>1. TypeOK /\ PlaceInv /\ ListInv => InodelkTxnExclusion
  BY DEF ListInv
<1> QED
  BY <1>1, LocalInv, PTL

(* For such a caller a new request for a name is not granted ahead of a
   conflicting one that waits: the exception entrylk.c makes for an owner that
   has a lock already (__owner_has_lock) is not met, for a transaction that asks
   has no lock yet. *)
THEOREM NoOvertaking == ~Remote => (Spec => EntrylkNoOvertaking)
<1> DEFINE Quietly == \A l \in entrylk_list' \ entrylk_list : txn[l.txn].st = "idle" =>
                        \A b \in Elems(blocked_entrylks) : ~names_conflict(l.name, b.name)
<1> SUFFICES ASSUME ~Remote PROVE Spec => EntrylkNoOvertaking
  BY ZenonT(30)
<1>1. ASSUME TypeOK, PlaceInv, [Next]_vars PROVE [Quietly]_vars
  <2>1. ASSUME NEW w \in Worker, NEW t \in Txn, NEW n \in Name, NEW b \in BOOLEAN,
               pl_entrylk(w, t, n, b)
        PROVE  Quietly
    <3>1. txn[t].st = "idle"
      BY ZenonT(30), <2>1 DEF pl_entrylk
    <3>2. PICK lock \in EntryLock, granted \in BOOLEAN :
            /\ lock.txn = t /\ lock.owner = t /\ lock.name = n
            /\ granted => entrylk_granted(lock)
            /\ lock_name(lock, b, granted)
      BY <1>1, <2>1, EntrylkRequested
    <3>3. ~entrylk_owner_has_lock(lock)
      <4>1. \A l \in entrylk_list : l.owner # t
        BY ZenonT(30), <1>1, <3>1 DEF PlaceInv, EntryPlaces
      <4>2. blocked_entrylks \in Seq(EntryLock)
        BY ZenonT(30), <1>1 DEF TypeOK
      <4>3. \A l \in Elems(blocked_entrylks) : l.owner # t
        BY <1>1, <3>1, <4>2 DEF PlaceInv, EntryPlaces, EntryWaiter, Elems
      <4> QED
        BY ZenonT(30), <3>2, <4>1, <4>3 DEF entrylk_owner_has_lock, same_entrylk_owner
    <3>4. granted => \A x \in Elems(blocked_entrylks) : ~names_conflict(lock.name, x.name)
      BY ZenonT(30), <3>2, <3>3 DEF entrylk_granted, entrylk_blocked_conflict, names_conflict
    <3> QED
      BY ZenonT(30), <3>2, <3>4 DEF lock_name
  <2>2. ASSUME NEW w \in Worker, grant_blocked_entry_lock(w)
        PROVE  Quietly
    <3>1. PICK bl \in EntryLock, granted \in BOOLEAN :
            lock_name(bl, TRUE, granted) /\ txn[bl.txn].st # "idle"
      BY ZenonT(30), <1>1, <2>2, EntryRetried
    <3> QED
      BY <3>1 DEF lock_name
  <2>3. ASSUME NEW w \in Worker,
               \/ \E t \in Txn : \/ \E r \in Region, b \in BOOLEAN : pl_inodelk(w, t, r, b)
                                 \/ Unlock(w, t)
               \/ grant_enter(w) \/ grant_blocked_inode_lock(w)
               \/ grant_exit(w) \/ unwind_granted(w) \/ finish(w)
        PROVE  entrylk_list' \subseteq entrylk_list
    BY ZenonT(30), <2>3 DEF pl_inodelk, Unlock, pl_inode_unlock, pl_entry_unlock, grant_enter,
       grant_blocked_inode_lock, grant_exit, unwind_granted, finish, dom, elk
  <2> QED
    BY ZenonT(30), <1>1, <2>1, <2>2, <2>3, LocalSteps
<1>2. TypeOK /\ PlaceInv /\ ListInv /\ [Next]_vars => [Quietly]_vars
  BY <1>1
<1>3. Spec => [][Quietly]_vars
  BY <1>2, LocalInv, PTL DEF Spec
<1> QED
  BY <1>3 DEF EntrylkNoOvertaking

=============================================================================
