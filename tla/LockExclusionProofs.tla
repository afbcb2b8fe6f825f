------------------------ MODULE LockExclusionProofs -------------------------
(* What the locks translator promises whoever its requests come from, for any
   number of clients, transactions, threads, regions and names: mutual exclusion,
   the types of its state, an inode that is pinned while locks are on it, and no
   lost wake-up. *)
EXTENDS LockDomain, TLAPS

-----------------------------------------------------------------------------
(* Every step leaves the list of granted inode locks alone, shrinks it, or adds
   one lock that conflicts with none of it. *)
InodelkStep ==
  \/ inodelk_list' \subseteq inodelk_list
  \/ \E lock : /\ inodelk_list' = inodelk_list \cup {lock}
               /\ inodelk_grantable(lock)

\* Every step does one of these to the list.
LEMMA InodelkSteps == [Next]_vars => InodelkStep
<1> SUFFICES ASSUME [Next]_vars PROVE InodelkStep
  OBVIOUS
<1>1. CASE UNCHANGED vars
  BY <1>1 DEF vars, dom, InodelkStep
<1>2. ASSUME NEW w \in Worker, Serve(w) PROVE InodelkStep
  <2>1. CASE grant_enter(w)
    BY <2>1 DEF grant_enter, InodelkStep
  <2>2. CASE grant_blocked_inode_lock(w)
    BY <2>2 DEF grant_blocked_inode_lock, lock_inodelk, inodelk_granted, InodelkStep
  <2>3. CASE grant_blocked_entry_lock(w)
    BY <2>3 DEF grant_blocked_entry_lock, ilk, InodelkStep
  <2>4. CASE grant_exit(w)
    BY <2>4 DEF grant_exit, dom, InodelkStep
  <2>5. CASE unwind_granted(w)
    BY <2>5 DEF unwind_granted, dom, InodelkStep
  <2>6. CASE finish(w)
    BY <2>6 DEF finish, dom, InodelkStep
  <2>7. ASSUME NEW t \in Txn, cleanup_file_locker(w, t) PROVE InodelkStep
    BY <2>7 DEF cleanup_file_locker, release_inode_locks_of_transport, InodelkStep
  <2>8. ASSUME NEW t \in Txn, cleanup_dir_locker(w, t) PROVE InodelkStep
    BY <2>8 DEF cleanup_dir_locker, ilk, InodelkStep
  <2> QED
    BY <1>2, <2>1, <2>2, <2>3, <2>4, <2>5, <2>6, <2>7, <2>8 DEF Serve
<1>3. ASSUME NEW w \in Worker, NEW t \in Txn, Request(w, t) PROVE InodelkStep
  <2>1. ASSUME NEW r \in Region, NEW b \in BOOLEAN,
               pl_inodelk(w, t, r, b)
        PROVE InodelkStep
    BY <2>1 DEF pl_inodelk, lock_inodelk, inodelk_granted, InodelkStep
  <2>2. ASSUME NEW n \in Name, NEW b \in BOOLEAN, pl_entrylk(w, t, n, b)
        PROVE InodelkStep
    BY <2>2 DEF pl_entrylk, ilk, InodelkStep
  <2> QED
    BY <1>3, <2>1, <2>2 DEF Request
<1>4. ASSUME NEW w \in Worker, NEW t \in Txn, Unlock(w, t) PROVE InodelkStep
  <2>1. CASE pl_inode_unlock(w, t)
    BY <2>1 DEF pl_inode_unlock, InodelkStep
  <2>2. CASE pl_entry_unlock(w, t)
    BY <2>2 DEF pl_entry_unlock, ilk, InodelkStep
  <2> QED
    BY <1>4, <2>1, <2>2 DEF Unlock
<1>5. ASSUME NEW w \in Worker, NEW c \in Client, server_connection_cleanup(w, c)
      PROVE InodelkStep
  BY <1>5 DEF server_connection_cleanup, dom, InodelkStep
<1>6. ASSUME NEW c \in Client, server_connection_get(c) PROVE InodelkStep
  BY <1>6 DEF server_connection_get, dom, InodelkStep
<1>7. ASSUME NEW t \in Txn, unlock_enotconn(t) PROVE InodelkStep
  BY <1>7 DEF unlock_enotconn, dom, InodelkStep
<1> QED
  BY <1>1, <1>2, <1>3, <1>4, <1>5, <1>6, <1>7 DEF Next

(* Locks of two clients have different owners, so a lock that is granted clashes
   with none held by another client. *)
LEMMA GrantedClashesWithNoOtherClient ==
  ASSUME NEW lock, inodelk_grantable(lock), NEW l \in inodelk_list,
         l.client # lock.client
  PROVE  ~Clash(lock, l) /\ ~Clash(l, lock)
BY DEF inodelk_grantable, inodelk_conflict, same_inodelk_owner, Clash,
       inodelk_overlap, inodelk_type_conflict

(* Two clients never hold inode locks on the same bytes unless both read: for
   all clients, threads, frame addresses, and with any disconnections. *)
THEOREM ClientExclusion == Spec => []InodelkClientExclusion
<1>1. Init => InodelkClientExclusion
  BY DEF Init, InodelkClientExclusion
<1>2. InodelkClientExclusion /\ [Next]_vars => InodelkClientExclusion'
  <2> SUFFICES ASSUME InodelkClientExclusion, InodelkStep,
                      NEW l1 \in inodelk_list', NEW l2 \in inodelk_list',
                      l1.client # l2.client
               PROVE  ~Clash(l1, l2)
    BY InodelkSteps DEF InodelkClientExclusion, Clash, inodelk_overlap,
                        inodelk_type_conflict
  <2>1. CASE inodelk_list' \subseteq inodelk_list
    BY <2>1 DEF InodelkClientExclusion
  <2>2. ASSUME NEW lock, inodelk_list' = inodelk_list \cup {lock},
               inodelk_grantable(lock)
        PROVE  ~Clash(l1, l2)
    <3>1. CASE l1 \in inodelk_list /\ l2 \in inodelk_list
      BY <3>1 DEF InodelkClientExclusion
    <3>2. CASE l1 = lock /\ l2 \in inodelk_list
      BY <3>2, <2>2, GrantedClashesWithNoOtherClient
    <3>3. CASE l2 = lock /\ l1 \in inodelk_list
      BY <3>3, <2>2, GrantedClashesWithNoOtherClient
    <3>4. CASE l1 = lock /\ l2 = lock
      BY <3>4
    <3> QED
      BY <2>2, <3>1, <3>2, <3>3, <3>4
  <2> QED
    BY <2>1, <2>2 DEF InodelkStep
<1> QED
  BY <1>1, <1>2, PTL DEF Spec

-----------------------------------------------------------------------------
(* Type correctness *)

\* The assumptions on the constants, together.
LEMMA ConstantTypes ==
  /\ \A t \in Txn : Home[t] \in Client
  /\ \A r \in Region : /\ r.type \in {"RD", "WR"}
                       /\ r.start \in Nat /\ r.end \in Nat /\ r.start <= r.end
  /\ NoWorker \notin Worker /\ NoTxn \notin Txn /\ Dir \subseteq BOOLEAN
BY HomeAssumption, RegionAssumption, FreshAssumption, DirAssumption

(* What a worker's call may become: the conditions of TypeOK on one worker. *)
CallOK(k) ==
  /\ k \in CallOn("inode", InodeLock) \/ k \in CallOn("entry", EntryLock)
  /\ k.pc \notin {"loop", "unwind"} => k.blocked = <<>> /\ k.granted = <<>>
  /\ k.op \in {"lock", "unlock"} => k.txn \in Txn

(* A step of worker w that gives it a well-formed call, and takes or drops the
   mutex as the pc of the call says, keeps what TypeOK says of the workers. *)
LEMMA CallStep ==
  ASSUME TypeOK, NEW w \in Worker, NEW k, CallOK(k),
         work' = [work EXCEPT ![w] = k],
         \/ mutex' = mutex /\ (k.pc = "loop" <=> work[w].pc = "loop")
         \/ mutex = NoWorker /\ mutex' = w /\ k.pc = "loop"
         \/ mutex = w /\ mutex' = NoWorker /\ k.pc # "loop"
  PROVE  /\ mutex' \in Worker \cup {NoWorker}
         /\ work' \in [Worker -> CallOn("inode", InodeLock) \cup CallOn("entry", EntryLock)]
         /\ \A v \in Worker :
              /\ (mutex' = v) <=> (work'[v].pc = "loop")
              /\ work'[v].pc \notin {"loop", "unwind"} =>
                   work'[v].blocked = <<>> /\ work'[v].granted = <<>>
              /\ work'[v].op \in {"lock", "unlock"} => work'[v].txn \in Txn
<1>1. /\ work' \in [Worker -> CallOn("inode", InodeLock) \cup CallOn("entry", EntryLock)]
      /\ work'[w] = k /\ \A v \in Worker \ {w} : work'[v] = work[v]
  BY DEF TypeOK, CallOK
<1>2. mutex' \in Worker \cup {NoWorker}
  BY DEF TypeOK
<1>3. \A v \in Worker : (mutex' = v) <=> (work'[v].pc = "loop")
  BY <1>1, ConstantTypes DEF TypeOK
<1>4. ASSUME NEW v \in Worker PROVE CallOK(work'[v])
  BY <1>1, <1>4 DEF TypeOK, CallOK
<1> QED
  BY <1>1, <1>2, <1>3, <1>4 DEF CallOK

\* The empty lists are lists of locks.
LEMMA EmptySeqs == <<>> \in Seq(InodeLock) /\ <<>> \in Seq(EntryLock)
OBVIOUS

\* A thread without a call, and one that cleans up after a client.
LEMMA IdleOK ==
  /\ CallOK(Idle) /\ Idle.pc = "idle"
  /\ \A c \in Client, L \in SUBSET Txn :
       LET k == [Idle EXCEPT !.pc = "cleanup", !.conn = c, !.lockers = L]
       IN CallOK(k) /\ k.pc = "cleanup"
BY ZenonT(30), EmptySeqs DEF CallOK, CallOn, Idle, Call

\* The call of a thread that has answered, or has a lock to grant.
LEMMA CallsOK ==
  ASSUME NEW pc \in {"grant", "unwind"}, NEW kind \in {"inode", "entry"},
         NEW t \in Txn, NEW f \in Frame \cup Txn, NEW ret \in {0, 1},
         NEW granted \in BOOLEAN, NEW can_block \in BOOLEAN
  PROVE  /\ CallOK(Call(pc, kind, "unlock", t, f, ret))
         /\ CallOK(Answered(pc, kind, t, f, granted, can_block))
         /\ Call(pc, kind, "unlock", t, f, ret).pc = pc
         /\ Answered(pc, kind, t, f, granted, can_block).pc = pc
<1>1. ASSUME NEW op \in {"unlock", "lock", "blocked"}, NEW u \in Txn \cup {NoTxn},
             NEW g \in Frame \cup Txn \cup {NoTxn}, NEW s \in {0, 1},
             op # "blocked" => u \in Txn
      PROVE  CallOK(Call(pc, kind, op, u, g, s)) /\ Call(pc, kind, op, u, g, s).pc = pc
  BY <1>1, EmptySeqs DEF CallOK, CallOn, Call
<1> QED
  BY <1>1 DEF Answered

(* A request adds well-formed locks to the lists. *)
LEMMA OwnerTypes == \A t \in Txn : OwnerOf(t) \subseteq Frame \cup Txn
BY DEF OwnerOf

\* lock_inodelk and lock_name keep the types of the lists.
LEMMA ListTypes ==
  ASSUME TypeOK, NEW can_block \in BOOLEAN, NEW granted \in BOOLEAN
  PROVE  /\ \A lock \in InodeLock : lock_inodelk(lock, can_block, granted) =>
              /\ inodelk_list' \subseteq InodeLock /\ blocked_inodelks' \in Seq(InodeLock)
         /\ \A lock \in EntryLock : lock_name(lock, can_block, granted) =>
              /\ entrylk_list' \subseteq EntryLock /\ blocked_entrylks' \in Seq(EntryLock)
<1>1. /\ \A lock \in InodeLock : Append(blocked_inodelks, lock) \in Seq(InodeLock)
      /\ \A lock \in EntryLock : Append(blocked_entrylks, lock) \in Seq(EntryLock)
  BY DEF TypeOK
<1> QED
  BY ZenonT(30), <1>1 DEF TypeOK, lock_inodelk, lock_name

\* A lock request keeps the types.
LEMMA TypeRequest ==
  ASSUME TypeOK, NEW w \in Worker, NEW t \in Txn, Request(w, t)
  PROVE  TypeOK'
<1>1. ASSUME NEW r \in Region, NEW can_block \in BOOLEAN, pl_inodelk(w, t, r, can_block)
      PROVE  TypeOK'
  <2> PICK o \in OwnerOf(t), has \in inodelk_owner_has_lock :
       LET lock == [txn |-> t, client |-> Home[t], owner |-> o, type |-> r.type,
                    start |-> r.start, end |-> r.end]
           granted == inodelk_granted(lock, has)
       IN /\ lock_inodelk(lock, can_block, granted)
          /\ work' = [work EXCEPT ![w] =
                        Answered("grant", "inode", t, o, granted, can_block)]
    BY ZenonT(30), <1>1 DEF pl_inodelk
  <2> DEFINE lock == [txn |-> t, client |-> Home[t], owner |-> o, type |-> r.type,
                      start |-> r.start, end |-> r.end]
             granted == inodelk_granted(lock, has)
             k == Answered("grant", "inode", t, o, granted, can_block)
  <2>1. o \in Frame \cup Txn /\ lock \in InodeLock
    BY OwnerTypes, ConstantTypes DEF InodeLock
  <2>2. granted \in BOOLEAN
    BY DEF inodelk_granted, inodelk_grantable, inodelk_owner_has_lock
  <2>3. CallOK(k) /\ k.pc = "grant"
    BY <2>1, <2>2, CallsOK
  <2>4. lock_inodelk(lock, can_block, granted) /\ work' = [work EXCEPT ![w] = k]
    OBVIOUS
  <2>5. /\ txn' \in [Txn -> TxnOn("none", {"none"}) \cup TxnOn("inode", Region)
                             \cup TxnOn("entry", Name)]
    BY ZenonT(30), <1>1 DEF pl_inodelk, TypeOK, TxnOn
  <2> HIDE DEF lock, granted, k
  <2>6. work[w].pc = "idle" /\ mutex' = mutex
    BY SMTT(30), <1>1 DEF pl_inodelk, Ready
  <2>7. inodelk_list' \subseteq InodeLock /\ blocked_inodelks' \in Seq(InodeLock)
    BY <2>1, <2>2, <2>4, ListTypes
  <2> QED
    BY ZenonT(30), <1>1, <2>3, <2>4, <2>5, <2>6, <2>7, CallStep DEF pl_inodelk, TypeOK, elk
<1>2. ASSUME NEW n \in Name, NEW can_block \in BOOLEAN, pl_entrylk(w, t, n, can_block)
      PROVE  TypeOK'
  <2> PICK o \in OwnerOf(t) :
       LET lock == [txn |-> t, client |-> Home[t], owner |-> o, name |-> n]
           granted == entrylk_granted(lock)
       IN /\ lock_name(lock, can_block, granted)
          /\ work' = [work EXCEPT ![w] =
                        Answered("unwind", "entry", t, o, granted, can_block)]
    BY ZenonT(30), <1>2 DEF pl_entrylk
  <2> DEFINE lock == [txn |-> t, client |-> Home[t], owner |-> o, name |-> n]
             granted == entrylk_granted(lock)
             k == Answered("unwind", "entry", t, o, granted, can_block)
  <2>1. o \in Frame \cup Txn /\ lock \in EntryLock
    BY OwnerTypes, ConstantTypes DEF EntryLock
  <2>2. granted \in BOOLEAN
    BY ZenonT(30) DEF entrylk_granted, entrylk_grantable
  <2>3. CallOK(k) /\ k.pc = "unwind"
    BY <2>1, <2>2, CallsOK
  <2>4. lock_name(lock, can_block, granted) /\ work' = [work EXCEPT ![w] = k]
    BY ZenonT(30)
  <2>5. /\ txn' \in [Txn -> TxnOn("none", {"none"}) \cup TxnOn("inode", Region)
                             \cup TxnOn("entry", Name)]
    BY ZenonT(30), <1>2 DEF pl_entrylk, TypeOK, TxnOn
  <2> HIDE DEF lock, granted, k
  <2>6. work[w].pc = "idle" /\ mutex' = mutex
    BY <1>2 DEF pl_entrylk, Ready
  <2>7. entrylk_list' \subseteq EntryLock /\ blocked_entrylks' \in Seq(EntryLock)
    BY <2>1, <2>2, <2>4, ListTypes
  <2> QED
    BY ZenonT(30), <1>2, <2>3, <2>4, <2>5, <2>6, <2>7, CallStep DEF pl_entrylk, TypeOK, ilk
<1> QED
  BY <1>1, <1>2 DEF Request

(* Replies move a transaction on and keep its request. *)
LEMMA TxnTypes ==
  ASSUME TypeOK, NEW t \in Txn, NEW st \in {"asked", "held", "unlocking", "done"},
         txn' = [txn EXCEPT ![t].st = st]
  PROVE  /\ txn' \in [Txn -> TxnOn("none", {"none"}) \cup TxnOn("inode", Region)
                                    \cup TxnOn("entry", Name)]
<1>1. /\ txn'[t] = [txn[t] EXCEPT !.st = st]
      /\ \A u \in Txn \ {t} : txn'[u] = txn[u]
  BY DEF TypeOK
<1>2. txn'[t] \in TxnOn("none", {"none"}) \cup TxnOn("inode", Region) \cup TxnOn("entry", Name)
  BY ZenonT(30), <1>1 DEF TypeOK, TxnOn
<1> QED
  BY <1>1, <1>2 DEF TypeOK

\* An unlock keeps the types.
LEMMA TypeUnlock ==
  ASSUME TypeOK, NEW w \in Worker, NEW t \in Txn, Unlock(w, t)
  PROVE  TypeOK'
<1>1. CASE pl_inode_unlock(w, t)
  <2>1. PICK o \in OwnerOf(t), ret \in {0, 1} :
          work' = [work EXCEPT ![w] = Call("grant", "inode", "unlock", t, o, ret)]
    BY <1>1 DEF pl_inode_unlock
  <2>2. CallOK(Call("grant", "inode", "unlock", t, o, ret))
    BY ZenonT(30), OwnerTypes, CallsOK
  <2>3. Call("grant", "inode", "unlock", t, o, ret).pc = "grant"
    BY DEF Call
  <2>4. work[w].pc = "idle" /\ mutex' = mutex /\ inodelk_list' \subseteq inodelk_list
    BY <1>1 DEF pl_inode_unlock, Ready
  <2>5. txn' = [txn EXCEPT ![t].st = "unlocking"]
    BY <1>1 DEF pl_inode_unlock
  <2> QED
    BY ZenonT(30), <1>1, <2>1, <2>2, <2>3, <2>4, <2>5, CallStep, TxnTypes DEF pl_inode_unlock, TypeOK, elk
<1>2. CASE pl_entry_unlock(w, t)
  <2>1. PICK o \in OwnerOf(t), pc \in {"grant", "unwind"} :
          work' = [work EXCEPT ![w] = Call(pc, "entry", "unlock", t, o, 0)]
    BY <1>2 DEF pl_entry_unlock
  <2>2. CallOK(Call(pc, "entry", "unlock", t, o, 0))
    BY ZenonT(30), OwnerTypes, CallsOK
  <2>3. Call(pc, "entry", "unlock", t, o, 0).pc # "loop"
    BY DEF Call
  <2>4. work[w].pc = "idle" /\ mutex' = mutex /\ entrylk_list' \subseteq entrylk_list
    BY <1>2 DEF pl_entry_unlock, Ready
  <2>5. txn' = [txn EXCEPT ![t].st = "unlocking"]
    BY <1>2 DEF pl_entry_unlock
  <2> QED
    BY ZenonT(30), <1>2, <2>1, <2>2, <2>3, <2>4, <2>5, CallStep, TxnTypes DEF pl_entry_unlock, TypeOK, ilk
<1> QED
  BY <1>1, <1>2 DEF Unlock

(* The grant loop moves locks between lists of one kind. *)
LEMMA TypeLoop ==
  ASSUME TypeOK, NEW w \in Worker,
         \/ grant_enter(w) \/ grant_exit(w)
         \/ grant_blocked_inode_lock(w) \/ grant_blocked_entry_lock(w)
  PROVE  TypeOK'
<1> DEFINE k == work[w]
<1>0. /\ work \in [Worker -> CallOn("inode", InodeLock) \cup CallOn("entry", EntryLock)]
      /\ CallOK(k) /\ (k.kind = "inode" => k \in CallOn("inode", InodeLock))
      /\ (k.kind # "inode" => k \in CallOn("entry", EntryLock))
  BY SMTT(30) DEF TypeOK, CallOK, CallOn
<1>1. CASE grant_enter(w)
  <2>1. PICK s : /\ work' = [work EXCEPT ![w] = [k EXCEPT !.pc = "loop", !.blocked = s]]
                 /\ k.kind = "inode" => s \in Seq(InodeLock)
                 /\ k.kind # "inode" => s \in Seq(EntryLock)
    <3>1. CASE k.kind = "inode"
      BY ZenonT(30), <1>0, <1>1, <3>1 DEF grant_enter, TypeOK
    <3>2. CASE k.kind # "inode"
      BY ZenonT(30), <1>0, <1>1, <3>2 DEF grant_enter, TypeOK
    <3> QED
      BY ZenonT(30), <3>1, <3>2
  <2>2. LET n == [k EXCEPT !.pc = "loop", !.blocked = s] IN CallOK(n) /\ n.pc = "loop"
    BY ZenonT(30), <1>0, <2>1 DEF CallOK, CallOn
  <2>3. /\ blocked_inodelks' \in Seq(InodeLock) /\ blocked_entrylks' \in Seq(EntryLock)
        /\ mutex = NoWorker /\ mutex' = w
    BY ZenonT(30), <1>1, EmptySeqs DEF grant_enter, TypeOK
  <2> HIDE DEF k
  <2> QED
    BY ZenonT(30), <1>1, <2>1, <2>2, <2>3, CallStep DEF grant_enter, TypeOK
<1>2. CASE grant_exit(w)
  <2>1. work' = [work EXCEPT ![w] = [k EXCEPT !.pc = "unwind"]]
    BY <1>0, <1>2 DEF grant_exit
  <2>2. LET n == [k EXCEPT !.pc = "unwind"] IN CallOK(n) /\ n.pc = "unwind"
    BY ZenonT(30), <1>0 DEF CallOK, CallOn
  <2>3. mutex = w /\ mutex' = NoWorker
    BY <1>2 DEF grant_exit, TypeOK
  <2> HIDE DEF k
  <2> QED
    BY ZenonT(30), <1>2, <2>1, <2>2, <2>3, CallStep DEF grant_exit, TypeOK, dom
<1>3. CASE grant_blocked_inode_lock(w)
  <2> DEFINE bl == Head(k.blocked)
  <2>1. PICK has \in inodelk_owner_has_lock :
          /\ lock_inodelk(bl, TRUE, inodelk_granted(bl, has))
          /\ work' = [work EXCEPT ![w].blocked = Tail(@), ![w].granted =
                        IF inodelk_granted(bl, has) THEN <<bl>> \o @ ELSE @]
    BY ZenonT(30), <1>3 DEF grant_blocked_inode_lock
  <2>2. /\ k \in CallOn("inode", InodeLock) /\ k.pc = "loop"
        /\ k.blocked \in Seq(InodeLock) /\ k.blocked # <<>> /\ k.granted \in Seq(InodeLock)
    BY ZenonT(30), <1>0, <1>3 DEF grant_blocked_inode_lock, CallOn
  <2>3. bl \in InodeLock /\ Tail(k.blocked) \in Seq(InodeLock) /\ <<bl>> \o k.granted \in Seq(InodeLock)
    BY <2>2
  <2>4. PICK g \in Seq(InodeLock) :
          work' = [work EXCEPT ![w] = [k EXCEPT !.blocked = Tail(k.blocked), !.granted = g]]
    BY ZenonT(30), <1>0, <2>1, <2>2, <2>3
  <2>5. LET n == [k EXCEPT !.blocked = Tail(k.blocked), !.granted = g]
        IN CallOK(n) /\ n.pc = "loop"
    BY ZenonT(30), <1>0, <2>2, <2>3 DEF CallOK, CallOn
  <2>6. inodelk_granted(bl, has) \in BOOLEAN
    BY DEF inodelk_granted, inodelk_grantable, inodelk_owner_has_lock
  <2>7. inodelk_list' \subseteq InodeLock /\ blocked_inodelks' \in Seq(InodeLock)
    BY ZenonT(30), <2>1, <2>3, <2>6, ListTypes
  <2> HIDE DEF k
  <2> QED
    BY ZenonT(30), <1>3, <2>2, <2>4, <2>5, <2>7, CallStep DEF grant_blocked_inode_lock, TypeOK, elk, k
<1>4. CASE grant_blocked_entry_lock(w)
  <2> DEFINE bl == Head(k.blocked)
  <2>1. /\ lock_name(bl, TRUE, entrylk_granted(bl))
        /\ work' = [work EXCEPT ![w].blocked = Tail(@), ![w].granted =
                      IF entrylk_granted(bl) THEN <<bl>> \o @ ELSE @]
    BY ZenonT(30), <1>4 DEF grant_blocked_entry_lock
  <2>2. /\ k \in CallOn("entry", EntryLock) /\ k.pc = "loop"
        /\ k.blocked \in Seq(EntryLock) /\ k.blocked # <<>> /\ k.granted \in Seq(EntryLock)
    BY ZenonT(30), <1>0, <1>4 DEF grant_blocked_entry_lock, CallOn
  <2>3. bl \in EntryLock /\ Tail(k.blocked) \in Seq(EntryLock) /\ <<bl>> \o k.granted \in Seq(EntryLock)
    BY <2>2
  <2>4. PICK g \in Seq(EntryLock) :
          work' = [work EXCEPT ![w] = [k EXCEPT !.blocked = Tail(k.blocked), !.granted = g]]
    BY ZenonT(30), <1>0, <2>1, <2>2, <2>3
  <2>5. LET n == [k EXCEPT !.blocked = Tail(k.blocked), !.granted = g]
        IN CallOK(n) /\ n.pc = "loop"
    BY ZenonT(30), <1>0, <2>2, <2>3 DEF CallOK, CallOn
  <2>6. entrylk_granted(bl) \in BOOLEAN
    BY DEF entrylk_granted, entrylk_grantable
  <2>7. entrylk_list' \subseteq EntryLock /\ blocked_entrylks' \in Seq(EntryLock)
    BY ZenonT(30), <2>1, <2>3, <2>6, ListTypes
  <2> HIDE DEF k
  <2> QED
    BY ZenonT(30), <1>4, <2>2, <2>4, <2>5, <2>7, CallStep DEF grant_blocked_entry_lock, TypeOK, ilk, k
<1> QED
  BY <1>1, <1>2, <1>3, <1>4

\* A reply keeps the types of the transactions and of the table of lockers.
LEMMA ReplyTypes ==
  ASSUME TypeOK, NEW t \in Txn, NEW ret,
         reply_locked(t) \/ reply_failed(t) \/ reply_unlocked(t, ret)
  PROVE  /\ ltable' \in [Client -> SUBSET Txn]
         /\ txn' \in [Txn -> TxnOn("none", {"none"}) \cup TxnOn("inode", Region)
                                    \cup TxnOn("entry", Name)]
<1>1. ltable' \in [Client -> SUBSET Txn]
  BY ConstantTypes DEF TypeOK, reply_locked, reply_failed, reply_unlocked
<1>2. CASE txn' = txn
  BY <1>1, <1>2 DEF TypeOK
<1>3. CASE txn' # txn
  <2>1. PICK st \in {"held", "done"} : txn' = [txn EXCEPT ![t].st = st]
    BY <1>3 DEF reply_locked, reply_failed, reply_unlocked
  <2> QED
    BY ZenonT(30), <1>1, <2>1, TxnTypes
<1> QED
  BY <1>2, <1>3

\* Unwinding what was granted, and leaving, keep the types.
LEMMA TypeReply ==
  ASSUME TypeOK, NEW w \in Worker, unwind_granted(w) \/ finish(w)
  PROVE  TypeOK'
<1> DEFINE k == work[w]
<1>0. /\ work \in [Worker -> CallOn("inode", InodeLock) \cup CallOn("entry", EntryLock)]
      /\ CallOK(k)
  BY SMTT(30) DEF TypeOK, CallOK, CallOn
<1>1. CASE unwind_granted(w)
  <2>1. /\ work' = [work EXCEPT ![w] = [k EXCEPT !.granted = Tail(k.granted)]]
        /\ reply_locked(Head(k.granted).txn)
    BY <1>0, <1>1 DEF unwind_granted
  <2>2. k.granted # <<>> /\ (k.granted \in Seq(InodeLock) \/ k.granted \in Seq(EntryLock))
    BY ZenonT(30), <1>0, <1>1 DEF unwind_granted, CallOn
  <2>3. Head(k.granted) \in InodeLock \/ Head(k.granted) \in EntryLock
    BY <2>2
  <2>4. Head(k.granted).txn \in Txn
    BY <2>3 DEF InodeLock, EntryLock
  <2>5. LET n == [k EXCEPT !.granted = Tail(k.granted)] IN CallOK(n) /\ n.pc = k.pc
    <3>1. \A S : k.granted \in Seq(S) => Tail(k.granted) \in Seq(S)
      BY <2>2
    <3> QED
      BY ZenonT(30), <1>0, <1>1, <3>1 DEF CallOK, CallOn, unwind_granted
  <2> HIDE DEF k
  <2> QED
    BY ZenonT(30), <1>1, <2>1, <2>4, <2>5, CallStep, ReplyTypes DEF unwind_granted, TypeOK, dom, k
<1>2. CASE finish(w)
  <2>1. /\ ltable' \in [Client -> SUBSET Txn]
        /\ txn' \in [Txn -> TxnOn("none", {"none"}) \cup TxnOn("inode", Region)
                              \cup TxnOn("entry", Name)]
    <3>1. CASE k.op \in {"lock", "unlock"}
      <4>1. k.txn \in Txn
        BY <1>0, <3>1 DEF CallOK
      <4>2. reply_locked(k.txn) \/ reply_failed(k.txn) \/ reply_unlocked(k.txn, k.ret)
        BY <1>2, <3>1 DEF finish
      <4> QED
        BY ZenonT(30), <4>1, <4>2, ReplyTypes
    <3>2. CASE k.op \notin {"lock", "unlock"}
      BY <1>2, <3>2 DEF finish, TypeOK
    <3> QED
      BY <3>1, <3>2
  <2> DEFINE n == IF k.lockers = {} THEN Idle
                  ELSE [Idle EXCEPT !.pc = "cleanup", !.conn = k.conn, !.lockers = k.lockers]
  <2>2. work' = [work EXCEPT ![w] = n] /\ k.pc = "unwind" /\ mutex' = mutex
    BY <1>2 DEF finish
  <2>3. CallOK(n) /\ n.pc # "loop"
    BY ZenonT(30), <1>0, <2>2, EmptySeqs DEF CallOK, CallOn, Idle, Call
  <2>4. refkeeper' \in BOOLEAN
    BY ZenonT(30), <1>2 DEF finish, pl_update_refkeeper, TypeOK
  <2> HIDE DEF n
  <2> QED
    BY ZenonT(30), <1>2, <2>1, <2>2, <2>3, <2>4, CallStep DEF finish, TypeOK, dom
<1> QED
  BY ZenonT(30), <1>1, <1>2

(* A list without locks of one client is still a list of locks. *)
LEMMA OthersType ==
  ASSUME NEW S, NEW s \in Seq(S), NEW c, NEW q
  PROVE  /\ q \in OfOthers(s, c) => q \in Seq(S)
         /\ q \in WithoutFirst(s, c) => q \in Seq(S)
<1>1. ASSUME q \in OfOthers(s, c) PROVE q \in Seq(S)
  <2> DEFINE kept == {i \in DOMAIN s : s[i].client # c}
  <2>1. PICK at \in UNION {[1..n -> kept] : n \in 0..Len(s)} :
             q = [i \in DOMAIN at |-> s[at[i]]]
    BY ZenonT(30), <1>1 DEF OfOthers
  <2>2. PICK n \in 0..Len(s) : at \in [1..n -> kept]
    BY ZenonT(30), <2>1
  <2>3. n \in Nat /\ DOMAIN at = 1..n /\ \A i \in 1..n : s[at[i]] \in S
    BY <2>2
  <2> QED
    BY <2>1, <2>3
<1>2. ASSUME q \in WithoutFirst(s, c) PROVE q \in Seq(S)
  <2>1. PICK i \in DOMAIN s : q = SubSeq(s, 1, i - 1) \o SubSeq(s, i + 1, Len(s))
    BY ZenonT(30), <1>2 DEF WithoutFirst
  <2>2. SubSeq(s, 1, i - 1) \in Seq(S) /\ SubSeq(s, i + 1, Len(s)) \in Seq(S)
    OBVIOUS
  <2> QED
    BY <2>1, <2>2
<1> QED
  BY <1>1, <1>2

\* The clean-up of a dead client's locks keeps the types.
LEMMA TypeCleanup ==
  ASSUME TypeOK, NEW w \in Worker, NEW t \in Txn,
         cleanup_file_locker(w, t) \/ cleanup_dir_locker(w, t)
  PROVE  TypeOK'
<1> DEFINE k == work[w]
<1>0. /\ work \in [Worker -> CallOn("inode", InodeLock) \cup CallOn("entry", EntryLock)]
      /\ CallOK(k) /\ k.pc = "cleanup" /\ k.blocked = <<>> /\ k.granted = <<>>
  BY DEF TypeOK, CallOK, CallOn, cleanup_file_locker, cleanup_dir_locker
<1>1. CASE cleanup_file_locker(w, t)
  <2>1. inodelk_list' \subseteq InodeLock /\ blocked_inodelks' \in Seq(InodeLock)
    <3>1. inodelk_list' \subseteq inodelk_list
      BY ZenonT(30), <1>1 DEF cleanup_file_locker, release_inode_locks_of_transport
    <3>2. \/ blocked_inodelks' = blocked_inodelks
          \/ blocked_inodelks' \in OfOthers(blocked_inodelks, k.conn)
          \/ blocked_inodelks' \in WithoutFirst(blocked_inodelks, k.conn)
      BY <1>1 DEF cleanup_file_locker, release_inode_locks_of_transport
    <3> QED
      BY ZenonT(30), <3>1, <3>2, OthersType DEF TypeOK
  <2> DEFINE n == [k EXCEPT !.pc = "grant", !.kind = "inode", !.op = "release",
                            !.lockers = @ \ {t}]
  <2>2. work' = [work EXCEPT ![w] = n] /\ mutex' = mutex
    BY ZenonT(30), <1>0, <1>1 DEF cleanup_file_locker
  <2>3. CallOK(n) /\ n.pc = "grant"
    BY ZenonT(30), <1>0, EmptySeqs DEF CallOK, CallOn
  <2> HIDE DEF n
  <2> QED
    BY ZenonT(30), <1>0, <1>1, <2>1, <2>2, <2>3, CallStep DEF cleanup_file_locker, TypeOK, elk
<1>2. CASE cleanup_dir_locker(w, t)
  <2>1. PICK q \in OfOthers(blocked_entrylks, k.conn) :
          work' = [work EXCEPT ![w].pc = "loop", ![w].kind = "entry", ![w].op = "release",
                               ![w].lockers = @ \ {t}, ![w].blocked = q]
    BY ZenonT(30), <1>2 DEF cleanup_dir_locker
  <2>2. q \in Seq(EntryLock)
    BY OthersType DEF TypeOK
  <2> DEFINE n == [k EXCEPT !.pc = "loop", !.kind = "entry", !.op = "release",
                            !.lockers = @ \ {t}, !.blocked = q]
  <2>3. work' = [work EXCEPT ![w] = n] /\ mutex = NoWorker /\ mutex' = w
    BY ZenonT(30), <1>0, <1>2, <2>1 DEF cleanup_dir_locker
  <2>4. CallOK(n) /\ n.pc = "loop"
    BY ZenonT(30), <1>0, <2>2, EmptySeqs DEF CallOK, CallOn
  <2>5. entrylk_list' \subseteq EntryLock /\ blocked_entrylks' \in Seq(EntryLock)
    BY ZenonT(30), <1>2, EmptySeqs DEF cleanup_dir_locker, TypeOK
  <2> HIDE DEF n
  <2> QED
    BY ZenonT(30), <1>2, <2>3, <2>4, <2>5, CallStep DEF cleanup_dir_locker, TypeOK, ilk
<1> QED
  BY <1>1, <1>2

\* Losing and making a connection keep the types.
LEMMA TypeConnection ==
  ASSUME TypeOK, NEW c \in Client
  PROVE  /\ \A w \in Worker : server_connection_cleanup(w, c) => TypeOK'
         /\ server_connection_get(c) => TypeOK'
         /\ \A t \in Txn : unlock_enotconn(t) => TypeOK'
<1>1. ASSUME NEW w \in Worker, server_connection_cleanup(w, c) PROVE TypeOK'
  <2> DEFINE n == IF ltable[c] = {} THEN Idle
                  ELSE [Idle EXCEPT !.pc = "cleanup", !.conn = c, !.lockers = ltable[c]]
  <2>1. work' = [work EXCEPT ![w] = n] /\ mutex' = mutex /\ work[w].pc = "idle"
    BY <1>1 DEF server_connection_cleanup
  <2>2. CallOK(n) /\ n.pc # "loop"
    BY ZenonT(30), IdleOK DEF TypeOK
  <2>3. txn' \in [Txn -> TxnOn("none", {"none"}) \cup TxnOn("inode", Region)
                           \cup TxnOn("entry", Name)]
    <3>1. ASSUME NEW t \in Txn
          PROVE  [txn[t] EXCEPT !.st = "done"] \in TxnOn("none", {"none"}) \cup TxnOn("inode", Region)
                           \cup TxnOn("entry", Name)
      BY ZenonT(30) DEF TypeOK, TxnOn
    <3> QED
      BY <1>1, <3>1 DEF server_connection_cleanup, TypeOK
  <2>4. ltable' \in [Client -> SUBSET Txn] /\ connected' \in [Client -> BOOLEAN]
    BY <1>1 DEF server_connection_cleanup, TypeOK
  <2> HIDE DEF n
  <2> QED
    BY ZenonT(30), <1>1, <2>1, <2>2, <2>3, <2>4, CallStep DEF server_connection_cleanup, TypeOK, dom
<1>2. ASSUME server_connection_get(c) PROVE TypeOK'
  BY SMTT(30), <1>2 DEF server_connection_get, TypeOK, dom
<1>3. ASSUME NEW t \in Txn, unlock_enotconn(t) PROVE TypeOK'
  <2>1. txn' = [txn EXCEPT ![t].st = "done"]
    BY <1>3 DEF unlock_enotconn
  <2> QED
    BY ZenonT(30), <1>3, <2>1, TxnTypes DEF unlock_enotconn, TypeOK, dom
<1> QED
  BY <1>1, <1>2, <1>3

\* The types hold at the start.
LEMMA TypeInit == Init => TypeOK
<1> SUFFICES ASSUME Init PROVE TypeOK
  OBVIOUS
<1>1. \A t \in Txn : txn[t] \in TxnOn("none", {"none"})
  BY DEF Init, TxnOn
<1>2. Idle \in CallOn("inode", InodeLock) /\ Idle.pc = "idle" /\ Idle.op = "none"
      /\ Idle.blocked = <<>> /\ Idle.granted = <<>>
  BY EmptySeqs DEF CallOn, Idle, Call
<1> QED
  BY ZenonT(30), <1>1, <1>2, ConstantTypes, EmptySeqs DEF Init, TypeOK

\* Every step keeps the types.
LEMMA TypeNext == TypeOK /\ [Next]_vars => TypeOK'
<1> SUFFICES ASSUME TypeOK, [Next]_vars PROVE TypeOK'
  OBVIOUS
<1>1. CASE UNCHANGED vars
  BY ZenonT(30), <1>1 DEF vars, dom, TypeOK
<1>2. ASSUME NEW w \in Worker, Serve(w) PROVE TypeOK'
  BY <1>2, TypeLoop, TypeReply, TypeCleanup DEF Serve
<1>3. ASSUME NEW w \in Worker, NEW t \in Txn, Request(w, t) \/ Unlock(w, t) PROVE TypeOK'
  BY <1>3, TypeRequest, TypeUnlock
<1>4. ASSUME NEW w \in Worker, NEW c \in Client, server_connection_cleanup(w, c) PROVE TypeOK'
  BY <1>4, TypeConnection
<1>5. ASSUME NEW c \in Client, server_connection_get(c) PROVE TypeOK'
  BY <1>5, TypeConnection
<1>6. ASSUME NEW t \in Txn, unlock_enotconn(t) PROVE TypeOK'
  BY ZenonT(30), <1>6, ConstantTypes, TypeConnection
<1> QED
  BY <1>1, <1>2, <1>3, <1>4, <1>5, <1>6 DEF Next

(* The lists hold well-formed locks of their own kind and the mutex is held
   exactly by the thread inside a grant loop, whatever the requests, threads
   and disconnections. *)
THEOREM LocksTyped == Spec => []TypeOK
BY TypeInit, TypeNext, PTL DEF Spec

-----------------------------------------------------------------------------
(* Entry locks *)

(* Every step leaves the list of granted entry locks alone, shrinks it, or adds
   one lock whose name conflicts with none of it. *)
EntrylkStep ==
  \/ entrylk_list' \subseteq entrylk_list
  \/ \E lock : /\ entrylk_list' = entrylk_list \cup {lock}
               /\ entrylk_grantable(lock)

\* Every step does one of these to the list.
LEMMA EntrylkSteps == [Next]_vars => EntrylkStep
<1> SUFFICES ASSUME [Next]_vars PROVE EntrylkStep
  OBVIOUS
<1>1. CASE UNCHANGED vars
  BY <1>1 DEF vars, dom, EntrylkStep
<1>2. ASSUME NEW w \in Worker, Serve(w) PROVE EntrylkStep
  <2>1. CASE grant_enter(w) \/ grant_exit(w) \/ unwind_granted(w) \/ finish(w)
    BY <2>1 DEF grant_enter, grant_exit, unwind_granted, finish, dom, EntrylkStep
  <2>2. CASE grant_blocked_inode_lock(w)
    BY ZenonT(30), <2>2 DEF grant_blocked_inode_lock, elk, EntrylkStep
  <2>3. CASE grant_blocked_entry_lock(w)
    BY ZenonT(30), <2>3 DEF grant_blocked_entry_lock, lock_name, entrylk_granted, EntrylkStep
  <2>4. ASSUME NEW t \in Txn, cleanup_file_locker(w, t) \/ cleanup_dir_locker(w, t)
        PROVE  EntrylkStep
    BY ZenonT(30), <2>4 DEF cleanup_file_locker, cleanup_dir_locker, elk, EntrylkStep
  <2> QED
    BY ZenonT(30), <1>2, <2>1, <2>2, <2>3, <2>4 DEF Serve
<1>3. ASSUME NEW w \in Worker, NEW t \in Txn, Request(w, t) PROVE EntrylkStep
  <2>1. ASSUME NEW r \in Region, NEW b \in BOOLEAN, pl_inodelk(w, t, r, b) PROVE EntrylkStep
    BY ZenonT(30), <2>1 DEF pl_inodelk, elk, EntrylkStep
  <2>2. ASSUME NEW n \in Name, NEW b \in BOOLEAN, pl_entrylk(w, t, n, b) PROVE EntrylkStep
    BY <2>2 DEF pl_entrylk, lock_name, entrylk_granted, EntrylkStep
  <2> QED
    BY <1>3, <2>1, <2>2 DEF Request
<1>4. ASSUME NEW w \in Worker, NEW t \in Txn, Unlock(w, t) PROVE EntrylkStep
  BY <1>4 DEF Unlock, pl_inode_unlock, pl_entry_unlock, elk, EntrylkStep
<1>5. ASSUME NEW w \in Worker, NEW c \in Client, server_connection_cleanup(w, c)
      PROVE EntrylkStep
  BY <1>5 DEF server_connection_cleanup, dom, EntrylkStep
<1>6. ASSUME NEW c \in Client, server_connection_get(c) PROVE EntrylkStep
  BY <1>6 DEF server_connection_get, dom, EntrylkStep
<1>7. ASSUME NEW t \in Txn, unlock_enotconn(t) PROVE EntrylkStep
  BY ZenonT(30), <1>7 DEF unlock_enotconn, dom, EntrylkStep
<1> QED
  BY <1>1, <1>2, <1>3, <1>4, <1>5, <1>6, <1>7 DEF Next

(* Two entry locks held at a time never cover the same name, for all clients,
   threads and names, and with any disconnections. *)
THEOREM EntryExclusion == Spec => []EntrylkExclusion
<1>1. Init => EntrylkExclusion
  BY DEF Init, EntrylkExclusion
<1>2. EntrylkExclusion /\ [Next]_vars => EntrylkExclusion'
  <2> SUFFICES ASSUME EntrylkExclusion, EntrylkStep,
                      NEW l1 \in entrylk_list', NEW l2 \in entrylk_list', l1 # l2
               PROVE  ~names_conflict(l1.name, l2.name)
    BY EntrylkSteps DEF EntrylkExclusion, names_conflict
  <2>1. CASE entrylk_list' \subseteq entrylk_list
    BY <2>1 DEF EntrylkExclusion
  <2>2. ASSUME NEW lock, entrylk_list' = entrylk_list \cup {lock}, entrylk_grantable(lock)
        PROVE  ~names_conflict(l1.name, l2.name)
    BY ZenonT(30), <2>2 DEF EntrylkExclusion, entrylk_grantable, names_conflict
  <2> QED
    BY ZenonT(30), <2>1, <2>2 DEF EntrylkStep
<1> QED
  BY <1>1, <1>2, PTL DEF Spec

-----------------------------------------------------------------------------
(* One thread's record changes and the others' stay. *)
LEMMA WorkUpdate ==
  ASSUME TypeOK, NEW w \in Worker, NEW k, work' = [work EXCEPT ![w] = k]
  PROVE  work'[w] = k /\ \A v \in Worker \ {w} : work'[v] = work[v]
BY ZenonT(30) DEF TypeOK

(* The fields of a call that has answered. *)
LEMMA CallFields ==
  \A pc, kind, op, t, f, ret :
    /\ Call(pc, kind, op, t, f, ret).pc = pc
    /\ Call(pc, kind, op, t, f, ret).kind = kind
    /\ Call(pc, kind, op, t, f, ret).op = op
BY DEF Call

-----------------------------------------------------------------------------
(* The inode is pinned *)

(* A thread that will look at the lists again and set refkeeper. A blocked
   inodelk call leaves without doing so. *)
Updating(w) ==
  /\ work[w].pc \in {"grant", "loop", "unwind"}
  /\ ~(work[w].op = "blocked" /\ work[w].kind = "inode")

InLoop(w) == work[w].pc = "loop" /\ work[w].kind = "inode"

SomeHeld == inodelk_list # {} \/ entrylk_list # {}

SomeWait ==
  blocked_inodelks # <<>> \/ \E w \in Worker : InLoop(w) /\ work[w].blocked # <<>>

(* The last two conjuncts are why a blocked call may leave: when its grant loop
   grants the first lock of an empty list, the thread that emptied it has not
   finished yet. *)
RefkeeperInv ==
  /\ (refkeeper <=> SomeHeld) \/ \E w \in Worker : Updating(w)
  /\ inodelk_list = {} /\ SomeWait =>
       \E w \in Worker : /\ Updating(w)
                         /\ work[w].kind = "inode" /\ work[w].pc \in {"grant", "loop"}
  /\ \A w \in Worker : InLoop(w) /\ blocked_inodelks # <<>> => inodelk_list # {}

\* A request or an unlock keeps the inode pinned.
LEMMA RefkeeperCalls ==
  ASSUME TypeOK, RefkeeperInv, NEW w \in Worker, NEW t \in Txn, Request(w, t) \/ Unlock(w, t)
  PROVE  RefkeeperInv'
<1>0. work[w].pc = "idle" /\ \A v \in Worker : work[v].pc # "loop"
  BY FreshAssumption DEF Request, Unlock, pl_inodelk, pl_entrylk, pl_inode_unlock,
         pl_entry_unlock, Ready, TypeOK
<1>1. ASSUME NEW r \in Region, NEW b \in BOOLEAN, pl_inodelk(w, t, r, b) PROVE RefkeeperInv'
  <2>a. PICK o \in OwnerOf(t), has \in inodelk_owner_has_lock :
         LET lock == [txn |-> t, client |-> Home[t], owner |-> o, type |-> r.type,
                      start |-> r.start, end |-> r.end]
             granted == inodelk_granted(lock, has)
         IN /\ lock_inodelk(lock, b, granted)
            /\ work' = [work EXCEPT ![w] = Answered("grant", "inode", t, o, granted, b)]
    BY ZenonT(30), <1>1 DEF pl_inodelk
  <2> DEFINE lock == [txn |-> t, client |-> Home[t], owner |-> o, type |-> r.type,
                      start |-> r.start, end |-> r.end]
             granted == inodelk_granted(lock, has)
  <2>1. /\ lock_inodelk(lock, b, granted)
        /\ work' = [work EXCEPT ![w] = Answered("grant", "inode", t, o, granted, b)]
        /\ ~granted => (inodelk_list # {} \/ blocked_inodelks # <<>>)
    BY <2>a DEF inodelk_granted, inodelk_grantable, inodelk_blocked_conflict, Elems
  <2> HIDE DEF lock, granted
  <2>2. /\ work'[w] = Answered("grant", "inode", t, o, granted, b)
        /\ \A v \in Worker \ {w} : work'[v] = work[v]
    BY ZenonT(30), <2>1, WorkUpdate
  <2>3. /\ work'[w].pc = "grant" /\ work'[w].kind = "inode"
        /\ work'[w].op = "blocked" => ~granted /\ work'[w].op = "blocked"
        /\ work'[w].op # "blocked" => work'[w].op = "lock"
    BY <2>2 DEF Answered, Call
  <2>4. refkeeper' = refkeeper /\ entrylk_list' = entrylk_list
    BY <1>1 DEF pl_inodelk, elk
  <2>5. CASE granted
    BY ZenonT(30), <1>0, <2>1, <2>2, <2>3, <2>4, <2>5 DEF RefkeeperInv, Updating, InLoop, SomeHeld, SomeWait, lock_inodelk
  <2>6. CASE ~granted
    BY <1>0, <2>1, <2>2, <2>3, <2>4, <2>6 DEF RefkeeperInv, Updating, InLoop, SomeHeld, SomeWait, lock_inodelk
  <2> QED
    BY <2>5, <2>6
<1>2. ASSUME NEW n \in Name, NEW b \in BOOLEAN, pl_entrylk(w, t, n, b) PROVE RefkeeperInv'
  <2>1. PICK o \in OwnerOf(t), granted \in {TRUE, FALSE} :
          work' = [work EXCEPT ![w] = Answered("unwind", "entry", t, o, granted, b)]
    BY ZenonT(30), <1>2 DEF pl_entrylk, entrylk_granted, entrylk_grantable
  <2>a. /\ work'[w] = Answered("unwind", "entry", t, o, granted, b)
        /\ \A v \in Worker \ {w} : work'[v] = work[v]
    BY ZenonT(30), <2>1, WorkUpdate
  <2>2. work'[w].pc = "unwind" /\ work'[w].kind = "entry"
    BY <2>a DEF Answered, Call
  <2>3. UNCHANGED <<inodelk_list, blocked_inodelks>>
    BY ZenonT(30), <1>2 DEF pl_entrylk, ilk
  <2> QED
    BY SMTT(30), <1>0, <2>a, <2>2, <2>3 DEF RefkeeperInv, Updating, InLoop, SomeHeld, SomeWait
<1>3. CASE pl_inode_unlock(w, t)
  <2>1. PICK o \in OwnerOf(t), ret \in {0, 1} : work' = [work EXCEPT ![w] = Call("grant", "inode", "unlock", t, o, ret)]
    BY <1>3 DEF pl_inode_unlock
  <2>a. /\ work'[w] = Call("grant", "inode", "unlock", t, o, ret)
        /\ \A v \in Worker \ {w} : work'[v] = work[v]
    BY ZenonT(30), <2>1, WorkUpdate
  <2>2. work'[w].pc = "grant" /\ work'[w].kind = "inode" /\ work'[w].op = "unlock"
    BY <2>a, CallFields
  <2> QED
    BY SMTT(30), <1>0, <2>a, <2>2 DEF RefkeeperInv, Updating, InLoop, SomeHeld, SomeWait
<1>4. CASE pl_entry_unlock(w, t)
  <2>1. PICK o \in OwnerOf(t), pc \in {"grant", "unwind"} :
          work' = [work EXCEPT ![w] = Call(pc, "entry", "unlock", t, o, 0)]
    BY <1>4 DEF pl_entry_unlock
  <2>a. /\ work'[w] = Call(pc, "entry", "unlock", t, o, 0)
        /\ \A v \in Worker \ {w} : work'[v] = work[v]
    BY ZenonT(30), <2>1, WorkUpdate
  <2>2. work'[w].pc \in {"grant", "unwind"} /\ work'[w].kind = "entry" /\ work'[w].op = "unlock"
    BY SMTT(30), <2>a, CallFields
  <2>3. UNCHANGED <<inodelk_list, blocked_inodelks>>
    BY ZenonT(30), <1>4 DEF pl_entry_unlock, ilk
  <2> QED
    BY SMTT(30), <1>0, <2>a, <2>2, <2>3 DEF RefkeeperInv, Updating, InLoop, SomeHeld, SomeWait
<1> QED
  BY ZenonT(30), <1>1, <1>2, <1>3, <1>4 DEF Request, Unlock

\* The rest of a call keeps it pinned.
LEMMA RefkeeperServe ==
  ASSUME TypeOK, RefkeeperInv, NEW w \in Worker, Serve(w)
  PROVE  RefkeeperInv'
<1> DEFINE k == work[w]
<1> USE DEF RefkeeperInv, Updating, InLoop, SomeHeld, SomeWait
<1>0. /\ work \in [Worker -> CallOn("inode", InodeLock) \cup CallOn("entry", EntryLock)]
      /\ \A v \in Worker : (mutex = v) <=> (work[v].pc = "loop")
  BY ZenonT(30) DEF TypeOK
<1>1. CASE grant_enter(w)
  <2>1. PICK s : work' = [work EXCEPT ![w].pc = "loop", ![w].blocked = s]
    BY <1>1 DEF grant_enter
  <2>2. /\ work'[w].pc = "loop" /\ work'[w].blocked = s
        /\ work'[w].op = k.op /\ work'[w].kind = k.kind
        /\ \A v \in Worker \ {w} : work'[v] = work[v]
    BY <1>0, <2>1 DEF CallOn
  <2>3. \A v \in Worker : work[v].pc # "loop"
    BY ZenonT(30), <1>0, <1>1, FreshAssumption DEF grant_enter
  <2>4. CASE k.kind = "inode"
    <3>1. work'[w].blocked = blocked_inodelks /\ blocked_inodelks' = <<>>
      BY <1>0, <1>1, <2>4 DEF grant_enter, CallOn
    <3> QED
      BY <1>1, <2>2, <2>3, <2>4, <3>1 DEF grant_enter
  <2>5. CASE k.kind # "inode"
    BY <1>1, <2>2, <2>3, <2>5 DEF grant_enter
  <2> QED
    BY ZenonT(30), <2>4, <2>5
<1>2. CASE grant_blocked_inode_lock(w)
  <2> DEFINE bl == Head(k.blocked)
  <2>1. PICK has \in inodelk_owner_has_lock :
          /\ lock_inodelk(bl, TRUE, inodelk_granted(bl, has))
          /\ work' = [work EXCEPT ![w].blocked = Tail(@), ![w].granted =
                        IF inodelk_granted(bl, has) THEN <<bl>> \o @ ELSE @]
    BY ZenonT(30), <1>2 DEF grant_blocked_inode_lock
  <2> HIDE DEF bl
  <2>2. /\ work'[w].pc = k.pc /\ work'[w].op = k.op /\ work'[w].kind = k.kind
        /\ k.pc = "loop" /\ k.kind = "inode" /\ k.blocked # <<>>
        /\ \A v \in Worker \ {w} : work'[v] = work[v]
    BY <1>0, <1>2, <2>1 DEF CallOn, grant_blocked_inode_lock
  <2>3. UNCHANGED <<refkeeper, entrylk_list>>
    BY ZenonT(30), <1>2 DEF grant_blocked_inode_lock, elk
  <2>4. CASE inodelk_granted(bl, has)
    <3>1. inodelk_list' # {} /\ blocked_inodelks' = blocked_inodelks
      BY ZenonT(30), <2>1, <2>4 DEF lock_inodelk
    <3>2. CASE inodelk_list = {}
      <4>1. PICK v \in Worker : Updating(v)
        BY ZenonT(30), <2>2, <3>2
      <4>2. Updating(v)'
        BY ZenonT(30), <2>2, <4>1
      <4> QED
        BY ZenonT(30), <3>1, <4>2
    <3>3. CASE inodelk_list # {}
      <4>1. (\E v \in Worker : Updating(v)) => (\E v \in Worker : Updating(v)')
        BY ZenonT(30), <2>2
      <4> QED
        BY ZenonT(30), <2>3, <3>1, <3>3, <4>1
    <3> QED
      BY ZenonT(30), <3>2, <3>3
  <2>5. CASE ~inodelk_granted(bl, has)
    <3>1. inodelk_list # {} /\ inodelk_list' = inodelk_list
      BY <2>1, <2>2, <2>5 DEF lock_inodelk, inodelk_granted, inodelk_grantable,
           inodelk_blocked_conflict, Elems
    <3>2. (\E v \in Worker : Updating(v)) => (\E v \in Worker : Updating(v)')
      BY <2>2
    <3> QED
      BY ZenonT(30), <2>3, <3>1, <3>2
  <2> QED
    BY <2>4, <2>5
<1>3. CASE grant_blocked_entry_lock(w)
  <2>1. PICK g : work' = [work EXCEPT ![w].blocked = Tail(@), ![w].granted = g]
    BY ZenonT(30), <1>3 DEF grant_blocked_entry_lock
  <2>2. /\ work'[w].pc = k.pc /\ work'[w].op = k.op /\ work'[w].kind = k.kind
        /\ k.pc = "loop" /\ k.kind = "entry"
        /\ \A v \in Worker \ {w} : work'[v] = work[v]
    BY <1>0, <1>3, <2>1 DEF CallOn, grant_blocked_entry_lock
  <2>3. UNCHANGED <<inodelk_list, blocked_inodelks>>
    BY ZenonT(30), <1>3 DEF grant_blocked_entry_lock, ilk
  <2> QED
    BY SMTT(30), <2>2, <2>3
<1>4. CASE grant_exit(w)
  <2>1. /\ work'[w].pc = "unwind" /\ work'[w].op = k.op /\ work'[w].kind = k.kind
        /\ work'[w].blocked = <<>> /\ k.pc = "loop" /\ k.blocked = <<>>
        /\ \A v \in Worker \ {w} : work'[v] = work[v]
    BY <1>0, <1>4 DEF CallOn, grant_exit
  <2>2. \A v \in Worker \ {w} : work[v].pc # "loop"
    BY ZenonT(30), <1>0, <2>1
  <2>3. UNCHANGED <<inodelk_list, blocked_inodelks, entrylk_list, refkeeper>>
    BY ZenonT(30), <1>4 DEF grant_exit, dom
  <2> QED
    BY <2>1, <2>2, <2>3
<1>5. CASE unwind_granted(w)
  <2>1. /\ work'[w].pc = k.pc /\ work'[w].op = k.op /\ work'[w].kind = k.kind
        /\ work'[w].blocked = k.blocked
        /\ \A v \in Worker \ {w} : work'[v] = work[v]
    BY <1>0, <1>5 DEF CallOn, unwind_granted
  <2>2. UNCHANGED <<inodelk_list, blocked_inodelks, entrylk_list, refkeeper>>
    BY ZenonT(30), <1>5 DEF unwind_granted, dom
  <2> QED
    BY <2>1, <2>2
<1>6. CASE finish(w)
  <2>1. /\ work'[w].pc \in {"idle", "cleanup"} /\ k.pc = "unwind"
        /\ \A v \in Worker \ {w} : work'[v] = work[v]
    <3> DEFINE n == IF k.lockers = {} THEN Idle
                    ELSE [Idle EXCEPT !.pc = "cleanup", !.conn = k.conn, !.lockers = k.lockers]
    <3>1. n.pc \in {"idle", "cleanup"}
      BY DEF Idle, Call
    <3>2. work' = [work EXCEPT ![w] = n] /\ k.pc = "unwind"
      BY ZenonT(30), <1>6 DEF finish
    <3> HIDE DEF n
    <3> QED
      BY ZenonT(30), <3>1, <3>2, WorkUpdate
  <2>2. UNCHANGED <<inodelk_list, blocked_inodelks, entrylk_list>>
    BY ZenonT(30), <1>6 DEF finish, dom
  <2>3. (refkeeper' <=> SomeHeld) \/ \E v \in Worker : Updating(v)'
    <3>1. CASE k.op = "blocked" /\ k.kind = "inode"
      <4>1. refkeeper' = refkeeper /\ ~Updating(w)
        BY <1>6, <3>1 DEF finish
      <4> QED
        BY ZenonT(30), <2>1, <4>1
    <3>2. CASE ~(k.op = "blocked" /\ k.kind = "inode")
      BY ZenonT(30), <1>6, <3>2 DEF finish, pl_update_refkeeper, pl_inode_is_empty
    <3> QED
      BY ZenonT(30), <3>1, <3>2
  <2> QED
    BY <2>1, <2>2, <2>3
<1>7. ASSUME NEW t \in Txn, cleanup_file_locker(w, t) PROVE RefkeeperInv'
  <2>1. /\ work'[w].pc = "grant" /\ work'[w].op = "release" /\ work'[w].kind = "inode"
        /\ \A v \in Worker \ {w} : work'[v] = work[v]
    BY <1>0, <1>7 DEF CallOn, cleanup_file_locker
  <2>2. \A v \in Worker : work[v].pc # "loop"
    BY ZenonT(30), <1>0, <1>7, FreshAssumption DEF cleanup_file_locker
  <2> QED
    BY ZenonT(30), <2>1, <2>2
<1>8. ASSUME NEW t \in Txn, cleanup_dir_locker(w, t) PROVE RefkeeperInv'
  <2>1. /\ work'[w].pc = "loop" /\ work'[w].op = "release" /\ work'[w].kind = "entry"
        /\ \A v \in Worker \ {w} : work'[v] = work[v]
    BY <1>0, <1>8 DEF CallOn, cleanup_dir_locker
  <2>2. UNCHANGED <<inodelk_list, blocked_inodelks>> /\ k.pc = "cleanup"
    BY ZenonT(30), <1>8 DEF cleanup_dir_locker, ilk
  <2> QED
    BY <2>1, <2>2
<1> QED
  BY ZenonT(30), <1>1, <1>2, <1>3, <1>4, <1>5, <1>6, <1>7, <1>8 DEF Serve

\* Every step keeps it pinned.
LEMMA RefkeeperNext == TypeOK /\ RefkeeperInv /\ [Next]_vars => RefkeeperInv'
<1> SUFFICES ASSUME TypeOK, RefkeeperInv, [Next]_vars PROVE RefkeeperInv'
  BY ZenonT(30)
<1>1. CASE UNCHANGED vars
  BY ZenonT(30), <1>1 DEF vars, dom, RefkeeperInv, Updating, InLoop, SomeHeld, SomeWait
<1>2. ASSUME NEW w \in Worker, NEW c \in Client, server_connection_cleanup(w, c)
      PROVE  RefkeeperInv'
  <2> DEFINE n == IF ltable[c] = {} THEN Idle
                  ELSE [Idle EXCEPT !.pc = "cleanup", !.conn = c, !.lockers = ltable[c]]
  <2>1. n.pc \in {"idle", "cleanup"}
    BY DEF Idle, Call
  <2>4. work' = [work EXCEPT ![w] = n] /\ work[w].pc = "idle"
    BY <1>2 DEF server_connection_cleanup
  <2> HIDE DEF n
  <2>2. /\ work'[w].pc \in {"idle", "cleanup"} /\ work[w].pc = "idle"
        /\ \A v \in Worker \ {w} : work'[v] = work[v]
    BY <2>1, <2>4, WorkUpdate
  <2>3. UNCHANGED <<inodelk_list, blocked_inodelks, entrylk_list, refkeeper>>
    BY ZenonT(30), <1>2 DEF server_connection_cleanup, dom
  <2> QED
    BY <2>2, <2>3 DEF RefkeeperInv, Updating, InLoop, SomeHeld, SomeWait
<1>3. ASSUME NEW c \in Client, server_connection_get(c) PROVE RefkeeperInv'
  BY <1>3 DEF server_connection_get, dom, RefkeeperInv, Updating, InLoop, SomeHeld, SomeWait
<1>4. ASSUME NEW t \in Txn, unlock_enotconn(t) PROVE RefkeeperInv'
  BY <1>4 DEF unlock_enotconn, dom, RefkeeperInv, Updating, InLoop, SomeHeld, SomeWait
<1> QED
  BY <1>1, <1>2, <1>3, <1>4, RefkeeperCalls, RefkeeperServe DEF Next

(* Once no thread is inside the translator the inode is pinned exactly while
   locks are held on it, although a call that blocked leaves without updating
   the reference and its grant loop may have granted other locks. *)
THEOREM InodePinned == Spec => []RefkeeperPins
<1>1. Init => RefkeeperInv
  BY DEF Init, RefkeeperInv, SomeHeld, SomeWait, InLoop, Idle, Call
<1>2. TypeOK /\ RefkeeperInv => RefkeeperPins
  BY DEF RefkeeperInv, RefkeeperPins, Quiet, Updating, SomeHeld
<1> QED
  BY <1>1, <1>2, RefkeeperNext, TypeInit, TypeNext, PTL DEF Spec

-----------------------------------------------------------------------------
(* No lost wakeups *)

(* Why the i-th lock of a blocked list has to wait. *)
InodelkMustWait(i) ==
  \/ ~inodelk_grantable(blocked_inodelks[i])
  \/ \E j \in 1..(i - 1) : inodelk_conflict(blocked_inodelks[i], blocked_inodelks[j])

EntrylkMustWait(i) ==
  \/ ~entrylk_grantable(blocked_entrylks[i])
  \/ \E j \in 1..(i - 1) :
       names_conflict(blocked_entrylks[i].name, blocked_entrylks[j].name)

(* A lock that could be granted waits only while a thread is on its way to the
   grant loop of its kind. *)
ToGrant(w, kind) == work[w].pc = "grant" /\ work[w].kind = kind

InodelkWakeup ==
  \/ \E w \in Worker : ToGrant(w, "inode")
  \/ \A i \in 1..Len(blocked_inodelks) : InodelkMustWait(i)

EntrylkWakeup ==
  \/ \E w \in Worker : ToGrant(w, "entry")
  \/ \A i \in 1..Len(blocked_entrylks) : EntrylkMustWait(i)

(* More locks held, and one more lock that has to wait, change nothing for the
   locks that waited before. *)
LEMMA InodelkWaits ==
  ASSUME TypeOK, \A i \in 1..Len(blocked_inodelks) : InodelkMustWait(i),
         NEW lock, lock \in InodeLock, NEW has, NEW can_block \in BOOLEAN,
         lock_inodelk(lock, can_block, inodelk_granted(lock, has))
  PROVE  \A i \in 1..Len(blocked_inodelks') : InodelkMustWait(i)'
<1> DEFINE q == blocked_inodelks
<1>0. q \in Seq(InodeLock)
  BY ZenonT(30) DEF TypeOK
<1>1. CASE inodelk_granted(lock, has)
  <2>1. inodelk_list' = inodelk_list \cup {lock} /\ blocked_inodelks' = q
    BY ZenonT(30), <1>1 DEF lock_inodelk
  <2>2. \A i \in 1..Len(q) : ~inodelk_grantable(q[i]) => ~inodelk_grantable(q[i])'
    BY <2>1 DEF inodelk_grantable, inodelk_conflict, same_inodelk_owner, inodelk_overlap,
                inodelk_type_conflict
  <2> QED
    BY <2>1, <2>2 DEF InodelkMustWait
<1>2. CASE ~inodelk_granted(lock, has)
  <2>1. inodelk_list' = inodelk_list
    BY <1>2 DEF lock_inodelk
  <2>2. CASE ~can_block
    <3>1. blocked_inodelks' = q
      BY ZenonT(30), <1>2, <2>2 DEF lock_inodelk
    <3> QED
      BY <2>1, <3>1 DEF InodelkMustWait, inodelk_grantable
  <2>3. CASE can_block
    <3>0. PICK n \in Nat : n = Len(q)
      BY <1>0
    <3>1. /\ blocked_inodelks' = Append(q, lock) /\ Len(blocked_inodelks') = n + 1
          /\ blocked_inodelks'[n + 1] = lock
          /\ \A i \in 1..Len(q) : blocked_inodelks'[i] = q[i]
      BY <1>0, <1>2, <2>3, <3>0 DEF lock_inodelk
    <3>2. ASSUME NEW i \in 1..Len(q) PROVE InodelkMustWait(i)'
      <4>1. \A j \in 1..(i - 1) : blocked_inodelks'[j] = q[j]
        BY <1>0, <3>1
      <4> QED
        BY ZenonT(30), <2>1, <3>1, <4>1 DEF InodelkMustWait, inodelk_grantable
    <3>3. ~inodelk_grantable(lock) \/ \E j \in 1..Len(q) : inodelk_conflict(lock, q[j])
      BY <1>0, <1>2 DEF inodelk_granted, inodelk_blocked_conflict, Elems
    <3>4. InodelkMustWait(n + 1)'
      BY <1>0, <3>0, <2>1, <3>1, <3>3 DEF InodelkMustWait, inodelk_grantable
    <3> QED
      BY <3>0, <3>1, <3>2, <3>4
  <2> QED
    BY <2>2, <2>3
<1> QED
  BY ZenonT(30), <1>1, <1>2

\* What is in the blocked list has to wait, the lock just put there included.
LEMMA EntrylkWaits ==
  ASSUME TypeOK, \A i \in 1..Len(blocked_entrylks) : EntrylkMustWait(i),
         NEW lock, lock \in EntryLock, NEW can_block \in BOOLEAN,
         lock_name(lock, can_block, entrylk_granted(lock))
  PROVE  \A i \in 1..Len(blocked_entrylks') : EntrylkMustWait(i)'
<1> DEFINE q == blocked_entrylks
<1>0. q \in Seq(EntryLock)
  BY DEF TypeOK
<1>1. CASE entrylk_granted(lock)
  <2>1. entrylk_list' = entrylk_list \cup {lock} /\ blocked_entrylks' = q
    BY ZenonT(30), <1>1 DEF lock_name
  <2>2. \A i \in 1..Len(q) : ~entrylk_grantable(q[i]) => ~entrylk_grantable(q[i])'
    BY <2>1 DEF entrylk_grantable, names_conflict
  <2> QED
    BY <2>1, <2>2 DEF EntrylkMustWait
<1>2. CASE ~entrylk_granted(lock)
  <2>1. entrylk_list' = entrylk_list
    BY ZenonT(30), <1>2 DEF lock_name
  <2>2. CASE ~can_block
    <3>1. blocked_entrylks' = q
      BY ZenonT(30), <1>2, <2>2 DEF lock_name
    <3> QED
      BY <2>1, <3>1 DEF EntrylkMustWait, entrylk_grantable
  <2>3. CASE can_block
    <3>0. PICK n \in Nat : n = Len(q)
      BY <1>0
    <3>1. /\ blocked_entrylks' = Append(q, lock) /\ Len(blocked_entrylks') = n + 1
          /\ blocked_entrylks'[n + 1] = lock
          /\ \A i \in 1..Len(q) : blocked_entrylks'[i] = q[i]
      BY <1>0, <1>2, <2>3, <3>0 DEF lock_name
    <3>2. ASSUME NEW i \in 1..Len(q) PROVE EntrylkMustWait(i)'
      <4>1. \A j \in 1..(i - 1) : blocked_entrylks'[j] = q[j]
        BY <1>0, <3>1
      <4> QED
        BY ZenonT(30), <2>1, <3>1, <4>1 DEF EntrylkMustWait, entrylk_grantable
    <3>3. ~entrylk_grantable(lock) \/ \E j \in 1..Len(q) : names_conflict(lock.name, q[j].name)
      BY <1>0, <1>2 DEF entrylk_granted, entrylk_blocked_conflict, Elems, names_conflict
    <3>4. EntrylkMustWait(n + 1)'
      BY <1>0, <3>0, <2>1, <3>1, <3>3 DEF EntrylkMustWait, entrylk_grantable
    <3> QED
      BY <3>0, <3>1, <3>2, <3>4
  <2> QED
    BY <2>2, <2>3
<1> QED
  BY ZenonT(30), <1>1, <1>2

\* A step that leaves the inode locks alone loses no wake-up.
LEMMA InodelkUntouched ==
  ASSUME InodelkWakeup, UNCHANGED ilk,
         \A v \in Worker : ToGrant(v, "inode") => ToGrant(v, "inode")'
  PROVE  InodelkWakeup'
BY ZenonT(30) DEF InodelkWakeup, ilk, InodelkMustWait, inodelk_grantable

\* The same for entry locks.
LEMMA EntrylkUntouched ==
  ASSUME EntrylkWakeup, UNCHANGED elk,
         \A v \in Worker : ToGrant(v, "entry") => ToGrant(v, "entry")'
  PROVE  EntrylkWakeup'
BY ZenonT(30) DEF EntrylkWakeup, elk, EntrylkMustWait, entrylk_grantable

\* A request or an unlock loses no wake-up.
LEMMA WakeupCalls ==
  ASSUME TypeOK, InodelkWakeup, EntrylkWakeup, NEW w \in Worker, NEW t \in Txn,
         Request(w, t) \/ Unlock(w, t)
  PROVE  InodelkWakeup' /\ EntrylkWakeup'
<1>0. work[w].pc = "idle"
  BY DEF Request, Unlock, pl_inodelk, pl_entrylk, pl_inode_unlock, pl_entry_unlock, Ready
<1>1. ASSUME NEW r \in Region, NEW b \in BOOLEAN, pl_inodelk(w, t, r, b)
      PROVE  InodelkWakeup' /\ EntrylkWakeup'
  <2>1. PICK o \in OwnerOf(t), granted \in BOOLEAN :
          work' = [work EXCEPT ![w] = Answered("grant", "inode", t, o, granted, b)]
    BY ZenonT(30), <1>1 DEF pl_inodelk, inodelk_granted, inodelk_grantable
  <2>2. /\ work'[w] = Answered("grant", "inode", t, o, granted, b)
        /\ \A v \in Worker \ {w} : work'[v] = work[v]
    BY ZenonT(30), <2>1, WorkUpdate
  <2>3. work'[w].pc = "grant" /\ work'[w].kind = "inode"
    BY <2>2 DEF Answered, Call
  <2>4. InodelkWakeup'
    BY ZenonT(30), <2>3 DEF InodelkWakeup, ToGrant
  <2>5. EntrylkWakeup'
    BY ZenonT(30), <1>0, <1>1, <2>2, EntrylkUntouched DEF pl_inodelk, ToGrant
  <2> QED
    BY <2>4, <2>5
<1>2. ASSUME NEW n \in Name, NEW b \in BOOLEAN, pl_entrylk(w, t, n, b)
      PROVE  InodelkWakeup' /\ EntrylkWakeup'
  <2>1. PICK o \in OwnerOf(t) :
          LET lock == [txn |-> t, client |-> Home[t], owner |-> o, name |-> n]
              granted == entrylk_granted(lock)
          IN /\ lock_name(lock, b, granted)
             /\ work' = [work EXCEPT ![w] = Answered("unwind", "entry", t, o, granted, b)]
    BY ZenonT(30), <1>2 DEF pl_entrylk
  <2> DEFINE lock == [txn |-> t, client |-> Home[t], owner |-> o, name |-> n]
             k == Answered("unwind", "entry", t, o, entrylk_granted(lock), b)
  <2>2. lock_name(lock, b, entrylk_granted(lock)) /\ work' = [work EXCEPT ![w] = k]
    BY ZenonT(30), <2>1
  <2>3. lock \in EntryLock
    BY ZenonT(30), OwnerTypes, ConstantTypes DEF EntryLock
  <2> HIDE DEF lock, k
  <2>4. \A v \in Worker \ {w} : work'[v] = work[v]
    BY ZenonT(30), <2>2, WorkUpdate
  <2>5. InodelkWakeup'
    BY ZenonT(30), <1>0, <1>2, <2>4, InodelkUntouched DEF pl_entrylk, ToGrant
  <2>6. CASE \E v \in Worker : ToGrant(v, "entry")
    BY ZenonT(30), <1>0, <2>4, <2>5, <2>6 DEF EntrylkWakeup, ToGrant
  <2>7. CASE \A i \in 1..Len(blocked_entrylks) : EntrylkMustWait(i)
    BY ZenonT(30), <2>2, <2>3, <2>5, <2>7, EntrylkWaits DEF EntrylkWakeup
  <2> QED
    BY <2>6, <2>7 DEF EntrylkWakeup
<1>3. CASE pl_inode_unlock(w, t)
  <2>1. PICK o \in OwnerOf(t), ret \in {0, 1} :
          work' = [work EXCEPT ![w] = Call("grant", "inode", "unlock", t, o, ret)]
    BY <1>3 DEF pl_inode_unlock
  <2>2. /\ work'[w] = Call("grant", "inode", "unlock", t, o, ret)
        /\ \A v \in Worker \ {w} : work'[v] = work[v]
    BY ZenonT(30), <2>1, WorkUpdate
  <2>3. work'[w].pc = "grant" /\ work'[w].kind = "inode"
    BY SMTT(30), <2>2, CallFields
  <2>4. InodelkWakeup'
    BY <2>3 DEF InodelkWakeup, ToGrant
  <2>5. EntrylkWakeup'
    BY ZenonT(30), <1>0, <1>3, <2>2, EntrylkUntouched DEF pl_inode_unlock, ToGrant
  <2> QED
    BY <2>4, <2>5
<1>4. CASE pl_entry_unlock(w, t)
  <2>1. PICK o \in OwnerOf(t), pc \in {"grant", "unwind"} :
          /\ work' = [work EXCEPT ![w] = Call(pc, "entry", "unlock", t, o, 0)]
          /\ pc # "grant" => UNCHANGED entrylk_list
    BY <1>4 DEF pl_entry_unlock
  <2>2. /\ work'[w] = Call(pc, "entry", "unlock", t, o, 0)
        /\ \A v \in Worker \ {w} : work'[v] = work[v]
    BY ZenonT(30), <2>1, WorkUpdate
  <2>3. work'[w].pc = pc /\ work'[w].kind = "entry"
    BY SMTT(30), <2>2, CallFields
  <2>4. InodelkWakeup'
    BY ZenonT(30), <1>0, <1>4, <2>2, InodelkUntouched DEF pl_entry_unlock, ToGrant
  <2>5. CASE pc = "grant"
    BY ZenonT(30), <2>3, <2>4, <2>5 DEF EntrylkWakeup, ToGrant
  <2>6. CASE pc # "grant"
    BY ZenonT(30), <1>0, <1>4, <2>1, <2>2, <2>4, <2>6, EntrylkUntouched DEF pl_entry_unlock, ToGrant, elk
  <2> QED
    BY <2>5, <2>6
<1> QED
  BY ZenonT(30), <1>1, <1>2, <1>3, <1>4 DEF Request, Unlock

\* The rest of a call loses none.
LEMMA WakeupServe ==
  ASSUME TypeOK, InodelkWakeup, EntrylkWakeup, NEW w \in Worker, Serve(w)
  PROVE  InodelkWakeup' /\ EntrylkWakeup'
<1> DEFINE k == work[w]
<1>0. /\ work \in [Worker -> CallOn("inode", InodeLock) \cup CallOn("entry", EntryLock)]
      /\ \A v \in Worker : (mutex = v) <=> (work[v].pc = "loop")
  BY ZenonT(30) DEF TypeOK
<1>1. CASE grant_enter(w)
  <2>1. /\ work'[w].pc = "loop" /\ work'[w].kind = k.kind /\ k.kind \in {"inode", "entry"}
        /\ \A v \in Worker \ {w} : work'[v] = work[v]
    BY <1>0, <1>1 DEF CallOn, grant_enter
  <2>2. CASE k.kind = "inode"
    <3>1. blocked_inodelks' = <<>> /\ UNCHANGED elk
      BY ZenonT(30), <1>1, <2>2 DEF grant_enter, elk
    <3>2. InodelkWakeup'
      BY <3>1 DEF InodelkWakeup
    <3> QED
      BY ZenonT(30), <2>1, <2>2, <3>1, <3>2, EntrylkUntouched DEF ToGrant
  <2>3. CASE k.kind = "entry"
    <3>1. blocked_entrylks' = <<>> /\ UNCHANGED ilk
      BY <1>1, <2>3 DEF grant_enter, ilk
    <3>2. EntrylkWakeup'
      BY <3>1 DEF EntrylkWakeup
    <3> QED
      BY <2>1, <2>3, <3>1, <3>2, InodelkUntouched DEF ToGrant
  <2> QED
    BY <2>1, <2>2, <2>3
<1>2. CASE grant_blocked_inode_lock(w)
  <2> DEFINE bl == Head(k.blocked)
  <2>1. PICK has \in inodelk_owner_has_lock :
          /\ lock_inodelk(bl, TRUE, inodelk_granted(bl, has))
          /\ work' = [work EXCEPT ![w].blocked = Tail(@), ![w].granted =
                        IF inodelk_granted(bl, has) THEN <<bl>> \o @ ELSE @]
    BY ZenonT(30), <1>2 DEF grant_blocked_inode_lock
  <2>2. /\ k.pc = "loop" /\ k.blocked \in Seq(InodeLock) /\ k.blocked # <<>>
        /\ \A v \in Worker \ {w} : work'[v] = work[v]
    BY ZenonT(30), <1>0, <1>2, <2>1 DEF CallOn, grant_blocked_inode_lock
  <2>3. bl \in InodeLock
    BY <2>2
  <2> HIDE DEF bl
  <2>4. EntrylkWakeup'
    BY ZenonT(30), <1>2, <2>2, EntrylkUntouched DEF grant_blocked_inode_lock, ToGrant
  <2>5. CASE \E v \in Worker : ToGrant(v, "inode")
    BY <2>2, <2>4, <2>5 DEF InodelkWakeup, ToGrant
  <2>6. CASE \A i \in 1..Len(blocked_inodelks) : InodelkMustWait(i)
    BY ZenonT(30), <2>1, <2>3, <2>4, <2>6, InodelkWaits DEF InodelkWakeup
  <2> QED
    BY <2>5, <2>6 DEF InodelkWakeup
<1>3. CASE grant_blocked_entry_lock(w)
  <2> DEFINE bl == Head(k.blocked)
  <2>1. /\ lock_name(bl, TRUE, entrylk_granted(bl))
        /\ work' = [work EXCEPT ![w].blocked = Tail(@), ![w].granted =
                      IF entrylk_granted(bl) THEN <<bl>> \o @ ELSE @]
    BY ZenonT(30), <1>3 DEF grant_blocked_entry_lock
  <2>2. /\ k.pc = "loop" /\ k.blocked \in Seq(EntryLock) /\ k.blocked # <<>>
        /\ \A v \in Worker \ {w} : work'[v] = work[v]
    BY ZenonT(30), <1>0, <1>3, <2>1 DEF CallOn, grant_blocked_entry_lock
  <2>3. bl \in EntryLock
    BY <2>2
  <2> HIDE DEF bl
  <2>4. InodelkWakeup'
    BY ZenonT(30), <1>3, <2>2, InodelkUntouched DEF grant_blocked_entry_lock, ToGrant
  <2>5. CASE \E v \in Worker : ToGrant(v, "entry")
    BY <2>2, <2>4, <2>5 DEF EntrylkWakeup, ToGrant
  <2>6. CASE \A i \in 1..Len(blocked_entrylks) : EntrylkMustWait(i)
    BY ZenonT(30), <2>1, <2>3, <2>4, <2>6, EntrylkWaits DEF EntrylkWakeup
  <2> QED
    BY <2>5, <2>6 DEF EntrylkWakeup
<1>4. CASE grant_exit(w) \/ unwind_granted(w) \/ finish(w)
  <2>1. UNCHANGED ilk /\ UNCHANGED elk /\ k.pc \in {"loop", "unwind"}
    BY <1>4 DEF grant_exit, unwind_granted, finish, dom, ilk, elk
  <2>2. \A v \in Worker \ {w} : work'[v] = work[v]
    BY <1>0, <1>4 DEF grant_exit, unwind_granted, finish
  <2> QED
    BY ZenonT(30), <2>1, <2>2, InodelkUntouched, EntrylkUntouched DEF ToGrant
<1>5. ASSUME NEW t \in Txn, cleanup_file_locker(w, t) PROVE InodelkWakeup' /\ EntrylkWakeup'
  <2>1. /\ work'[w].pc = "grant" /\ work'[w].kind = "inode" /\ k.pc = "cleanup"
        /\ \A v \in Worker \ {w} : work'[v] = work[v]
    BY <1>0, <1>5 DEF CallOn, cleanup_file_locker
  <2>2. InodelkWakeup'
    BY <2>1 DEF InodelkWakeup, ToGrant
  <2> QED
    BY ZenonT(30), <1>5, <2>1, <2>2, EntrylkUntouched DEF cleanup_file_locker, ToGrant
<1>6. ASSUME NEW t \in Txn, cleanup_dir_locker(w, t) PROVE InodelkWakeup' /\ EntrylkWakeup'
  <2>1. k.pc = "cleanup" /\ \A v \in Worker \ {w} : work'[v] = work[v]
    BY ZenonT(30), <1>0, <1>6 DEF CallOn, cleanup_dir_locker
  <2>2. blocked_entrylks' = <<>>
    BY <1>6 DEF cleanup_dir_locker
  <2>3. EntrylkWakeup'
    BY <2>2 DEF EntrylkWakeup
  <2> QED
    BY ZenonT(30), <1>6, <2>1, <2>3, InodelkUntouched DEF cleanup_dir_locker, ToGrant
<1> QED
  BY ZenonT(30), <1>1, <1>2, <1>3, <1>4, <1>5, <1>6 DEF Serve

(* No wakeup is lost: once no thread is inside the translator, every blocked
   lock conflicts with a held one or with one blocked before it, whatever locks
   were given back, refused, or taken from a client that went away. *)
THEOREM WakeupsKept == Spec => []NoLostWakeup
<1>1. Init => InodelkWakeup /\ EntrylkWakeup
  BY DEF Init, InodelkWakeup, EntrylkWakeup
<1>2. TypeOK /\ InodelkWakeup /\ EntrylkWakeup /\ [Next]_vars => InodelkWakeup' /\ EntrylkWakeup'
  <2> SUFFICES ASSUME TypeOK, InodelkWakeup, EntrylkWakeup, [Next]_vars
               PROVE  InodelkWakeup' /\ EntrylkWakeup'
    BY ZenonT(30)
  <2>1. CASE UNCHANGED vars
    BY ZenonT(30), <2>1, InodelkUntouched, EntrylkUntouched DEF vars, dom, ilk, elk, ToGrant
  <2>2. ASSUME NEW w \in Worker, NEW c \in Client, server_connection_cleanup(w, c)
        PROVE  InodelkWakeup' /\ EntrylkWakeup'
    <3>1. UNCHANGED ilk /\ UNCHANGED elk /\ work[w].pc = "idle"
      BY <2>2 DEF server_connection_cleanup, dom, ilk, elk
    <3>2. \A v \in Worker \ {w} : work'[v] = work[v]
      BY ZenonT(30), <2>2 DEF server_connection_cleanup, TypeOK
    <3> QED
      BY <3>1, <3>2, InodelkUntouched, EntrylkUntouched DEF ToGrant
  <2>3. ASSUME NEW c \in Client, server_connection_get(c) PROVE InodelkWakeup' /\ EntrylkWakeup'
    BY ZenonT(30), <2>3, InodelkUntouched, EntrylkUntouched DEF server_connection_get, dom, ilk, elk, ToGrant
  <2>4. ASSUME NEW t \in Txn, unlock_enotconn(t) PROVE InodelkWakeup' /\ EntrylkWakeup'
    BY ZenonT(30), <2>4, InodelkUntouched, EntrylkUntouched DEF unlock_enotconn, dom, ilk, elk, ToGrant
  <2> QED
    BY ZenonT(30), <2>1, <2>2, <2>3, <2>4, WakeupCalls, WakeupServe DEF Next
<1>3. TypeOK /\ InodelkWakeup /\ EntrylkWakeup => NoLostWakeup
  <2> SUFFICES ASSUME TypeOK, InodelkWakeup, EntrylkWakeup, Quiet PROVE NoLostWakeup
    BY ZenonT(30) DEF NoLostWakeup
  <2>1. /\ DOMAIN blocked_inodelks = 1..Len(blocked_inodelks)
        /\ DOMAIN blocked_entrylks = 1..Len(blocked_entrylks)
    BY DEF TypeOK
  <2> QED
    BY ZenonT(30), <2>1 DEF InodelkWakeup, EntrylkWakeup, Quiet, ToGrant, InodelkMustWait, EntrylkMustWait,
                NoLostWakeup
<1> QED
  BY <1>1, <1>2, <1>3, TypeInit, TypeNext, PTL DEF Spec

=============================================================================
