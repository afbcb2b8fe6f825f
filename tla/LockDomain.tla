----------------------------- MODULE LockDomain -----------------------------
(* One lock domain of one inode on a server: the inodelk and entrylk calls of
   the features/locks translator (inodelk.c, entrylk.c), together with the part
   of protocol/server that decides when they are called for a client that went
   away (the lock table of a connection, server-helpers.c).

   A transaction of a client asks for one lock, uses it and gives it back. A
   server thread (Worker) carries a request through the translator; the inode's
   mutex is taken and dropped where the code does it, so requests of two threads
   interleave between the critical sections.

   The lists of granted locks are sets: the code only searches them, and where
   it takes "the first" of several locks with equal bounds the model takes any.
   The blocked lists are sequences: their order is the order of the retries. *)
EXTENDS Naturals, Sequences

CONSTANTS
  Client,      \* connections (server_connection_t), one per client process
  Txn,         \* transactions of the clients; the pid of their lock requests
  Home,        \* the client a transaction belongs to
  Frame,       \* addresses a call stack (frame->root) of the server can have
  Worker,      \* threads of the server
  Region,      \* what inodelk is asked for: a type, "RD" or "WR", and the first
               \* and the last byte
  Name,        \* names entrylk locks; AllNames is basename == NULL
  AllNames,
  NoWorker, NoTxn,
  Remote,      \* TRUE: requests arrive through protocol/server, which builds
               \* and destroys one call stack per request; FALSE: the caller is
               \* in the same process and its stack outlives the lock
  Dir,         \* whether the inode can be a directory, and can be a file: a
               \* subset of BOOLEAN
  PathOutcome, \* whether inode_path() can succeed, and can fail because the
               \* inode has no dentry any more: a subset of BOOLEAN
  MayDisconnect

ASSUME HomeAssumption == Home \in [Txn -> Client]
ASSUME RegionAssumption ==
  \A r \in Region : /\ r.type \in {"RD", "WR"}
                    /\ r.start \in Nat /\ r.end \in Nat /\ r.start <= r.end
ASSUME FreshAssumption == NoWorker \notin Worker /\ NoTxn \notin Txn
ASSUME DirAssumption == Dir \subseteq BOOLEAN
ASSUME LocalAssumption == Remote \in BOOLEAN /\ (MayDisconnect => Remote)

VARIABLES
  is_dir,                           \* S_ISDIR (inode->st_mode)
  inodelk_list, blocked_inodelks,   \* pl_dom_list_t
  entrylk_list, blocked_entrylks,
  refkeeper,                        \* pl_inode_t.refkeeper is set
  mutex,                            \* holder of pl_inode_t.mutex
  ltable,                           \* conn->ltable: transactions with a locker
  connected,                        \* the client's transport is up
  work,                             \* the call each worker is in
  txn                               \* state of the transactions at the client

dom  == <<inodelk_list, blocked_inodelks, entrylk_list, blocked_entrylks>>
ilk  == <<inodelk_list, blocked_inodelks>>
elk  == <<entrylk_list, blocked_entrylks>>
vars == <<is_dir, dom, refkeeper, mutex, ltable, connected, work, txn>>

Elems(s) == {s[i] : i \in DOMAIN s}

Call(pc, kind, op, t, f, ret) ==
  [pc |-> pc, kind |-> kind, op |-> op, txn |-> t, frame |-> f, ret |-> ret,
   blocked |-> <<>>, granted |-> <<>>, conn |-> NoTxn, lockers |-> {}]

Idle == Call("idle", "inode", "none", NoTxn, NoTxn, 0)

-----------------------------------------------------------------------------
(* inodelk.c *)

inodelk_type_conflict(l1, l2) == l2.type = "WR" \/ l1.type = "WR"

inodelk_overlap(l1, l2) == l1.end >= l2.start /\ l2.end >= l1.start

(* Variant: forgets which client the call stack belongs to. *)
same_owner_any_client(l1, l2) == l1.owner = l2.owner

same_inodelk_owner(l1, l2) == l1.owner = l2.owner /\ l1.client = l2.client

(* Variant: misses regions that share one byte. *)
inodelk_conflict_strict(l1, l2) ==
  /\ ~same_inodelk_owner(l1, l2)
  /\ l1.end > l2.start /\ l2.end > l1.start
  /\ inodelk_type_conflict(l1, l2)

inodelk_conflict(l1, l2) ==
  /\ ~same_inodelk_owner(l1, l2)
  /\ inodelk_overlap(l1, l2)
  /\ inodelk_type_conflict(l1, l2)

inodelk_grantable(lock) == \A l \in inodelk_list : ~inodelk_conflict(lock, l)

(* The emptiness test reads the list of the blocked entry locks. *)
inodelk_blocked_conflict(lock) ==
  /\ blocked_entrylks # <<>>
  /\ \E l \in Elems(blocked_inodelks) : inodelk_conflict(lock, l)

(* __owner_has_lock of inodelk.c walks the entry lock lists and reads them as
   inode locks: the compared fields lie outside the entry lock, so with a
   non-empty list the answer is any. *)
inodelk_owner_has_lock ==
  IF entrylk_list = {} /\ blocked_entrylks = <<>> THEN {FALSE} ELSE BOOLEAN

inodelk_granted(lock, has) ==
  inodelk_grantable(lock) /\ (inodelk_blocked_conflict(lock) => has)

(* __lock_inodelk *)
lock_inodelk(lock, can_block, granted) ==
  IF granted
  THEN inodelk_list' = inodelk_list \cup {lock} /\ UNCHANGED blocked_inodelks
  ELSE /\ blocked_inodelks' = IF can_block THEN Append(blocked_inodelks, lock)
                              ELSE blocked_inodelks
       /\ UNCHANGED inodelk_list

(* Variant: does not compare the bounds. *)
find_any_inodelk(r) == inodelk_list

(* find_matching_inodelk: equal bounds, whoever the owner is *)
find_matching_inodelk(r) ==
  {l \in inodelk_list : l.start = r.start /\ l.end = r.end}

-----------------------------------------------------------------------------
(* entrylk.c *)

names_conflict(n1, n2) == n1 = AllNames \/ n2 = AllNames \/ n1 = n2

same_entrylk_owner(l1, l2) == l1.owner = l2.owner /\ l1.client = l2.client

(* Variant: a lock on the whole directory only meets another one. *)
entrylk_grantable_exact(lock) == \A l \in entrylk_list : l.name # lock.name

entrylk_grantable(lock) ==
  \A l \in entrylk_list : ~names_conflict(l.name, lock.name)

(* Variant: looks at nobody who waits. *)
entrylk_no_queue(lock) == FALSE

entrylk_blocked_conflict(lock) ==
  \E l \in Elems(blocked_entrylks) : names_conflict(l.name, lock.name)

entrylk_owner_has_lock(lock) ==
  \E l \in entrylk_list \cup Elems(blocked_entrylks) :
     same_entrylk_owner(l, lock)

entrylk_granted(lock) ==
  /\ entrylk_grantable(lock)
  /\ entrylk_blocked_conflict(lock) => entrylk_owner_has_lock(lock)

(* __lock_name *)
lock_name(lock, can_block, granted) ==
  IF granted
  THEN entrylk_list' = entrylk_list \cup {lock} /\ UNCHANGED blocked_entrylks
  ELSE /\ blocked_entrylks' = IF can_block THEN Append(blocked_entrylks, lock)
                              ELSE blocked_entrylks
       /\ UNCHANGED entrylk_list

(* __find_most_matching_lock and the names_equal test of __unlock_name *)
find_matching_entrylk(n) == {l \in entrylk_list : l.name = n}

-----------------------------------------------------------------------------
(* Requests. A request leaves its critical section and either has to run the
   grant loop (pc "grant") or is ready to answer (pc "unwind"). A request that
   blocked is answered by whoever grants it, so its worker keeps no frame. *)

FrameInUse(f) ==
  \/ \E w \in Worker : \/ work[w].frame = f
                       \/ \E l \in Elems(work[w].blocked) \cup
                                  Elems(work[w].granted) : l.owner = f
  \/ \E l \in Elems(blocked_inodelks) \cup Elems(blocked_entrylks) :
        l.owner = f

OwnerOf(t) == IF Remote THEN {f \in Frame : ~FrameInUse(f)} ELSE {t}

Answered(pc, kind, t, f, granted, can_block) ==
  IF ~granted /\ can_block
  THEN Call(pc, kind, "blocked", NoTxn, NoTxn, 0)
  ELSE Call(pc, kind, "lock", t, f, IF granted THEN 0 ELSE 1)

Ready(w, t) ==
  work[w].pc = "idle" /\ mutex = NoWorker /\ connected[Home[t]]

(* pl_inodelk, pl_finodelk with F_SETLKW (can_block) or F_SETLK *)
pl_inodelk(w, t, r, can_block) ==
  /\ Ready(w, t) /\ txn[t].st = "idle"
  /\ \E o \in OwnerOf(t), has \in inodelk_owner_has_lock :
       LET lock == [txn |-> t, client |-> Home[t], owner |-> o, type |-> r.type,
                    start |-> r.start, end |-> r.end]
           granted == inodelk_granted(lock, has)
       IN /\ lock_inodelk(lock, can_block, granted)
          /\ work' = [work EXCEPT ![w] =
                        Answered("grant", "inode", t, o, granted, can_block)]
  /\ txn' = [txn EXCEPT ![t] = [st |-> "asked", kind |-> "inode", on |-> r]]
  /\ UNCHANGED <<is_dir, elk, refkeeper, mutex, ltable, connected>>

(* pl_inodelk with F_UNLCK: frees the lock with the same bounds *)
pl_inode_unlock(w, t) ==
  /\ Ready(w, t) /\ txn[t].st = "held" /\ txn[t].kind = "inode"
  /\ \E o \in OwnerOf(t) :
       LET found == find_matching_inodelk(txn[t].on)
       IN /\ IF found = {} THEN UNCHANGED inodelk_list
             ELSE \E l \in found : inodelk_list' = inodelk_list \ {l}
          /\ work' = [work EXCEPT ![w] = Call("grant", "inode", "unlock", t, o,
                                          IF found = {} THEN 1 ELSE 0)]
  /\ txn' = [txn EXCEPT ![t].st = "unlocking"]
  /\ UNCHANGED <<is_dir, blocked_inodelks, elk, refkeeper, mutex, ltable, connected>>

(* pl_entrylk, pl_fentrylk with ENTRYLK_LOCK (can_block) or ENTRYLK_LOCK_NB *)
pl_entrylk(w, t, n, can_block) ==
  /\ is_dir /\ Ready(w, t) /\ txn[t].st = "idle"
  /\ \E o \in OwnerOf(t) :
       LET lock == [txn |-> t, client |-> Home[t], owner |-> o, name |-> n]
           granted == entrylk_granted(lock)
       IN /\ lock_name(lock, can_block, granted)
          /\ work' = [work EXCEPT ![w] =
                        Answered("unwind", "entry", t, o, granted, can_block)]
  /\ txn' = [txn EXCEPT ![t] = [st |-> "asked", kind |-> "entry", on |-> n]]
  /\ UNCHANGED <<is_dir, ilk, refkeeper, mutex, ltable, connected>>

(* pl_entrylk with ENTRYLK_UNLOCK: succeeds even if no lock matches *)
pl_entry_unlock(w, t) ==
  /\ Ready(w, t) /\ txn[t].st = "held" /\ txn[t].kind = "entry"
  /\ \E o \in OwnerOf(t) :
       LET found == find_matching_entrylk(txn[t].on)
       IN /\ IF found = {} THEN UNCHANGED entrylk_list
             ELSE \E l \in found : entrylk_list' = entrylk_list \ {l}
          /\ work' = [work EXCEPT ![w] =
                Call(IF found = {} THEN "unwind" ELSE "grant", "entry",
                     "unlock", t, o, 0)]
  /\ txn' = [txn EXCEPT ![t].st = "unlocking"]
  /\ UNCHANGED <<is_dir, ilk, blocked_entrylks, refkeeper, mutex, ltable, connected>>

-----------------------------------------------------------------------------
(* The grant loop: the blocked list is moved to a local list and every lock of
   it is tried again, all under the mutex. *)

grant_enter(w) ==
  /\ work[w].pc = "grant" /\ mutex = NoWorker
  /\ mutex' = w
  /\ IF work[w].kind = "inode"
     THEN /\ work' = [work EXCEPT ![w].pc = "loop",
                                  ![w].blocked = blocked_inodelks]
          /\ blocked_inodelks' = <<>> /\ UNCHANGED blocked_entrylks
     ELSE /\ work' = [work EXCEPT ![w].pc = "loop",
                                  ![w].blocked = blocked_entrylks]
          /\ blocked_entrylks' = <<>> /\ UNCHANGED blocked_inodelks
  /\ UNCHANGED <<is_dir, inodelk_list, entrylk_list, refkeeper, ltable, connected, txn>>

(* __grant_blocked_inode_locks *)
grant_blocked_inode_lock(w) ==
  /\ work[w].pc = "loop" /\ work[w].kind = "inode" /\ work[w].blocked # <<>>
  /\ \E has \in inodelk_owner_has_lock :
       LET bl == Head(work[w].blocked)
           granted == inodelk_granted(bl, has)
       IN /\ lock_inodelk(bl, TRUE, granted)
          /\ work' = [work EXCEPT ![w].blocked = Tail(@), ![w].granted =
                        IF granted THEN <<bl>> \o @ ELSE @]
  /\ UNCHANGED <<is_dir, elk, refkeeper, mutex, ltable, connected, txn>>

(* Variant: a lock is granted but its caller is not told. *)
grant_entry_untold(w) ==
  /\ work[w].pc = "loop" /\ work[w].kind = "entry" /\ work[w].blocked # <<>>
  /\ LET bl == Head(work[w].blocked)
     IN lock_name(bl, TRUE, entrylk_granted(bl))
  /\ work' = [work EXCEPT ![w].blocked = Tail(@)]
  /\ UNCHANGED <<is_dir, ilk, refkeeper, mutex, ltable, connected, txn>>

(* __grant_blocked_entry_locks *)
grant_blocked_entry_lock(w) ==
  /\ work[w].pc = "loop" /\ work[w].kind = "entry" /\ work[w].blocked # <<>>
  /\ LET bl == Head(work[w].blocked)
         granted == entrylk_granted(bl)
     IN /\ lock_name(bl, TRUE, granted)
        /\ work' = [work EXCEPT ![w].blocked = Tail(@), ![w].granted =
                      IF granted THEN <<bl>> \o @ ELSE @]
  /\ UNCHANGED <<is_dir, ilk, refkeeper, mutex, ltable, connected, txn>>

grant_exit(w) ==
  /\ work[w].pc = "loop" /\ work[w].blocked = <<>>
  /\ mutex' = NoWorker
  /\ work' = [work EXCEPT ![w].pc = "unwind"]
  /\ UNCHANGED <<is_dir, dom, refkeeper, ltable, connected, txn>>

-----------------------------------------------------------------------------
(* Replies, through server_inodelk_cbk and server_entrylk_cbk *)

(* Variant: entry locks are not counted. *)
pl_inode_no_inodelk == inodelk_list = {}

pl_inode_is_empty == inodelk_list = {} /\ entrylk_list = {}

pl_update_refkeeper == refkeeper' = ~pl_inode_is_empty

(* The reply to a lock request: the server adds a locker to the table of the
   connection, the client learns of it if its transport is still the same. *)
reply_locked(t) ==
  /\ ltable' = [ltable EXCEPT ![Home[t]] = @ \cup {t}]
  /\ txn' = IF txn[t].st = "asked" THEN [txn EXCEPT ![t].st = "held"] ELSE txn

unwind_granted(w) ==
  /\ work[w].pc = "unwind" /\ work[w].granted # <<>>
  /\ reply_locked(Head(work[w].granted).txn)
  /\ work' = [work EXCEPT ![w].granted = Tail(@)]
  /\ UNCHANGED <<is_dir, dom, refkeeper, mutex, connected>>

reply_failed(t) ==
  /\ txn' = IF txn[t].st = "asked" THEN [txn EXCEPT ![t].st = "done"] ELSE txn
  /\ UNCHANGED ltable

reply_unlocked(t, ret) ==
  /\ ltable' = IF ret = 0 THEN [ltable EXCEPT ![Home[t]] = @ \ {t}] ELSE ltable
  /\ txn' = [txn EXCEPT ![t].st = "done"]

(* The end of pl_common_inodelk and pl_common_entrylk *)
finish(w) ==
  LET k == work[w] IN
  /\ k.pc = "unwind" /\ k.granted = <<>> /\ mutex = NoWorker
  /\ IF k.op = "blocked" /\ k.kind = "inode" THEN UNCHANGED refkeeper
     ELSE pl_update_refkeeper
  /\ \/ k.op = "lock" /\ k.ret = 0 /\ reply_locked(k.txn)
     \/ k.op = "lock" /\ k.ret # 0 /\ reply_failed(k.txn)
     \/ k.op = "unlock" /\ reply_unlocked(k.txn, k.ret)
     \/ k.op \in {"blocked", "release"} /\ UNCHANGED <<ltable, txn>>
  /\ work' = [work EXCEPT ![w] = IF k.lockers = {} THEN Idle
                 ELSE [Idle EXCEPT !.pc = "cleanup", !.conn = k.conn,
                                   !.lockers = k.lockers]]
  /\ UNCHANGED <<is_dir, dom, mutex, connected>>

-----------------------------------------------------------------------------
(* A client goes away: protocol/server takes the lock table of the connection
   (server_connection_cleanup) and sends, for every locker in it, an inodelk
   with pid 0 if the locked inode is a file and an entrylk with pid 0 if it is
   a directory (do_lock_table_cleanup). *)

server_connection_cleanup(w, c) ==
  /\ MayDisconnect /\ connected[c] /\ work[w].pc = "idle"
  /\ connected' = [connected EXCEPT ![c] = FALSE]
  /\ ltable' = [ltable EXCEPT ![c] = {}]
  /\ work' = [work EXCEPT ![w] = IF ltable[c] = {} THEN Idle
                 ELSE [Idle EXCEPT !.pc = "cleanup", !.conn = c,
                                   !.lockers = ltable[c]]]
  /\ txn' = [t \in Txn |->
               IF Home[t] = c /\ txn[t].st \in {"asked", "unlocking"}
               THEN [txn[t] EXCEPT !.st = "done"] ELSE txn[t]]
  /\ UNCHANGED <<is_dir, dom, refkeeper, mutex>>

(* What is left of a blocked list without the locks of a client, in its order,
   and without the first of them; each is a set of one sequence. *)
OfOthers(s, c) ==
  LET kept == {i \in DOMAIN s : s[i].client # c}
      picks == {at \in UNION {[1..n -> kept] : n \in 0..Len(s)} :
                  /\ \A i, j \in DOMAIN at : i < j => at[i] < at[j]
                  /\ \A k \in kept : \E i \in DOMAIN at : at[i] = k}
  IN {[i \in DOMAIN at |-> s[at[i]]] : at \in picks}

WithoutFirst(s, c) ==
  {SubSeq(s, 1, i - 1) \o SubSeq(s, i + 1, Len(s)) :
     i \in {j \in DOMAIN s : /\ s[j].client = c
                            /\ \A k \in 1..(j - 1) : s[k].client # c}}

(* release_inode_locks_of_transport: gives up at the first lock it has taken
   off a list when the inode has no path any more *)
release_inode_locks_of_transport(c) ==
  LET mine == {l \in inodelk_list : l.client = c}
      waiting == {l \in Elems(blocked_inodelks) : l.client = c}
  IN \E path \in PathOutcome :
     \/ /\ path
        /\ inodelk_list' = inodelk_list \ mine
        /\ blocked_inodelks' \in OfOthers(blocked_inodelks, c)
     \/ /\ ~path /\ waiting # {}
        /\ blocked_inodelks' \in WithoutFirst(blocked_inodelks, c)
        /\ UNCHANGED inodelk_list
     \/ /\ ~path /\ waiting = {} /\ mine # {}
        /\ \E l \in mine : inodelk_list' = inodelk_list \ {l}
        /\ UNCHANGED blocked_inodelks
     \/ /\ ~path /\ waiting = {} /\ mine = {}
        /\ UNCHANGED <<inodelk_list, blocked_inodelks>>

cleanup_file_locker(w, t) ==
  /\ work[w].pc = "cleanup" /\ t \in work[w].lockers /\ ~is_dir
  /\ mutex = NoWorker
  /\ release_inode_locks_of_transport(work[w].conn)
  /\ work' = [work EXCEPT ![w].pc = "grant", ![w].kind = "inode",
                          ![w].op = "release", ![w].lockers = @ \ {t}]
  /\ UNCHANGED <<is_dir, elk, refkeeper, mutex, ltable, connected, txn>>

(* Variant: the locks of the dead client go, the waiters are not woken. *)
cleanup_dir_silent(w, t) ==
  /\ work[w].pc = "cleanup" /\ t \in work[w].lockers /\ is_dir
  /\ mutex = NoWorker
  /\ entrylk_list' = {l \in entrylk_list : l.client # work[w].conn}
  /\ work' = [work EXCEPT ![w].pc = "unwind", ![w].kind = "entry",
                          ![w].op = "release", ![w].lockers = @ \ {t}]
  /\ UNCHANGED <<is_dir, ilk, blocked_entrylks, refkeeper, mutex, ltable, connected, txn>>

(* release_entry_locks_for_transport runs the grant loop in its own critical
   section *)
cleanup_dir_locker(w, t) ==
  /\ work[w].pc = "cleanup" /\ t \in work[w].lockers /\ is_dir
  /\ mutex = NoWorker
  /\ LET c == work[w].conn IN
     /\ entrylk_list' = {l \in entrylk_list : l.client # c}
     /\ blocked_entrylks' = <<>>
     /\ \E others \in OfOthers(blocked_entrylks, c) :
          work' = [work EXCEPT ![w].pc = "loop", ![w].kind = "entry",
                     ![w].op = "release", ![w].lockers = @ \ {t},
                     ![w].blocked = others]
  /\ mutex' = w
  /\ UNCHANGED <<is_dir, ilk, refkeeper, ltable, connected, txn>>

(* The client connects again; protocol/server finds the connection by the id of
   the client process. *)
server_connection_get(c) ==
  /\ ~connected[c]
  /\ connected' = [connected EXCEPT ![c] = TRUE]
  /\ UNCHANGED <<is_dir, dom, refkeeper, mutex, ltable, work, txn>>

(* An unlock wound while the transport is down fails at the client. *)
unlock_enotconn(t) ==
  /\ txn[t].st = "held" /\ ~connected[Home[t]]
  /\ txn' = [txn EXCEPT ![t].st = "done"]
  /\ UNCHANGED <<is_dir, dom, refkeeper, mutex, ltable, connected, work>>

-----------------------------------------------------------------------------
Init ==
  /\ is_dir \in Dir
  /\ inodelk_list = {} /\ blocked_inodelks = <<>>
  /\ entrylk_list = {} /\ blocked_entrylks = <<>>
  /\ refkeeper = FALSE /\ mutex = NoWorker
  /\ ltable = [c \in Client |-> {}]
  /\ connected = [c \in Client |-> TRUE]
  /\ work = [w \in Worker |-> Idle]
  /\ txn = [t \in Txn |-> [st |-> "idle", kind |-> "none", on |-> "none"]]

Request(w, t) ==
  \/ \E r \in Region, can_block \in BOOLEAN : pl_inodelk(w, t, r, can_block)
  \/ \E n \in Name, can_block \in BOOLEAN : pl_entrylk(w, t, n, can_block)

Unlock(w, t) == pl_inode_unlock(w, t) \/ pl_entry_unlock(w, t)

Serve(w) ==
  \/ grant_enter(w)
  \/ grant_blocked_inode_lock(w)
  \/ grant_blocked_entry_lock(w)
  \/ grant_exit(w)
  \/ unwind_granted(w)
  \/ finish(w)
  \/ \E t \in Txn : cleanup_file_locker(w, t) \/ cleanup_dir_locker(w, t)

Next ==
  \/ \E w \in Worker : Serve(w)
  \/ \E w \in Worker, t \in Txn : Request(w, t) \/ Unlock(w, t)
  \/ \E w \in Worker, c \in Client : server_connection_cleanup(w, c)
  \/ \E c \in Client : server_connection_get(c)
  \/ \E t \in Txn : unlock_enotconn(t)

(* A thread that has entered a call finishes it; a client that has been given
   a lock gives it back. *)
Fairness ==
  /\ \A w \in Worker : WF_vars(Serve(w))
  /\ \A t \in Txn : SF_vars((\E w \in Worker : Unlock(w, t)) \/ unlock_enotconn(t))

Spec == Init /\ [][Next]_vars /\ Fairness

-----------------------------------------------------------------------------
(* Properties *)

InodeLock == [txn : Txn, client : Client, owner : Frame \cup Txn,
              type : {"RD", "WR"}, start : Nat, end : Nat]
EntryLock == [txn : Txn, client : Client, owner : Frame \cup Txn, name : Name]

CallOn(kind, Lock) ==
  [pc : {"idle", "grant", "loop", "unwind", "cleanup"}, kind : {kind},
   op : {"none", "lock", "unlock", "blocked", "release"}, txn : Txn \cup {NoTxn},
   frame : Frame \cup Txn \cup {NoTxn}, ret : {0, 1}, blocked : Seq(Lock),
   granted : Seq(Lock), conn : Client \cup {NoTxn}, lockers : SUBSET Txn]

TxnOn(kind, On) ==
  [st : {"idle", "asked", "held", "unlocking", "done"}, kind : {kind}, on : On]

(* The lists hold locks of their own kind, the mutex is held exactly by the
   worker inside a grant loop, and only the loop leaves locks to retry or
   callers to tell. *)
TypeOK ==
  /\ is_dir \in BOOLEAN /\ refkeeper \in BOOLEAN
  /\ inodelk_list \subseteq InodeLock /\ blocked_inodelks \in Seq(InodeLock)
  /\ entrylk_list \subseteq EntryLock /\ blocked_entrylks \in Seq(EntryLock)
  /\ ltable \in [Client -> SUBSET Txn] /\ connected \in [Client -> BOOLEAN]
  /\ mutex \in Worker \cup {NoWorker}
  /\ work \in [Worker -> CallOn("inode", InodeLock) \cup CallOn("entry", EntryLock)]
  /\ \A w \in Worker :
       /\ (mutex = w) <=> (work[w].pc = "loop")
       /\ work[w].pc \notin {"loop", "unwind"} =>
            work[w].blocked = <<>> /\ work[w].granted = <<>>
       /\ work[w].op \in {"lock", "unlock"} => work[w].txn \in Txn
  /\ txn \in [Txn -> TxnOn("none", {"none"}) \cup TxnOn("inode", Region)
                        \cup TxnOn("entry", Name)]

Clash(l1, l2) == inodelk_overlap(l1, l2) /\ inodelk_type_conflict(l1, l2)

(* Two clients never hold inode locks that overlap unless both only read, with
   whatever call stacks their requests came. *)
InodelkClientExclusion ==
  \A l1, l2 \in inodelk_list : l1.client # l2.client => ~Clash(l1, l2)

(* The same for two transactions, of one client or of two: what cluster/afr
   relies on when it locks the region it writes. *)
InodelkTxnExclusion ==
  \A l1, l2 \in inodelk_list : l1.txn # l2.txn => ~Clash(l1, l2)

(* Two entry locks held at a time never cover the same name. *)
EntrylkExclusion ==
  \A l1, l2 \in entrylk_list : l1 # l2 => ~names_conflict(l1.name, l2.name)

Quiet == \A w \in Worker : work[w].pc = "idle"

(* No wakeup is lost: when no thread is inside the translator every blocked
   lock conflicts with a held one, or with one blocked before it. *)
NoLostWakeup ==
  Quiet =>
    /\ \A i \in DOMAIN blocked_inodelks :
         \/ ~inodelk_grantable(blocked_inodelks[i])
         \/ \E j \in 1..(i - 1) :
              inodelk_conflict(blocked_inodelks[i], blocked_inodelks[j])
    /\ \A i \in DOMAIN blocked_entrylks :
         \/ ~entrylk_grantable(blocked_entrylks[i])
         \/ \E j \in 1..(i - 1) :
              names_conflict(blocked_entrylks[i].name, blocked_entrylks[j].name)

(* A transaction that was told it holds a lock other than a read lock does hold
   it until it asks for the unlock: no unlock of another transaction, which is
   matched by its bounds and not by its owner, takes it away. *)
HeldIsListed ==
  \A t \in Txn : txn[t].st = "held" =>
    IF txn[t].kind = "entry" THEN \E l \in entrylk_list : l.txn = t
    ELSE txn[t].on.type = "WR" => \E l \in inodelk_list : l.txn = t

(* The inode is pinned exactly while locks are held, once no thread is inside
   the translator (pl_update_refkeeper is called by every path that may change
   that). *)
RefkeeperPins ==
  Quiet => (refkeeper <=> (inodelk_list # {} \/ entrylk_list # {}))

(* A new entry lock request is not granted ahead of a conflicting one that is
   already waiting. *)
EntrylkNoOvertaking ==
  [][\A l \in entrylk_list' \ entrylk_list : txn[l.txn].st = "idle" =>
       \A b \in Elems(blocked_entrylks) : ~names_conflict(l.name, b.name)]_vars

(* Every lock request is answered, given that locks are given back. *)
EveryRequestAnswered ==
  \A t \in Txn : txn[t].st = "asked" ~> txn[t].st # "asked"

=============================================================================
