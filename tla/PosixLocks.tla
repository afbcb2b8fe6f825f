----------------------------- MODULE PosixLocks -----------------------------
(* The fcntl locks of one file on a server: the lk, flush and release calls of
   the features/locks translator (posix.c, common.c).

   A server thread carries a call through the translator. The inode's mutex is
   taken once to change the list of locks, then again in grant_blocked_locks, so
   calls of several threads interleave there; a call that waits has left its
   thread and is answered by the thread that grants its lock. Bytes are numbered
   from 0 and LastByte stands for LLONG_MAX. The waiting reads and writes of
   mandatory locking are left out: init never sets priv->mandatory, so rw_list
   stays empty. *)
EXTENDS Naturals, Sequences, FiniteSets, SequencesExt

CONSTANTS
  Calls,      \* number of calls that can be on their way at a time
  LkFd,       \* descriptors of the file on the server
  LkOwner,    \* owners of locks (frame->root->trans with frame->root->lk_owner)
  OwnerOf,    \* the owner that uses a descriptor
  ClientOf,   \* the client an owner lives on
  Mortal,     \* clients that can go away
  LastByte,
  LkCmd,      \* of GETLK, SETLK and SETLKW
  LkType,     \* of R, W and U
  MaxLk       \* calls in a behaviour

VARIABLES
  ext_list,   \* pl_inode_t.ext_list
  refkeeper,  \* pl_inode_t.refkeeper is set
  call,       \* the calls and the threads that carry them
  open,       \* descriptors that are open
  flushed,    \* descriptors closed by their process
  dead,       \* clients that went away
  cut,        \* descriptors of theirs that the server has flushed
  held,       \* what each owner was granted, byte by byte
  tangled,    \* owners that took or dropped locks while another lock of theirs was blocked
  nlk

plVars == <<ext_list, refkeeper, call, open, flushed, dead, cut, held, tangled, nlk>>

Call == 1 .. Calls
NoCall == 0
Byte == 0 .. LastByte
IdleCall == [pc |-> "idle", cmd |-> "none", fd |-> 0, lock |-> <<>>, ret |-> 0, ans |-> "none"]
OwnerIn(c) == OwnerOf[call[c].fd]

\* A request as the caller gives it: a type, a start, and a length where 0 means
\* up to the end of the file.
Flocks == {f \in [type : LkType, start : Byte, len : 0 .. LastByte] :
             f.start + f.len <= LastByte}

-----------------------------------------------------------------------------
(* common.c: locks and the list of locks *)

new_posix_lock(f, fd) ==
  [type |-> f.type, start |-> f.start, blocked |-> FALSE, fd |-> fd, owner |-> OwnerOf[fd],
   call |-> NoCall, end |-> IF f.len = 0 THEN LastByte ELSE f.start + f.len - 1]

\* A blocked lock keeps the frame of its call (l->frame).
Blocked(lock, c) == [lock EXCEPT !.blocked = TRUE, !.call = c]
Unblocked(lock)  == [lock EXCEPT !.blocked = FALSE, !.call = NoCall]

locks_overlap(l1, l2) == l1.end >= l2.start /\ l2.end >= l1.start
same_owner(l1, l2) == l1.owner = l2.owner

Lesser(m, n)  == IF m < n THEN m ELSE n
Greater(m, n) == IF m < n THEN n ELSE m

\* The bounds are those of both locks, everything else is taken from of.
add_locks(l1, l2, of) ==
  [Unblocked(of) EXCEPT !.start = Lesser(l1.start, l2.start), !.end = Greater(l1.end, l2.end)]

subtract_forgets_right(big, small) ==
  IF small.start = big.start /\ small.end = big.end THEN <<small>>
  ELSE IF small.start = big.start THEN <<small>>
  ELSE <<[big EXCEPT !.end = small.start - 1], small>>

subtract_locks(big, small) ==
  LET left  == [big EXCEPT !.end = small.start - 1]
      right == [big EXCEPT !.start = small.end + 1]
  IN IF big.start = small.start /\ big.end = small.end
     THEN <<[big EXCEPT !.type = small.type]>>
     ELSE IF small.start > big.start /\ small.end < big.end THEN <<left, small, right>>
     ELSE IF small.start = big.start THEN <<right, small>>
     ELSE <<left, small>>

first_overlap(list, lock) ==
  {i \in DOMAIN list : /\ ~list[i].blocked
                       /\ locks_overlap(list[i], lock)
                       /\ \A j \in 1 .. i - 1 : list[j].blocked \/ ~locks_overlap(list[j], lock)}

Conflict(l, lock) ==
  /\ l.type = "W" \/ lock.type = "W"
  /\ lock.type # "U"
  /\ ~same_owner(l, lock)

is_lock_grantable(list, lock) ==
  \A i \in DOMAIN list :
    ~list[i].blocked /\ locks_overlap(lock, list[i]) => ~Conflict(list[i], lock)

delete_unlck_locks(list) == SelectSeq(list, LAMBDA l : l.type # "U")

\* Where the walk over the list stops: at a lock of the same owner, or at a read
\* lock of another when the new lock is a read lock. It does not ask whether the
\* lock it meets is a blocked one.
Stops(list, lock) ==
  {i \in DOMAIN list : /\ locks_overlap(list[i], lock)
                       /\ \/ same_owner(list[i], lock)
                          \/ list[i].type = "R" /\ lock.type = "R"}

RECURSIVE insert_and_merge(_, _)
insert_and_merge(list, lock) ==
  IF Stops(list, lock) = {}
  THEN IF lock.type # "U" THEN Append(list, lock) ELSE list
  ELSE LET i    == CHOOSE m \in Stops(list, lock) : \A n \in Stops(list, lock) : m <= n
           conf == list[i]
           rest == RemoveAt(list, i)
       IN IF ~same_owner(conf, lock) THEN Append(list, lock)
          ELSE IF conf.type = lock.type
          THEN insert_and_merge(rest, add_locks(lock, conf, lock))
          ELSE delete_unlck_locks(
                 FoldLeft(insert_and_merge, rest,
                          subtract_locks(add_locks(lock, conf, conf), lock)))

\* What can be granted now, in the order of the list: no lock that is not
\* blocked may overlap it at all, whoever owns it and whatever its type.
Candidates(list) == SelectSeq(list, LAMBDA l : l.blocked /\ first_overlap(list, l) = {})

\* Each candidate in turn: granted and merged, or blocked again.
Grant(s, lock) ==
  IF is_lock_grantable(s.list, lock)
  THEN [list |-> insert_and_merge(s.list, Unblocked(lock)),
        granted |-> s.granted \cup {lock}]
  ELSE [s EXCEPT !.list = Append(@, lock)]

grant_blocked_locks(list) ==
  LET cand == Candidates(list)
      left == SelectSeq(list, LAMBDA l : ~(l.blocked /\ first_overlap(list, l) = {}))
  IN FoldLeft(Grant, [list |-> left, granted |-> {}], cand)

pl_inode_is_empty(list) == list = <<>>
pl_update_refkeeper(list) == refkeeper' = ~pl_inode_is_empty(list)

-----------------------------------------------------------------------------
(* The calls *)

Init ==
  /\ ext_list = <<>> /\ refkeeper = FALSE
  /\ call = [c \in Call |-> IdleCall]
  /\ open = LkFd /\ flushed = {} /\ dead = {} /\ cut = {}
  /\ held = [o \in LkOwner |-> [b \in Byte |-> "N"]]
  /\ tangled = {} /\ nlk = 0

Covers(l, b) == l.start <= b /\ b <= l.end
Granted(h, l) == [h EXCEPT ![l.owner] = [b \in Byte |-> IF ~Covers(l, b) THEN @[b]
                                                        ELSE IF l.type = "U" THEN "N" ELSE l.type]]
GrantedAll(h, ls) ==
  [o \in LkOwner |-> [b \in Byte |->
     LET mine == {l \in ls : l.owner = o /\ Covers(l, b)} IN
     IF mine = {} THEN h[o][b] ELSE (CHOOSE l \in mine : TRUE).type]]

Waits(c) == call[c].ans = "none" /\ call[c].cmd \in {"SETLK", "SETLKW"}
BlockedOwner(o) == \E l \in ToSet(ext_list) : l.blocked /\ l.owner = o
Tangle(o, when) == tangled' = IF when THEN tangled \cup {o} ELSE tangled

Free(c) == call[c].cmd = "none" /\ \A d \in 1 .. c - 1 : call[d].cmd # "none"

Begin(c, fd) ==
  /\ Free(c)
  /\ nlk < MaxLk /\ nlk' = nlk + 1
  /\ fd \in open \ flushed /\ ClientOf[OwnerOf[fd]] \notin dead

\* F_GETLK reads the list without the mutex and is answered at once, with the
\* first lock that overlaps or F_UNLCK; it changes nothing but the refkeeper.
pl_getlk(c, fd) ==
  /\ "GETLK" \in LkCmd /\ Begin(c, fd)
  /\ pl_update_refkeeper(ext_list)
  /\ UNCHANGED <<ext_list, call, open, flushed, dead, cut, held, tangled>>

\* F_SETLK and F_SETLKW: the server has found the descriptor, and the request may
\* stand in a queue of io-threads before it reaches the translator.
Arrive(c, cmd, fd, f) ==
  /\ Begin(c, fd)
  /\ call' = [call EXCEPT ![c] = [IdleCall EXCEPT !.pc = "queued", !.cmd = cmd, !.fd = fd,
                                                 !.lock = new_posix_lock(f, fd)]]
  /\ UNCHANGED <<ext_list, refkeeper, open, flushed, dead, cut, held, tangled>>

\* pl_lk and pl_setlk up to the first unlock.
pl_setlk(c) ==
  LET lock == call[c].lock
      ok   == is_lock_grantable(ext_list, lock)
  IN /\ call[c].pc = "queued"
     /\ ext_list' = IF ok THEN insert_and_merge(ext_list, lock)
                    ELSE IF call[c].cmd = "SETLKW" THEN Append(ext_list, Blocked(lock, c))
                    ELSE ext_list
     /\ held' = IF ok /\ ClientOf[lock.owner] \notin dead THEN Granted(held, lock) ELSE held
     /\ call' = [call EXCEPT ![c].pc = "grant", ![c].lock = <<>>, ![c].ret = IF ok THEN 0 ELSE 1]
     /\ Tangle(lock.owner, BlockedOwner(lock.owner))
     /\ UNCHANGED <<refkeeper, open, flushed, dead, cut, nlk>>

\* The second critical section of every call, and the answers to the calls whose
\* locks it granted.
grant(c) ==
  LET g == grant_blocked_locks(ext_list)
      answered == {l.call : l \in g.granted}
  IN /\ call[c].pc = "grant"
     /\ ext_list' = g.list
     /\ held' = GrantedAll(held, g.granted)
     /\ call' = [x \in Call |->
                   IF x = c THEN [call[x] EXCEPT !.pc = "end", !.ans = IF x \in answered THEN "ok" ELSE @]
                   ELSE IF x \in answered
                   THEN IF call[x].pc = "idle" THEN IdleCall ELSE [call[x] EXCEPT !.ans = "ok"]
                   ELSE call[x]]
     /\ UNCHANGED <<refkeeper, open, flushed, dead, cut, tangled, nlk>>

\* The end of pl_lk: a call whose lock is blocked leaves its thread unanswered.
pl_lk_end(c) ==
  LET waits == call[c].ret = 1 /\ call[c].cmd = "SETLKW" IN
  /\ call[c].pc = "end" /\ call[c].cmd \in {"SETLK", "SETLKW"}
  /\ IF waits THEN UNCHANGED refkeeper ELSE pl_update_refkeeper(ext_list)
  /\ call' = [call EXCEPT ![c] = IF waits /\ @.ans = "none" THEN [@ EXCEPT !.pc = "idle"] ELSE IdleCall]
  /\ UNCHANGED <<ext_list, open, flushed, dead, cut, held, tangled, nlk>>

-----------------------------------------------------------------------------
(* Descriptors that are closed, and clients that go away *)

Freed(h, o) == [h EXCEPT ![o] = [b \in Byte |-> "N"]]

delete_locks_of_owner(list, fd) == SelectSeq(list, LAMBDA l : l.owner # OwnerOf[fd])

\* A process closes a descriptor. The locks go, the blocked ones too, and the
\* calls that wait for those are never answered.
pl_flush(c, fd) ==
  /\ Begin(c, fd)
  /\ ext_list' = delete_locks_of_owner(ext_list, fd)
  /\ held' = Freed(held, OwnerOf[fd])
  /\ flushed' = flushed \cup {fd}
  /\ Tangle(OwnerOf[fd], \E d \in Call : Waits(d) /\ OwnerIn(d) = OwnerOf[fd])
  /\ call' = [call EXCEPT ![c] = [IdleCall EXCEPT !.pc = "grant", !.cmd = "flush", !.fd = fd]]
  /\ UNCHANGED <<refkeeper, open, dead, cut>>

\* The calls whose blocked locks are deleted are answered EAGAIN.
delete_locks_of_fd(c, cmd, fd) ==
  LET gone == {l.call : l \in {m \in ToSet(ext_list) : m.fd = fd /\ m.blocked}} IN
  /\ ext_list' = SelectSeq(ext_list, LAMBDA l : l.fd # fd)
  /\ call' = [x \in Call |->
                IF x = c THEN [IdleCall EXCEPT !.pc = "grant", !.cmd = cmd, !.fd = fd]
                ELSE IF x \in gone
                THEN IF call[x].pc = "idle" THEN IdleCall ELSE [call[x] EXCEPT !.ans = "EAGAIN"]
                ELSE call[x]]

\* A client goes away. protocol/server then flushes its descriptors with the
\* owner set to zero.
Disconnect(cl) ==
  /\ cl \notin dead
  /\ dead' = dead \cup {cl}
  /\ held' = [o \in LkOwner |-> IF ClientOf[o] = cl THEN [b \in Byte |-> "N"] ELSE held[o]]
  /\ UNCHANGED <<ext_list, refkeeper, call, open, flushed, cut, tangled, nlk>>

pl_flush_dead(c, fd) ==
  /\ Free(c)
  /\ ClientOf[OwnerOf[fd]] \in dead /\ fd \notin cut /\ fd \in open
  /\ cut' = cut \cup {fd}
  /\ delete_locks_of_fd(c, "flush", fd)
  /\ UNCHANGED <<refkeeper, open, flushed, dead, held, tangled, nlk>>

\* The last reference to a descriptor goes: no call uses it any more.
Unused(fd) == \A c \in Call : call[c].cmd = "none" \/ call[c].fd # fd

pl_release(c, fd) ==
  /\ Free(c)
  /\ fd \in open /\ fd \in flushed \cup cut /\ Unused(fd)
  /\ open' = open \ {fd}
  /\ delete_locks_of_fd(c, "release", fd)
  /\ UNCHANGED <<refkeeper, flushed, dead, cut, held, tangled, nlk>>

flush_end(c) ==
  /\ call[c].pc = "end" /\ call[c].cmd \in {"flush", "release"}
  /\ call' = [call EXCEPT ![c] = IdleCall]
  /\ UNCHANGED <<ext_list, refkeeper, open, flushed, dead, cut, held, tangled, nlk>>

Next ==
  \/ \E c \in Call, fd \in LkFd :
       \/ pl_getlk(c, fd)
       \/ \E cmd \in LkCmd \ {"GETLK"}, f \in Flocks : Arrive(c, cmd, fd, f)
       \/ pl_flush(c, fd)
       \/ pl_flush_dead(c, fd)
       \/ pl_release(c, fd)
  \/ \E c \in Call : pl_setlk(c) \/ grant(c) \/ pl_lk_end(c) \/ flush_end(c)
  \/ \E cl \in Mortal : Disconnect(cl)

Spec == Init /\ [][Next]_plVars

-----------------------------------------------------------------------------
Locks == ToSet(ext_list)
Untangled(o) == o \notin tangled

\* No two owners hold locks that overlap when one of them is a write lock
\* (__is_lock_grantable, __insert_and_merge), whatever was split, merged, granted
\* late or taken away by a close. Owners that took locks while another lock of
\* theirs was blocked are left out: the merge takes the blocked lock for a held one.
LocksExclude ==
  \A l, m \in Locks :
    ~l.blocked /\ ~m.blocked /\ l.owner # m.owner /\ Untangled(l.owner) /\ Untangled(m.owner)
      => (l.type = "R" /\ m.type = "R") \/ ~locks_overlap(l, m)

\* The list says of every byte what the owner was told: a byte it was granted is
\* covered by a lock at least as strong, and a byte it has unlocked, closed or
\* never asked for by none.
GrantedIsHeld ==
  \A o \in LkOwner \ tangled, b \in Byte :
    LET mine == {l \in Locks : ~l.blocked /\ l.owner = o /\ Covers(l, b)} IN
    ClientOf[o] \notin dead =>
      /\ held[o][b] = "W" => \E l \in mine : l.type = "W"
      /\ held[o][b] = "R" => mine # {}
      /\ held[o][b] = "N" => mine = {}

\* A lock call that has left its thread without an answer has a blocked lock in
\* the list, from which a later unlock, close or disconnect can answer it.
WaitsInTheList ==
  \A c \in Call : Waits(c) /\ call[c].pc = "idle" /\ Untangled(OwnerIn(c))
    => \E l \in Locks : l.blocked /\ l.call = c

\* When no call is between its two critical sections, a blocked lock overlaps a
\* lock that is held: no unlock, close or disconnect forgets those who wait.
NoLostWakeup ==
  (\A c \in Call : call[c].pc # "grant") =>
    \A l \in Locks : l.blocked => \E m \in Locks : ~m.blocked /\ locks_overlap(l, m)

\* Once a descriptor is released no lock is left that was taken through it, so a
\* client that went away leaves no lock behind.
ReleasedHoldsNothing == \A l \in Locks : l.fd \in open
=============================================================================
