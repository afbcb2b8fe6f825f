--------------------------- MODULE AfrTransaction ---------------------------
(* The data transactions of cluster/afr on one file: lock, mark everybody
   pending, write, unmark those that did not fail, unlock (afr-transaction.c),
   for writev, truncate, ftruncate and flush (afr-inode-write.c, afr.c), with
   the changelog that is kept open on a file descriptor between the first write
   and the flush, and the flush and heal a writer performs when it notices that
   a child went down or came up (afr-open.c).

   A copy holds per block the number of the last modification, 0 for a block
   beyond the end of the file. A call to a child is "sent" until the child has
   carried it out, then "done" until the callback has run; the connection can
   break in both states, and the call is then "lost". A callback and what the
   last one goes on to do are two steps. *)
EXTENDS AfrSources

CONSTANTS
  Fd, NoFd,         \* file descriptors of the file; NoFd in path-based calls
  Frame,            \* call frames: how many calls can be under way
  BlockCount,
  LockServerCount,  \* option data-lock-server-count
  Op,               \* which of WRITE, FTRUNCATE, TRUNCATE are called
  NoLocks,          \* children without the locks translator
  NoXattrop,        \* children whose file system has no extended attributes
  FailAt,           \* the phases in which children may refuse a call
  MayCrash,         \* the client may crash
  MaxOps,           \* bound: modifications
  MaxDown, MaxUp,   \* bounds: connections broken and made again
  UpWhileOpen,      \* children may come back while the file is in use
  MaxFaulty         \* bound: children that refuse a call or are disconnected

ASSUME BoundAssumption ==
  /\ BlockCount \in Nat /\ LockServerCount \in Nat
  /\ MaxOps \in Nat /\ MaxDown \in Nat /\ MaxUp \in Nat /\ MaxFaulty \in Nat
ASSUME FdAssumption == NoFd \notin Fd /\ MayCrash \in BOOLEAN /\ UpWhileOpen \in BOOLEAN
ASSUME LackAssumption == NoLocks \subseteq Child /\ NoXattrop \subseteq Child
ASSUME OpAssumption == Op \subseteq {"WRITE", "FTRUNCATE", "TRUNCATE"}

VARIABLES
  connected,             \* children the client has a connection to
  reopening,             \* descriptors that are being reopened, with the child
  child_up,              \* priv->child_up
  up_count, down_count,  \* priv->up_count, priv->down_count
  data, changelog,       \* on the children's disks
  lock,                  \* inode locks granted on the children
  fd_ctx, local,         \* afr_fd_ctx_t, afr_local_t
  ops,                   \* modifications started
  faulty,                \* children that refused a call or were disconnected
  valid,                 \* per block, the contents a reader may be given
  spoilt,                \* changelogs that lost or doubled a count, see child_xattrop
  running                \* the client has not crashed

priv    == <<connected, reopening, child_up, up_count, down_count>>
disk    == <<data, changelog, spoilt>>
history == <<ops, faulty, valid>>
vars    == <<priv, disk, lock, fd_ctx, local, history, running>>

Block == 0 .. BlockCount - 1

size(c) == IF \E b \in Block : data[c][b] # 0
           THEN 1 + CHOOSE b \in Block :
                      data[c][b] # 0 /\ \A a \in Block : a > b => data[c][a] = 0
           ELSE 0

Unread == [c \in Child |-> NoXattr]
NoHeal == [source |-> NoSource, sinks |-> {}, xattr |-> [c \in Child |-> Unread]]
All(n) == [c \in Child |-> n]

Idle == [pc |-> "idle", op |-> "NONE", next |-> "NONE", hook |-> FALSE,
         fd |-> NoFd, at |-> 0, id |-> 0, child_up |-> {}, index |-> 0,
         lock_count |-> 0, locked |-> {}, pending |-> All(0),
         calls |-> All("none"), op_ret |-> FALSE, enotsup |-> FALSE, sh |-> NoHeal]

Closed == [open |-> FALSE, opened_on |-> {}, pre_op_done |-> {},
           child_failed |-> {}, up_count |-> 0, down_count |-> 0]

Init ==
  /\ connected = Child /\ reopening = {}
  /\ child_up = Child /\ up_count = 0 /\ down_count = 0
  /\ data = [c \in Child |-> [b \in Block |-> 0]]
  /\ changelog = [c \in Child |-> All(0)] /\ spoilt = {}
  /\ lock = [c \in Child |-> {}]
  /\ fd_ctx = [fd \in Fd |-> Closed]
  /\ local = [f \in Frame |-> Idle]
  /\ ops = 0 /\ faulty = {} /\ valid = [b \in Block |-> {0}]
  /\ running = TRUE

Outstanding(l) == {c \in Child : l.calls[c] # "none"}

(* Locked are the bytes before the new end, the whole file when that is 0
   (transaction.start = 0, transaction.len = offset). *)
lock_region(l) ==
  CASE l.op = "WRITE" -> {l.at}
    [] l.op \in {"TRUNCATE", "FTRUNCATE"} -> IF l.at = 0 THEN Block ELSE 0 .. l.at - 1
    [] OTHER -> Block

Affected(l) ==
  CASE l.op = "WRITE" -> {l.at}
    [] l.op \in {"TRUNCATE", "FTRUNCATE"} -> {b \in Block : b >= l.at}
    [] OTHER -> {}

NewContent(l) == IF l.op = "WRITE" THEN l.id ELSE 0

-----------------------------------------------------------------------------
(* The phases of a transaction: each operator gives the local state with which
   the next phase is entered, its calls wound. *)

Wind(l, pc, S) ==
  [l EXCEPT !.pc = pc, !.calls = [c \in Child |-> IF c \in S THEN "sent" ELSE "none"]]

(* Variant: forgets all but the first lock. *)
unlock_first(l) == Wind(l, "unlock", {c \in l.locked : \A d \in l.locked : c <= d})

afr_unlock(l) == Wind(l, "unlock", l.locked)

(* __mark_all_success and transaction.fop; the fop of an up/down flush only
   resumes *)
transaction_fop(l) ==
  Wind([l EXCEPT !.pending = All(-1)], "fop", IF l.next # "NONE" THEN {} ELSE l.child_up)

(* Variants: no pre-op, a pre-op for every write. *)
pre_op_never(l) == FALSE
pre_op_always(l) == l.op # "FLUSH"

__changelog_needed_pre_op(l) ==
  CASE l.op \in {"WRITE", "FTRUNCATE"} -> fd_ctx[l.fd].pre_op_done = {}
    [] l.op = "FLUSH" -> FALSE
    [] OTHER -> TRUE

afr_changelog_pre_op(l) ==
  IF l.child_up = {} THEN afr_unlock(l)
  ELSE Wind([l EXCEPT !.pending = All(1)], "preop", l.child_up)

done_locking(l) ==
  IF __changelog_needed_pre_op(l) THEN afr_changelog_pre_op(l) ELSE transaction_fop(l)

(* afr_transaction_local_init: lock_count is left as it is *)
afr_transaction(l) ==
  LET new == [l EXCEPT !.index = 0, !.locked = {}, !.pending = All(0)]
  IN IF LockServerCount = 0 THEN done_locking(new) ELSE Wind(new, "lock", {})

afr_up_down_flush(l, hook) ==
  afr_transaction([l EXCEPT !.next = l.op, !.op = "FLUSH", !.hook = hook])

__changelog_needed_post_op(l) == l.op \notin {"WRITE", "FTRUNCATE"}

(* Who a post-op is sent to *)
post_op_children(l) ==
  IF l.op = "FLUSH" THEN fd_ctx[l.fd].pre_op_done \cap l.child_up ELSE l.child_up

(* Variant: the children that are up are blamed. *)
blame_up(l) == l.child_up

(* __mark_down_children, __mark_failed_children *)
not_successful(l) ==
  (Child \ l.child_up)
    \cup (IF l.op = "FLUSH" THEN fd_ctx[l.fd].child_failed ELSE {})

afr_changelog_post_op(l) ==
  IF post_op_children(l) = {} THEN afr_unlock(l)
  ELSE Wind([l EXCEPT !.pending =
               [c \in Child |-> IF c \in not_successful(l) THEN 0 ELSE @[c]]],
            "postop", post_op_children(l))

resume(l) == IF __changelog_needed_post_op(l) THEN afr_changelog_post_op(l) ELSE afr_unlock(l)

(* From here on a reader may be given the new contents as well as the old. *)
Uncertain(l) ==
  valid' = IF l.pc = "fop"
           THEN [b \in Block |-> IF b \in Affected(l) THEN valid[b] \cup {NewContent(l)}
                                 ELSE valid[b]]
           ELSE valid

-----------------------------------------------------------------------------
(* Calls from above. AFR_LOCAL_INIT fails when no child is up. *)

afr_open(fd) ==
  /\ running /\ ~fd_ctx[fd].open
  /\ \A f \in Frame : local[f].fd # fd
  /\ child_up \cap connected # {}
  /\ fd_ctx' = [fd_ctx EXCEPT ![fd] =
                  [Closed EXCEPT !.open = TRUE, !.opened_on = child_up \cap connected,
                                 !.up_count = up_count, !.down_count = down_count]]
  /\ reopening' = {r \in reopening : r[1] # fd}
  /\ UNCHANGED <<connected, child_up, up_count, down_count, disk, lock, local, history, running>>

Request(op, fd, b) ==
  [Idle EXCEPT !.op = op, !.fd = fd, !.at = b, !.id = ops + 1, !.child_up = child_up]

Start(f, op, l) ==
  /\ running /\ op \in Op /\ ops < MaxOps
  /\ local[f].pc = "idle" /\ child_up # {}
  /\ local' = [local EXCEPT ![f] = l]
  /\ ops' = ops + 1
  /\ Uncertain(l)
  /\ UNCHANGED <<priv, disk, lock, fd_ctx, faulty, running>>

afr_writev(f, fd, b) ==
  /\ fd_ctx[fd].open
  /\ LET l == Request("WRITE", fd, b)
     IN Start(f, "WRITE",
              IF fd_ctx[fd].down_count < down_count THEN afr_up_down_flush(l, FALSE)
              ELSE IF fd_ctx[fd].up_count < up_count THEN afr_up_down_flush(l, TRUE)
              ELSE afr_transaction(l))

afr_ftruncate(f, fd, b) ==
  /\ fd_ctx[fd].open
  /\ LET l == Request("FTRUNCATE", fd, b)
     IN Start(f, "FTRUNCATE",
              IF fd_ctx[fd].down_count < down_count THEN afr_up_down_flush(l, FALSE)
              ELSE afr_transaction(l))

afr_truncate(f, b) == Start(f, "TRUNCATE", afr_transaction(Request("TRUNCATE", NoFd, b)))

(* The application has its answer: to a write when all children have replied
   (afr_writev_wind_cbk), to a truncate already when the child that serves reads
   has replied and one has succeeded (afr_ftruncate_wind_cbk). Which child serves
   reads depends on the lookups and is left open. *)
Answered(l) ==
  l.next = "NONE" /\ (l.pc = "unlock" \/ (l.pc = "fop" /\ l.op = "FTRUNCATE" /\ l.op_ret))

(* close: the calls made on the descriptor have been answered. *)
afr_flush(f, fd) ==
  /\ running /\ fd_ctx[fd].open /\ local[f].pc = "idle"
  /\ \A g \in Frame : local[g].fd = fd => Answered(local[g])
  /\ fd_ctx' = [fd_ctx EXCEPT ![fd].open = FALSE]
  /\ local' = IF child_up = {} \/ fd_ctx[fd].pre_op_done = {} THEN local
              ELSE [local EXCEPT ![f] =
                      afr_transaction([Request("FLUSH", fd, 0) EXCEPT !.id = 0])]
  /\ UNCHANGED <<priv, disk, lock, history, running>>

(* Variant: content with one lock. *)
lock_rec_once(f) ==
  LET l == local[f]
      S == {c \in l.child_up :
              c >= l.index /\ (l.fd # NoFd => c \in fd_ctx[l.fd].opened_on)}
      new == IF S = {} /\ l.lock_count = 0 THEN afr_unlock(l)
             ELSE IF S = {} \/ l.lock_count >= 1 THEN done_locking(l)
             ELSE Wind(l, "lock", {Lowest(S)})
  IN /\ l.pc = "lock" /\ Outstanding(l) = {}
     /\ local' = [local EXCEPT ![f] = new]
     /\ Uncertain(new)
     /\ UNCHANGED <<priv, disk, lock, fd_ctx, ops, faulty, running>>

-----------------------------------------------------------------------------
(* Locking: one child after the other, those that are down or do not have the
   descriptor open left out. *)

afr_lock_rec(f) ==
  LET l == local[f]
      S == {c \in l.child_up :
              c >= l.index /\ (l.fd # NoFd => c \in fd_ctx[l.fd].opened_on)}
      new == IF S = {} /\ l.lock_count = 0 THEN afr_unlock(l)
             ELSE IF S = {} \/ l.lock_count = LockServerCount THEN done_locking(l)
             ELSE Wind(l, "lock", {Lowest(S)})
  IN /\ l.pc = "lock" /\ Outstanding(l) = {}
     /\ local' = [local EXCEPT ![f] = new]
     /\ Uncertain(new)
     /\ UNCHANGED <<priv, disk, lock, fd_ctx, ops, faulty, running>>

(* The child carries out a call: what AFR relies on. An inode lock waits for
   those of others on overlapping regions, xattrop adds. *)
Reaches(l, c) ==
  c \in connected /\ (l.fd # NoFd => c \in fd_ctx[l.fd].opened_on /\ <<l.fd, c>> \notin reopening)

(* Answered with ENOSYS (posix_inodelk), with ENOTSUP (do_xattrop) *)
Unsupported(l, c) ==
  \/ l.pc \in {"lock", "unlock"} /\ c \in NoLocks
  \/ l.pc \in {"preop", "postop"} /\ c \in NoXattrop

CarriedOut(f, c) ==
  /\ local[f].calls[c] = "sent" /\ Reaches(local[f], c) /\ ~Unsupported(local[f], c)
  /\ local' = [local EXCEPT ![f].calls[c] = "done"]
  /\ UNCHANGED <<priv, fd_ctx, history, running>>

own_lock(f) == [frame |-> f, region |-> lock_region(local[f])]

child_inodelk(f, c) ==
  /\ CarriedOut(f, c)
  /\ \/ /\ local[f].pc = "lock"
        /\ \A k \in lock[c] : k.frame # f => k.region \cap lock_region(local[f]) = {}
        /\ lock' = [lock EXCEPT ![c] = @ \cup {own_lock(f)}]
     \/ /\ local[f].pc = "unlock"
        /\ lock' = [lock EXCEPT ![c] = @ \ {own_lock(f)}]
  /\ UNCHANGED disk

Stale(c) == \E b \in Block : data[c][b] \notin valid[b]

(* spoilt notes what goes wrong with a count: an up flush takes back the last one
   that a copy held against a stale one, or a post-op adds what it should take
   back. *)
child_xattrop(f, c) ==
  LET l == local[f] IN
  /\ CarriedOut(f, c)
  /\ l.pc \in {"preop", "postop"}
  /\ changelog' = [changelog EXCEPT ![c] = [d \in Child |-> @[d] + l.pending[d]]]
  /\ spoilt' = spoilt
       \cup {<<"erased", d>> : d \in {e \in Child : /\ l.hook /\ Stale(e)
                                                    /\ changelog[c][e] > 0
                                                    /\ changelog'[c][e] = 0}}
       \cup IF l.pc = "postop" /\ (\E d \in Child : l.pending[d] = 1)
             THEN {<<"doubled", c>>} ELSE {}
  /\ UNCHANGED <<data, lock>>

child_fop(f, c) ==
  /\ CarriedOut(f, c)
  /\ local[f].pc = "fop"
  /\ data' = [data EXCEPT ![c] =
                [b \in Block |-> IF b \in Affected(local[f]) THEN NewContent(local[f])
                                 ELSE @[b]]]
  /\ UNCHANGED <<changelog, spoilt, lock>>

(* The callbacks. A call fails (~ok) because the child refuses it, does not have
   the descriptor open, or is not connected. *)
Fault(c) == faulty' = faulty \cup {c} /\ Cardinality(faulty') <= MaxFaulty

(* The failure is the child's own answer. *)
Refused(l, c) == l.calls[c] = "sent" /\ Reaches(l, c)

Lacking(l, c) == Refused(l, c) /\ Unsupported(l, c)

Answer(l, c, ok) ==
  \/ ok /\ l.calls[c] = "done" /\ UNCHANGED faulty
  \/ ~ok /\ l.calls[c] = "lost" /\ UNCHANGED faulty
  \/ ~ok /\ l.calls[c] = "sent" /\ ~Reaches(l, c) /\ UNCHANGED faulty
  \/ ~ok /\ Refused(l, c) /\ (l.pc \in FailAt \/ Unsupported(l, c)) /\ Fault(c)

Returned(l, c) == [l EXCEPT !.calls[c] = "none"]

(* ENOSYS ends the transaction. *)
afr_lock_cbk(f, c, ok) ==
  LET l    == local[f]
      down == [Returned(l, c) EXCEPT !.index = c + 1, !.child_up = @ \ {c}] IN
  /\ l.pc = "lock" /\ Answer(l, c, ok)
  /\ local' = [local EXCEPT ![f] =
       IF ok THEN [Returned(l, c) EXCEPT !.index = c + 1, !.locked = @ \cup {c},
                                         !.lock_count = @ + 1]
       ELSE IF Lacking(l, c) THEN afr_unlock(down) ELSE down]
  /\ UNCHANGED <<priv, disk, lock, fd_ctx, ops, valid, running>>

(* local->op_errno is that of the last failure. *)
afr_changelog_pre_op_cbk(f, c, ok) ==
  LET l == local[f] IN
  /\ l.pc = "preop" /\ Answer(l, c, ok)
  /\ local' = [local EXCEPT ![f] =
       IF ok THEN Returned(l, c)
       ELSE [Returned(l, c) EXCEPT !.child_up = @ \ {c}, !.enotsup = Lacking(l, c)]]
  /\ fd_ctx' = IF ok /\ l.op \in {"WRITE", "FTRUNCATE"}
               THEN [fd_ctx EXCEPT ![l.fd].pre_op_done = @ \cup {c}] ELSE fd_ctx
  /\ UNCHANGED <<priv, disk, lock, ops, valid, running>>

(* afr_writev_wind_cbk and its like: a failed write is noted on the descriptor,
   any other call in the transaction (afr_transaction_fop_failed). *)
fop_cbk(f, c, ok) ==
  LET l == local[f] IN
  /\ l.pc = "fop" /\ Answer(l, c, ok)
  /\ local' = [local EXCEPT ![f] =
       IF ok THEN [Returned(l, c) EXCEPT !.op_ret = TRUE]
       ELSE IF l.op = "WRITE" THEN Returned(l, c)
       ELSE [Returned(l, c) EXCEPT !.pending[c] = 0]]
  /\ fd_ctx' = IF ~ok /\ l.op = "WRITE"
               THEN [fd_ctx EXCEPT ![l.fd].child_failed = @ \cup {c}] ELSE fd_ctx
  /\ UNCHANGED <<priv, disk, lock, ops, valid, running>>

(* afr_changelog_post_op_cbk, afr_unlock_common_cbk: the answer is ignored. *)
ignoring_cbk(f, c, ok) ==
  LET l == local[f] IN
  /\ l.pc \in {"postop", "unlock"} /\ Answer(l, c, ok)
  /\ local' = [local EXCEPT ![f] = Returned(l, c)]
  /\ UNCHANGED <<priv, disk, lock, fd_ctx, ops, valid, running>>

-----------------------------------------------------------------------------
(* What the last callback of a phase goes on to do. *)

Finished(f, pc) == local[f].pc = pc /\ Outstanding(local[f]) = {}

(* When xattrop is not supported the fop is left out. *)
pre_op_finished(f) ==
  LET l   == local[f]
      new == IF l.enotsup THEN resume(l) ELSE transaction_fop(l) IN
  /\ Finished(f, "preop")
  /\ local' = [local EXCEPT ![f] = new]
  /\ Uncertain(new)
  /\ UNCHANGED <<priv, disk, lock, fd_ctx, ops, faulty, running>>

(* transaction.unwind, then transaction.resume *)
afr_transaction_resume(f) ==
  LET l == local[f] IN
  /\ Finished(f, "fop")
  /\ valid' = [b \in Block |-> IF l.op_ret /\ b \in Affected(l) THEN {NewContent(l)}
                                ELSE valid[b]]
  /\ local' = [local EXCEPT ![f] = resume(l)]
  /\ fd_ctx' = IF l.op = "FLUSH"
               THEN [fd_ctx EXCEPT ![l.fd].pre_op_done = @ \ post_op_children(l)]
               ELSE fd_ctx
  /\ UNCHANGED <<priv, disk, lock, ops, faulty, running>>

(* afr_unlock, or transaction.post_post_op of an up flush *)
post_op_finished(f) ==
  /\ Finished(f, "postop")
  /\ local' = [local EXCEPT ![f] = IF @.hook THEN [@ EXCEPT !.pc = "heal"] ELSE afr_unlock(@)]
  /\ UNCHANGED <<priv, disk, lock, fd_ctx, history, running>>

transaction_done(f) ==
  /\ Finished(f, "unlock") /\ local[f].next = "NONE"
  /\ local' = [local EXCEPT ![f] = Idle]
  /\ UNCHANGED <<priv, disk, lock, fd_ctx, history, running>>

afr_up_down_flush_done(f) ==
  LET l == local[f] IN
  /\ Finished(f, "unlock") /\ l.next # "NONE"
  /\ fd_ctx' = [fd_ctx EXCEPT ![l.fd].up_count = up_count, ![l.fd].down_count = down_count,
                               ![l.fd].pre_op_done = @ \ l.child_up]
  /\ local' = [local EXCEPT ![f] =
                 [@ EXCEPT !.pc = "flushed", !.op = l.next, !.next = "NONE", !.hook = FALSE]]
  /\ UNCHANGED <<priv, disk, lock, history, running>>

(* local->up_down_flush_cbk: afr_do_writev or afr_do_ftruncate *)
up_down_flush_cbk(f) ==
  LET new == afr_transaction(local[f]) IN
  /\ local[f].pc = "flushed"
  /\ local' = [local EXCEPT ![f] = new]
  /\ Uncertain(new)
  /\ UNCHANGED <<priv, disk, lock, fd_ctx, ops, faulty, running>>

-----------------------------------------------------------------------------
(* afr_up_down_flush_post_post_op: self-heal under the lock of the flush. It
   gives up when it cannot lock the entry or open the file everywhere. *)

afr_sh_abort(f) ==
  /\ local[f].pc \in {"heal", "sync"}
  /\ local' = [local EXCEPT ![f].pc = "reopen", ![f].sh = NoHeal]
  /\ UNCHANGED <<priv, disk, lock, fd_ctx, history, running>>

(* afr_sh_data_fxattrop, afr_sh_data_fix, afr_sh_data_sync_prepare *)
afr_sh_data_fxattrop(f) ==
  LET l     == local[f]
      X     == [c \in Child |-> IF c \in l.child_up THEN changelog[c] ELSE Unread]
      fix   == afr_sh_data_fix(X, [c \in Child |-> IF c \in l.child_up THEN size(c) ELSE 0], {})
      sinks == l.child_up \ fix.sources
  IN /\ l.pc = "heal" /\ l.child_up \subseteq connected
     /\ local' = [local EXCEPT ![f] =
          IF fix.source = NoSource \/ sinks = {} THEN [@ EXCEPT !.pc = "reopen"]
          ELSE [@ EXCEPT !.pc = "sync",
                         !.sh = [source |-> fix.source, sinks |-> sinks, xattr |-> X]]]
     /\ UNCHANGED <<priv, disk, lock, fd_ctx, history, running>>

(* A block of the source is copied to the sinks; a hole is not. *)
Copied(sh, b) ==
  b < size(sh.source) /\ data[sh.source][b] # 0 =>
    \A c \in sh.sinks : data[c][b] = data[sh.source][b]

sh_block(f, b) ==
  LET sh == local[f].sh IN
  /\ local[f].pc = "sync" /\ ({sh.source} \cup sh.sinks) \subseteq connected
  /\ ~Copied(sh, b)
  /\ data' = [c \in Child |-> IF c \in sh.sinks
                               THEN [data[c] EXCEPT ![b] = data[sh.source][b]] ELSE data[c]]
  /\ UNCHANGED <<priv, changelog, spoilt, lock, fd_ctx, local, history, running>>

(* Sinks that are longer than the source are cut. That the cut failed on some,
   kept, is ignored. *)
afr_sh_data_trim_sinks(f, kept) ==
  LET sh == local[f].sh IN
  /\ local[f].pc = "sync" /\ \A b \in Block : Copied(sh, b)
  /\ sh.sinks \ connected \subseteq kept /\ kept \subseteq sh.sinks
  /\ "trim" \notin FailAt => kept \cap connected = {}
  /\ faulty' = faulty \cup kept /\ Cardinality(faulty') <= MaxFaulty
  /\ data' = [c \in Child |->
       [b \in Block |-> IF c \in sh.sinks \ kept /\ b >= size(sh.source) THEN 0
                        ELSE data[c][b]]]
  /\ local' = [local EXCEPT ![f].pc = "erase"]
  /\ UNCHANGED <<priv, changelog, spoilt, lock, fd_ctx, ops, valid, running>>

afr_sh_data_erase_pending(f) ==
  LET sh == local[f].sh IN
  /\ local[f].pc = "erase"
  /\ changelog' = [c \in Child |->
       [d \in Child |-> IF /\ c \in connected /\ sh.xattr[c][d] # NoXattr
                           /\ d \in sh.sinks \cup {sh.source}
                        THEN changelog[c][d] - sh.xattr[c][d] ELSE changelog[c][d]]]
  /\ local' = [local EXCEPT ![f].pc = "reopen", ![f].sh = NoHeal]
  /\ UNCHANGED <<priv, data, spoilt, lock, fd_ctx, history, running>>

afr_up_down_flush_sh_unwind(f) ==
  LET l == local[f] IN
  /\ l.pc = "reopen"
  /\ fd_ctx' = [fd_ctx EXCEPT ![l.fd].opened_on = @ \cup (l.child_up \cap connected)]
  /\ local' = [local EXCEPT ![f] = afr_unlock(l)]
  /\ UNCHANGED <<priv, disk, lock, history, running>>

-----------------------------------------------------------------------------
(* Connections. The calls under way are answered with ENOTCONN before AFR is
   told that the child is down. *)

(* The descriptors the protocol client holds on c *)
InUse(c) ==
  {fd \in Fd : /\ fd_ctx[fd].open \/ \E f \in Frame : local[f].fd = fd
               /\ c \in fd_ctx[fd].opened_on}

(* Nothing is under way and the file is not open. *)
Quiescent == running /\ (\A f \in Frame : local[f].pc = "idle")
                     /\ (\A fd \in Fd : ~fd_ctx[fd].open)

disconnect(c) ==
  /\ running /\ c \in connected /\ Fault(c)
  /\ down_count + Cardinality(child_up \ connected) < MaxDown
  /\ connected' = connected \ {c} /\ reopening' = {r \in reopening : r[2] # c}
  /\ lock' = [lock EXCEPT ![c] = {}]
  /\ local' = [f \in Frame |->
       [local[f] EXCEPT !.calls[c] = IF @ \in {"sent", "done"} THEN "lost" ELSE @]]
  /\ UNCHANGED <<child_up, up_count, down_count, disk, fd_ctx, ops, valid, running>>

notify_CHILD_DOWN(c) ==
  /\ running /\ c \in child_up \ connected
  /\ \A f \in Frame : local[f].calls[c] # "lost"
  /\ child_up' = child_up \ {c} /\ down_count' = down_count + 1
  /\ UNCHANGED <<connected, reopening, up_count, disk, lock, fd_ctx, local, history, running>>

notify_CHILD_UP(c) ==
  /\ running /\ c \notin connected \cup child_up
  /\ up_count < MaxUp /\ (UpWhileOpen \/ Quiescent)
  /\ connected' = connected \cup {c}
  /\ reopening' = reopening \cup {<<fd, c>> : fd \in InUse(c)}
  /\ child_up' = child_up \cup {c} /\ up_count' = up_count + 1
  /\ UNCHANGED <<down_count, disk, lock, fd_ctx, local, history, running>>

protocol_client_reopen_cbk(fd, c) ==
  /\ running /\ <<fd, c>> \in reopening
  /\ reopening' = reopening \ {<<fd, c>>}
  /\ UNCHANGED <<connected, child_up, up_count, down_count, disk, lock, fd_ctx, local,
                 history, running>>

(* The client is gone: its calls, its descriptors and its locks. *)
crash ==
  /\ running /\ MayCrash
  /\ running' = FALSE
  /\ local' = [f \in Frame |-> Idle] /\ fd_ctx' = [fd \in Fd |-> Closed]
  /\ lock' = [c \in Child |-> {}]
  /\ UNCHANGED <<priv, disk, history>>

-----------------------------------------------------------------------------
(* The steps of a call that has been started *)
Step(f) ==
  \/ afr_lock_rec(f) \/ pre_op_finished(f) \/ afr_transaction_resume(f)
  \/ post_op_finished(f) \/ transaction_done(f)
  \/ afr_up_down_flush_done(f) \/ up_down_flush_cbk(f)
  \/ afr_sh_abort(f) \/ afr_sh_data_fxattrop(f) \/ afr_sh_data_erase_pending(f)
  \/ afr_up_down_flush_sh_unwind(f)
  \/ \E b \in Block : sh_block(f, b)
  \/ \E kept \in SUBSET Child : afr_sh_data_trim_sinks(f, kept)
  \/ \E c \in Child, ok \in BOOLEAN :
       \/ afr_lock_cbk(f, c, ok) \/ afr_changelog_pre_op_cbk(f, c, ok)
       \/ fop_cbk(f, c, ok) \/ ignoring_cbk(f, c, ok)

exec(f, c) == child_inodelk(f, c) \/ child_xattrop(f, c) \/ child_fop(f, c)

Connection(c) ==
  \/ disconnect(c) \/ notify_CHILD_DOWN(c) \/ notify_CHILD_UP(c)
  \/ \E fd \in Fd : protocol_client_reopen_cbk(fd, c)

Next ==
  \/ \E fd \in Fd : afr_open(fd)
  \/ \E f \in Frame, fd \in Fd :
       \/ \E b \in Block : afr_writev(f, fd, b) \/ afr_ftruncate(f, fd, b)
       \/ afr_flush(f, fd)
  \/ \E f \in Frame, b \in Block : afr_truncate(f, b)
  \/ \E f \in Frame : Step(f)
  \/ \E f \in Frame, c \in Child : exec(f, c)
  \/ \E c \in Child : Connection(c)
  \/ crash

Spec == Init /\ [][Next]_vars

(* A call under way goes on, the servers carry out what they are sent, and the
   transport reports a broken connection. *)
Fairness ==
  /\ \A f \in Frame : WF_vars(Step(f)) /\ \A c \in Child : WF_vars(exec(f, c))
  /\ \A c \in Child : WF_vars(notify_CHILD_DOWN(c))
       /\ \A fd \in Fd : WF_vars(protocol_client_reopen_cbk(fd, c))

FairSpec == Spec /\ Fairness

-----------------------------------------------------------------------------
Pc == {"idle", "lock", "preop", "fop", "postop", "unlock", "flushed", "heal", "sync", "erase", "reopen"}

FdCtx == [open : BOOLEAN, opened_on : SUBSET Child, pre_op_done : SUBSET Child,
          child_failed : SUBSET Child, up_count : Nat, down_count : Nat]

SelfHeal == [source : Child \cup {NoSource}, sinks : SUBSET Child,
             xattr : [Child -> [Child -> Int \cup {NoXattr}]]]

Local == [pc : Pc, op : {"NONE", "WRITE", "FTRUNCATE", "TRUNCATE", "FLUSH"},
          next : {"NONE", "WRITE", "FTRUNCATE"}, hook : BOOLEAN,
          fd : Fd \cup {NoFd}, at : Nat, id : Nat, child_up : SUBSET Child,
          index : Nat, lock_count : Nat, locked : SUBSET Child,
          pending : [Child -> {-1, 0, 1}],
          calls : [Child -> {"none", "sent", "done", "lost"}], op_ret : BOOLEAN,
          enotsup : BOOLEAN, sh : SelfHeal]

(* What priv, the descriptors and the calls remember stays in range; pending
   counts of the changelogs are integers, the counters of notify never go below
   zero (afr_notify, afr_fd_ctx_t, afr_local_t). *)
TypeOK ==
  /\ connected \subseteq Child /\ reopening \subseteq Fd \X Child /\ child_up \subseteq Child
  /\ up_count \in Nat /\ down_count \in Nat
  /\ data \in [Child -> [Block -> Nat]]
  /\ changelog \in [Child -> [Child -> Int]] /\ spoilt \subseteq {"erased", "doubled"} \X Child
  /\ lock \in [Child -> SUBSET [frame : Frame, region : SUBSET Nat]]
  /\ fd_ctx \in [Fd -> FdCtx]
  /\ local \in [Frame -> Local]
  /\ ops \in Nat /\ faulty \subseteq Child /\ valid \in [Block -> SUBSET Nat] /\ running \in BOOLEAN

(* Copies that differ are known to differ: as long as two children hold
   different contents, some child's changelog has a count pending against one
   of them, so that a self-heal that reads the changelogs will find something
   to do. At every moment, also after a crash of the client. *)
DivergenceRecorded ==
  \A c, d \in Child : data[c] # data[d] =>
    \E e \in Child : changelog[e][c] # 0 \/ changelog[e][d] # 0

AllSizes == [c \in Child |-> size(c)]
Marks == afr_sh_mark_sources(afr_sh_build_pending_matrix(changelog), AllSizes)

(* When the last descriptor has been closed, the copy that self-heal would take
   as the source (afr_sh_mark_sources on the changelogs of all children) has,
   in every block, what the last acknowledged modification left there or one
   that failed may have; and when it sees nothing to heal all copies have. *)
SourceIsCurrent ==
  Quiescent =>
    /\ \A c \in Marks.sources : \A b \in Block : data[c][b] \in valid[b]
    /\ Marks.nsources = 0 => \A c \in Child : \A b \in Block : data[c][b] \in valid[b]

(* A copy that lacks an acknowledged modification is accused by every copy that
   has it, once the last descriptor has been closed. *)
StaleIsAccused ==
  Quiescent =>
    \A c \in Child : (\E b \in Block : data[c][b] \notin valid[b]) =>
      \A d \in Child : (\A b \in Block : data[d][b] \in valid[b]) => changelog[d][c] > 0

(* The changelogs tell current copies from stale ones: the source a heal would
   take is current, and the stale copies are accused. *)
CopiesAccounted == SourceIsCurrent /\ StaleIsAccused

(* Children that never failed do not accuse each other, once the last
   descriptor has been closed: every count of a pre-op is taken back. Not so
   where a child answered the pre-op with ENOTSUP: the post-op of a truncate
   then adds to the counts (afr_changelog_pre_op_cbk skips __mark_all_success);
   and not where a child lacks the locks translator, which ends the flush of a
   descriptor that was written while the child was down. *)
NoFalseAccusation ==
  Quiescent /\ NoLocks = {} =>
    \A c, d \in Child \ faulty : changelog[c][d] = 0 \/ <<"doubled", c>> \in spoilt

(* Two calls never modify the same block at the same time. *)
NoConcurrentFops ==
  \A f, g \in Frame : f # g /\ local[f].pc = "fop" /\ local[g].pc = "fop" =>
    Affected(local[f]) \cap Affected(local[g]) = {}

(* A self-heal under way copies from a copy that is current in every block,
   unless the up flush before it took back the last count that some copy held
   against the source (afr_changelog_post_op takes every child that is up for
   successful; afr_sh_mark_sources then goes by the sizes). *)
HealSourceIsCurrent ==
  \A f \in Frame : local[f].pc \in {"sync", "erase"} =>
    \/ ~Stale(local[f].sh.source)
    \/ <<"erased", local[f].sh.source>> \in spoilt

(* Every call that is started ends. *)
EveryCallEnds == \A f \in Frame : []<>(local[f].pc = "idle")
=============================================================================
