------------------------------- MODULE AfrFops -------------------------------
(***************************************************************************)
(* The operations of cluster/afr other than the data writes and the        *)
(* self-heal: the entry and metadata operations, which are transactions    *)
(* (lock, pre-op, fop, post-op, unlock), the reads, which fail over from   *)
(* child to child, the operations wound to all children, and lk.           *)
(*                                                                         *)
(* The namespace is a set of numbered names, each in a directory.  On a    *)
(* child a name holds 0 (nothing), EmptyDir, FullDir (a directory with     *)
(* entries) or the number of a file; meta is the last attribute setter of  *)
(* the one file whose attributes are modelled.  log[c][k][d] is the count  *)
(* by which child c accuses child d under the changelog k.                 *)
(***************************************************************************)
EXTENDS Integers, FiniteSets

CONSTANTS AfrFrame, ChildCount, EntryName, DirOf, EntryLocks, MetaLog, MetaLocks,
          FopTable,   \* the table of AfrFopTable.tla
          AfrFop, Listings, MaxFops, MaxAfrFaults

VARIABLES ents, meta, log, granted, plk, conn, child_up, read_child, rr, local,
          dropped, spoilt, nfops, nfaults

afrVars == <<ents, meta, log, granted, plk, conn, child_up, read_child, rr, local,
             dropped, spoilt, nfops, nfaults>>

Child    == 0 .. ChildCount - 1
EmptyDir == 100
FullDir  == 101
Meta     == 0
Log      == {DirOf[n] : n \in EntryName} \cup {Meta}
NoOne    == "none"

-----------------------------------------------------------------------------
(***************************************************************************)
(* The frame.  out holds the requests on their way: the child, what the    *)
(* request is on, and its reply once the child has carried it out.         *)
(***************************************************************************)
Idle == [pc |-> "idle", fop |-> "none", cmd |-> "none", n |-> 0, m |-> 0, id |-> 0,
         up |-> {}, out |-> {}, locked |-> {}, nlocks |-> 0, pending |-> {}, mark |-> 0,
         enotsup |-> FALSE,
         op_ret |-> -1, success_count |-> 0, read_child |-> 0, read_child_returned |-> FALSE,
         main |-> FALSE, tried |-> 0, asked |-> {}, did |-> {}, lost |-> {},
         held |-> FALSE, answers |-> 0, said |-> -1]

Kind(l) == FopTable[l.fop].kind
Type(l) == FopTable[l.fop].type

To(c, on) == [to |-> c, on |-> on, st |-> "sent"]

Wind(l, pc, requests) ==
  [l EXCEPT !.pc = pc, !.out = requests, !.asked = @ \cup {r.to : r \in requests}]

\* AFR_STACK_UNWIND, and the end of the frame.
Unwind(l, ret) == [l EXCEPT !.main = FALSE, !.answers = @ + 1, !.said = ret]
End(l) ==
  [Idle EXCEPT !.pc = "done", !.fop = l.fop, !.cmd = l.cmd, !.asked = l.asked, !.did = l.did,
               !.lost = l.lost, !.held = l.held, !.answers = l.answers, !.said = l.said, !.read_child = l.read_child]

\* local->transaction.unwind: only the first caller finds the main frame.
unwind(l) == IF l.main THEN Unwind(l, l.op_ret) ELSE l

transaction_done(l) == End(unwind(l))

afr_unlock(l) ==
  IF l.locked = {} THEN transaction_done(l)
  ELSE Wind(l, "unlock", {To(x[1], x[2]) : x \in l.locked})

afr_lock_server_count(l) == IF Type(l) = "meta" THEN MetaLocks ELSE EntryLocks

Finish(l) == IF afr_lock_server_count(l) = 0 THEN transaction_done(l) ELSE afr_unlock(l)

__changelog_enabled(l) == Type(l) # "meta" \/ MetaLog

\* The directories (or the file) whose changelog a transaction writes.
Parents(l) == IF Type(l) = "rename" THEN {"new", "old"} ELSE {"old"}

afr_changelog_post_op(l) ==
  LET new == [l EXCEPT !.pending = @ \cap l.up] IN
  IF l.up = {} THEN afr_unlock(new)
  ELSE Wind(new, "postop", {To(c, p) : c \in l.up, p \in Parents(l)})

afr_transaction_resume(l) ==
  IF __changelog_enabled(l) THEN afr_changelog_post_op(l) ELSE Finish(l)

\* __mark_all_success, and local->transaction.fop: the wind function of the operation.
transaction_fop(l) ==
  LET new == [l EXCEPT !.pending = Child, !.mark = -1] IN
  IF l.up = {} THEN afr_transaction_resume(new)
  ELSE Wind(new, "fop", {To(c, "fop") : c \in l.up})

afr_changelog_pre_op(l) ==
  IF l.up = {} THEN afr_unlock(l)
  ELSE Wind([l EXCEPT !.pending = Child, !.mark = 1], "preop",
            {To(c, p) : c \in l.up, p \in Parents(l)})

Begin(l) == IF __changelog_enabled(l) THEN afr_changelog_pre_op(l) ELSE transaction_fop(l)

\* Mutant of lower_path: the old name always first.
old_first(l)  == "old"

\* Which of the two names of a rename is locked first.
lower_path(l) == IF l.n <= l.m THEN "old" ELSE "new"
higher(l)     == IF lower_path(l) = "old" THEN "new" ELSE "old"
afr_lock_rec(l, from) ==
  LET next == {c \in l.up : c >= from}
      c    == CHOOSE x \in next : \A y \in next : x <= y IN
  IF FopTable[l.fop].fd = "noctx" THEN afr_unlock(l)
  ELSE IF next = {} /\ l.nlocks = 0 THEN afr_unlock(l)
  ELSE IF next = {} \/ l.nlocks = afr_lock_server_count(l) THEN Begin(l)
  ELSE IF Type(l) = "rename" THEN Wind(l, "lock_lower", {To(c, lower_path(l))})
  ELSE Wind(l, "lock", {To(c, "old")})

afr_transaction(l) == IF afr_lock_server_count(l) = 0 THEN Begin(l) ELSE afr_lock_rec(l, 0)

-----------------------------------------------------------------------------
(***************************************************************************)
(* The replies.  r is the request answered, r.st its outcome, l.out no     *)
(* longer holds it.                                                        *)
(***************************************************************************)
Ok(r) == r.st = "ok"

\* A child without the locks translator ends the transaction.
afr_lock_cbk(l, r) ==
  IF r.st = "ENOSYS" THEN afr_unlock([l EXCEPT !.up = @ \ {r.to}])
  ELSE afr_lock_rec(IF Ok(r) THEN [l EXCEPT !.locked = @ \cup {<<r.to, r.on>>}, !.nlocks = @ + 1]
                        ELSE [l EXCEPT !.up = @ \ {r.to}], r.to + 1)

afr_lock_lower_cbk(l, r) ==
  IF Ok(r) THEN Wind([l EXCEPT !.locked = @ \cup {<<r.to, r.on>>}], "lock", {To(r.to, higher(l))})
  ELSE afr_unlock([l EXCEPT !.up = @ \ {r.to}])

\* op_errno is that of the last failure; after ENOTSUP the operation is left out, and
\* the post-op adds to the counts.
afr_changelog_pre_op_cbk(l, r) ==
  LET new == IF Ok(r) THEN l ELSE [l EXCEPT !.up = @ \ {r.to}, !.enotsup = r.st = "ENOTSUP"] IN
  IF l.out # {} THEN new
  ELSE IF new.enotsup THEN afr_transaction_resume(new) ELSE transaction_fop(new)

\* Mutant of afr_transaction_fop_failed: the failed child's counter is taken back.
fop_failure_forgotten(l, c) == l

\* afr_transaction_fop_failed: the child's counters are not taken back.
afr_transaction_fop_failed(l, c) == [l EXCEPT !.pending = @ \ {c}]
wind_cbk(l, r) ==
  LET cbk   == FopTable[l.fop].cbk
      mark  == IF r.st \in cbk.dead THEN afr_transaction_fop_failed(l, r.to) ELSE l
      heard == [mark EXCEPT !.read_child_returned = @ \/ r.to = l.read_child]
      took  == IF Ok(r) THEN [heard EXCEPT !.op_ret = 0, !.success_count = @ + 1] ELSE heard
      early == Ok(r) /\ \/ cbk.unwind = "read" /\ took.read_child_returned
                        \/ cbk.unwind = "first" /\ took.success_count = 1
      told  == IF early \/ (cbk.unwind = "last" /\ l.out = {}) THEN unwind(took) ELSE took
  IN IF l.out = {} THEN afr_transaction_resume(told) ELSE told

afr_changelog_post_op_cbk(l, r) == IF l.out = {} THEN Finish(l) ELSE l

afr_unlock_common_cbk(l, r) == IF l.out = {} THEN transaction_done(l) ELSE l

all_tried(i) == i = ChildCount - 1
\* The callback of a read: the next child, passing over the one that was asked first,
\* or the answer.
read_cbk(l, r) ==
  LET last == IF l.tried + 1 = l.read_child THEN l.tried + 1 ELSE l.tried IN
  IF Ok(r) \/ ~FopTable[l.fop].on \/ all_tried(l.tried) \/ all_tried(last)
    THEN End(Unwind(l, IF Ok(r) THEN 0 ELSE -1))
    ELSE Wind([l EXCEPT !.tried = last + 1], "read", {To(last + 1, "fop")})

all_cbk(l, r) ==
  LET new == IF Ok(r) THEN [l EXCEPT !.op_ret = 0] ELSE l IN
  IF l.out = {} THEN End(Unwind(new, new.op_ret)) ELSE new

child_went_down(r) == r.st = "ENOTCONN"

afr_lk_unlock(l) ==
  IF l.locked = {} THEN End(Unwind(l, l.op_ret))
  ELSE Wind(l, "lk_unlock", {To(x[1], "lk") : x \in l.locked})

afr_lk_unlock_cbk(l, r) == IF l.out = {} THEN End(Unwind(l, l.op_ret)) ELSE l

afr_lk_cbk(l, r) ==
  LET new == IF Ok(r) THEN [l EXCEPT !.op_ret = 0, !.locked = @ \cup {<<r.to, "lk">>}] ELSE l IN
  IF ~Ok(r) /\ ~child_went_down(r) THEN afr_lk_unlock([l EXCEPT !.op_ret = -1])
  ELSE IF r.to + 1 < ChildCount THEN Wind(new, "lk", {To(r.to + 1, "lk")})
  ELSE End(Unwind(new, new.op_ret))

Callback(l, r) ==
  CASE l.pc = "lock_lower" -> afr_lock_lower_cbk(l, r)
    [] l.pc = "lock"       -> afr_lock_cbk(l, r)
    [] l.pc = "preop"      -> afr_changelog_pre_op_cbk(l, r)
    [] l.pc = "fop"        -> wind_cbk(l, r)
    [] l.pc = "postop"     -> afr_changelog_post_op_cbk(l, r)
    [] l.pc = "unlock"     -> afr_unlock_common_cbk(l, r)
    [] l.pc = "read"       -> read_cbk(l, r)
    [] l.pc = "all"        -> all_cbk(l, r)
    [] l.pc = "lk"         -> afr_lk_cbk(l, r)
    [] l.pc = "lk_unlock"  -> afr_lk_unlock_cbk(l, r)

-----------------------------------------------------------------------------
(***************************************************************************)
(* The calls.                                                              *)
(***************************************************************************)
\* AFR_LOCAL_INIT.
Frame(fop, cmd, n, m, id) ==
  [Idle EXCEPT !.pc = "new", !.fop = fop, !.cmd = cmd, !.n = n, !.m = m, !.id = id,
               !.up = child_up, !.main = TRUE]

first_up_child == CHOOSE c \in child_up : \A d \in child_up : c <= d

\* afr_fsetattr reads the child to read from off a loc it never filled in: child 0.
ReadChild(l) == IF l.fop = "fsetattr" THEN 0 ELSE read_child[l.n]

StartRead(l) ==
  IF FopTable[l.fop].start = "read_child"
    THEN Wind([l EXCEPT !.read_child = ReadChild(l), !.tried = -1], "read",
              {To(ReadChild(l), "fop")})
  ELSE IF child_up = {} THEN End(Unwind(l, -1))
  ELSE Wind([l EXCEPT !.read_child = -1, !.tried = first_up_child], "read",
            {To(first_up_child, "fop")})

\* afr_lk does not look at what AFR_LOCAL_INIT returns: with no child up op_ret is still 0.
StartLk(l) == Wind([l EXCEPT !.op_ret = IF l.up = {} THEN 0 ELSE -1], "lk", {To(0, "lk")})

Start(l) ==
  CASE Kind(l) = "read" -> StartRead(l)
    [] Kind(l) = "lk"   -> StartLk(l)
    [] OTHER ->
         IF l.up = {} THEN End(Unwind(l, -1))
         ELSE IF Kind(l) = "all" THEN Wind(l, "all", {To(c, "fop") : c \in l.up})
         ELSE afr_transaction([l EXCEPT !.read_child = ReadChild(l)])

Active(f) == local[f].pc \notin {"idle", "done"}

Cmds(fop) == IF fop = "lk" THEN {"SETLK", "SETLKW", "UNLCK"} ELSE {"none"}
Firsts(fop) == IF FopTable[fop].kind = "transaction" /\ FopTable[fop].type # "meta" THEN EntryName ELSE {1}
Seconds(fop, n) == IF fop \in {"rename", "link"} THEN EntryName \ {n} ELSE {n}

Ask(f) ==
  /\ ~Active(f) /\ nfops < MaxFops
  /\ nfops' = nfops + 1
  /\ \E fop \in AfrFop : \E n \in Firsts(fop) : \E m \in Seconds(fop, n), cmd \in Cmds(fop) :
       LET makes == Kind(Frame(fop, cmd, n, m, 0)) = "transaction" /\ FopTable[fop].makes
           l     == [Frame(fop, cmd, n, m, nfops + 10) EXCEPT
                      !.held = \E c \in Child : plk[c] = f] IN
       /\ local' = [local EXCEPT ![f] = Start(IF makes THEN [l EXCEPT !.read_child = rr] ELSE l)]
       /\ rr' = IF makes THEN (rr + 1) % ChildCount ELSE rr
       /\ read_child' = IF makes THEN [read_child EXCEPT ![m] = rr'] ELSE read_child
       /\ spoilt' = spoilt \cup IF fop = "link" /\ DirOf[n] # DirOf[m] THEN {"link"} ELSE {}
  /\ UNCHANGED <<ents, meta, log, granted, plk, conn, child_up, dropped, nfaults>>

-----------------------------------------------------------------------------
(***************************************************************************)
(* The children (external): what a brick does with a request, and what it  *)
(* answers.                                                                *)
(***************************************************************************)
IsFile(v) == v # 0 /\ v < EmptyDir
IsDir(v)  == v >= EmptyDir

\* <<outcome, new listing>> of an entry operation on the listing e.
EntryOp(l, e) ==
  LET no(err) == <<err, e>>
      yes(x)  == <<"ok", x>>
      have    == e[l.n]
      there   == e[l.m] IN
  CASE l.fop = "create" -> (IF IsDir(have) THEN no("EEXIST")
                            ELSE IF have # 0 THEN yes(e) ELSE yes([e EXCEPT ![l.n] = l.id]))
    [] l.fop \in {"mknod", "symlink"} ->
         (IF have # 0 THEN no("EEXIST") ELSE yes([e EXCEPT ![l.n] = l.id]))
    [] l.fop = "mkdir"  -> (IF have # 0 THEN no("EEXIST") ELSE yes([e EXCEPT ![l.n] = EmptyDir]))
    [] l.fop = "setdents" -> yes(IF have = 0 THEN [e EXCEPT ![l.n] = l.id] ELSE e)
    [] l.fop = "link"   -> (IF ~IsFile(have) THEN no("ENOENT")
                            ELSE IF there # 0 THEN no("EEXIST") ELSE yes([e EXCEPT ![l.m] = have]))
    [] l.fop = "unlink" -> (IF ~IsFile(have) THEN no("ENOENT") ELSE yes([e EXCEPT ![l.n] = 0]))
    [] l.fop = "rmdir"  -> (IF ~IsDir(have) THEN no("ENOENT")
                            ELSE IF have = FullDir THEN no("ENOTEMPTY")
                            ELSE yes([e EXCEPT ![l.n] = 0]))
    [] l.fop = "rename" -> (IF have = 0 THEN no("ENOENT")
                            ELSE IF there = FullDir THEN no("ENOTEMPTY")
                            ELSE IF there # 0 /\ IsDir(have) # IsDir(there) THEN no("EEXIST")
                            ELSE yes([e EXCEPT ![l.n] = 0, ![l.m] = have]))

LogOf(l, p) == IF Type(l) = "meta" THEN Meta ELSE DirOf[IF p = "old" THEN l.n ELSE l.m]

Sum(row, who, by) == [d \in Child |-> IF d \in who THEN row[d] + by ELSE row[d]]

LockOf(f, on) == [by |-> f, on |-> IF Type(local[f]) = "meta" THEN 0
                                   ELSE IF on = "old" THEN local[f].n ELSE local[f].m]

\* A lock request waits while another frame holds the name; so does lk with SETLKW.
Blocked(f, r) ==
  LET l == local[f] IN
  \/ /\ l.pc \in {"lock", "lock_lower"}
     /\ \E x \in granted[r.to] : x.on = LockOf(f, r.on).on /\ x.by # f
  \/ l.pc = "lk" /\ l.cmd = "SETLKW" /\ plk[r.to] \notin {f, NoOne}

Reply(f, r, st, did) ==
  local' = [local EXCEPT ![f].out = (@ \ {r}) \cup {[r EXCEPT !.st = st]},
                         ![f].did = IF did THEN @ \cup {r.to} ELSE @]

Exec(f) ==
  LET l == local[f] IN
  \E r \in l.out :
    /\ r.st = "sent" /\ conn[r.to] /\ ~Blocked(f, r)
    /\ UNCHANGED <<conn, child_up, read_child, rr, dropped, spoilt, nfops, nfaults>>
    /\ \/ /\ l.pc \in {"lock", "lock_lower"}
          /\ granted' = [granted EXCEPT ![r.to] = @ \cup {LockOf(f, r.on)}]
          /\ Reply(f, r, "ok", FALSE)
          /\ UNCHANGED <<ents, meta, log, plk>>
       \/ /\ l.pc = "unlock"
          /\ granted' = [granted EXCEPT ![r.to] = @ \ {LockOf(f, r.on)}]
          /\ Reply(f, r, "ok", FALSE)
          /\ UNCHANGED <<ents, meta, log, plk>>
       \/ /\ l.pc \in {"preop", "postop"}
          /\ log' = [log EXCEPT ![r.to][LogOf(l, r.on)] = Sum(@, l.pending, l.mark)]
          /\ Reply(f, r, "ok", FALSE)
          /\ UNCHANGED <<ents, meta, granted, plk>>
       \/ /\ l.pc = "fop" /\ Type(l) = "meta"
          /\ meta' = [meta EXCEPT ![r.to] = l.id]
          /\ Reply(f, r, "ok", TRUE)
          /\ UNCHANGED <<ents, log, granted, plk>>
       \/ /\ l.pc = "fop" /\ Type(l) # "meta"
          /\ LET res == EntryOp(l, ents[r.to]) IN
               /\ ents' = [ents EXCEPT ![r.to] = res[2]]
               /\ Reply(f, r, res[1], res[1] = "ok")
          /\ UNCHANGED <<meta, log, granted, plk>>
       \/ /\ l.pc \in {"read", "all"}
          /\ Reply(f, r, "ok", TRUE)
          /\ UNCHANGED <<ents, meta, log, granted, plk>>
       \/ /\ l.pc = "lk"
          /\ IF l.cmd # "UNLCK" /\ plk[r.to] \notin {f, NoOne}
               THEN Reply(f, r, "EAGAIN", FALSE) /\ UNCHANGED plk
               ELSE /\ Reply(f, r, "ok", TRUE)
                    /\ plk' = [plk EXCEPT ![r.to] = IF l.cmd # "UNLCK" THEN f
                                                    ELSE IF @ = f THEN NoOne ELSE @]
          /\ UNCHANGED <<ents, meta, log, granted>>
       \/ /\ l.pc = "lk_unlock"
          /\ plk' = [plk EXCEPT ![r.to] = IF @ = f THEN NoOne ELSE @]
          /\ Reply(f, r, "ok", FALSE)
          /\ UNCHANGED <<ents, meta, log, granted>>

\* What a child answers that has no locks translator, or no extended attributes.
Unsupported(l) ==
  CASE l.pc \in {"lock", "lock_lower"} -> {"ENOSYS"}
    [] l.pc = "preop" -> {"ENOTSUP"}
    [] OTHER -> {}

\* The request fails on a child that is connected.
Fail(f) ==
  LET l == local[f] IN
  \E r \in l.out :
    /\ r.st = "sent" /\ conn[r.to] /\ nfaults < MaxAfrFaults
    /\ nfaults' = nfaults + 1
    /\ \E st \in {"EIO"} \cup Unsupported(l) : Reply(f, r, st, FALSE)
    /\ spoilt' = spoilt \cup IF l.pc \in {"unlock", "lk_unlock"} THEN {"unlock"} ELSE {}
    /\ UNCHANGED <<ents, meta, log, granted, plk, conn, child_up, read_child, rr, dropped, nfops>>

Answer(f) ==
  LET l == local[f] IN
  /\ \E r \in l.out :
       LET gone == r.st = "sent" /\ ~conn[r.to]
           got  == IF gone THEN [r EXCEPT !.st = "ENOTCONN"] ELSE r IN
       /\ gone \/ r.st # "sent"
       /\ local' = [local EXCEPT ![f] =
            Callback([l EXCEPT !.out = @ \ {r},
                               !.lost = IF got.st = "ENOTCONN" THEN @ \cup {r.to} ELSE @], got)]
       /\ spoilt' = spoilt \cup IF l.fop \in {"setxattr", "removexattr"} /\ ~Ok(got)
                                THEN {"xattr"} ELSE {}
  /\ UNCHANGED <<ents, meta, log, granted, plk, conn, child_up, read_child, rr, dropped,
                 nfops, nfaults>>

Lost(out, c) == {IF r.to = c THEN [r EXCEPT !.st = "ENOTCONN"] ELSE r : r \in out}

\* The connection to a child breaks: replies on their way are lost, and the brick
\* releases the locks the client held there.
Break(c) ==
  /\ conn[c] /\ nfaults < MaxAfrFaults
  /\ nfaults' = nfaults + 1
  /\ conn' = [conn EXCEPT ![c] = FALSE]
  /\ dropped' = dropped \cup {c}
  /\ spoilt' = spoilt \cup IF granted[c] # {} THEN {"lock"} ELSE {}
  /\ granted' = [granted EXCEPT ![c] = {}]
  /\ plk' = [plk EXCEPT ![c] = NoOne]
  /\ local' = [f \in AfrFrame |-> [local[f] EXCEPT !.out = Lost(@, c)]]
  /\ UNCHANGED <<ents, meta, log, child_up, read_child, rr, nfops>>

\* The connection is back; a request made while it was broken has failed.
Mend(c) ==
  /\ ~conn[c] /\ c \notin child_up
  /\ conn' = [conn EXCEPT ![c] = TRUE]
  /\ local' = [f \in AfrFrame |-> [local[f] EXCEPT !.out = Lost(@, c)]]
  /\ UNCHANGED <<ents, meta, log, granted, plk, child_up, read_child, rr, dropped, spoilt,
                 nfops, nfaults>>

\* GF_EVENT_CHILD_UP and GF_EVENT_CHILD_DOWN.
notify(c) ==
  /\ (c \in child_up) # conn[c]
  /\ child_up' = IF conn[c] THEN child_up \cup {c} ELSE child_up \ {c}
  /\ UNCHANGED <<ents, meta, log, granted, plk, conn, read_child, rr, local, dropped, spoilt,
                 nfops, nfaults>>

Init ==
  /\ \E e \in Listings : ents = [c \in Child |-> e]
  /\ meta = [c \in Child |-> 0]
  /\ log = [c \in Child |-> [k \in Log |-> [d \in Child |-> 0]]]
  /\ granted = [c \in Child |-> {}]
  /\ plk = [c \in Child |-> NoOne]
  /\ conn = [c \in Child |-> TRUE]
  /\ child_up = Child
  /\ \E c \in Child : read_child = [n \in EntryName |-> c]
  /\ rr = 0
  /\ local = [f \in AfrFrame |-> Idle]
  /\ dropped = {} /\ spoilt = {}
  /\ nfops = 0 /\ nfaults = 0

Next ==
  \/ \E f \in AfrFrame : Ask(f) \/ Exec(f) \/ Fail(f) \/ Answer(f)
  \/ \E c \in Child : Break(c) \/ Mend(c) \/ notify(c)

Spec == Init /\ [][Next]_afrVars

-----------------------------------------------------------------------------
Accused(k, c) == \E e \in Child : log[e][k][c] > 0

InDir(c, k) == [n \in {x \in EntryName : DirOf[x] = k} |-> ents[c][n]]

Recorded(k) ==
  \A c, d \in Child : InDir(c, k) # InDir(d, k) => Accused(k, c) \/ Accused(k, d)

\* Two copies of a directory that differ are never both beyond suspicion: some child's
\* changelog accuses one of them (afr_changelog_pre_op before the operation, and
\* afr_changelog_post_op, which takes back only what succeeded), whatever requests fail
\* and whichever connections break on the way, as long as no brick forgot a lock and no
\* link was made across directories.  With the metadata changelog and lock on, the same
\* is true of setattr and fsetattr.
DivergenceRecorded ==
  "lock" \notin spoilt =>
    /\ "link" \notin spoilt => \A k \in Log \ {Meta} : Recorded(k)
    /\ MetaLog /\ MetaLocks > 0 /\ "xattr" \notin spoilt =>
         \A c, d \in Child : meta[c] # meta[d] => Accused(Meta, c) \/ Accused(Meta, d)

\* A call is answered once, and truthfully: after a success some child carried it out,
\* after a failure no child did whose answer arrived (the unwind in the callbacks of
\* afr-dir-write.c and afr-inode-write.c, guarded by main_frame).
AnsweredTruly ==
  \A f \in AfrFrame :
    LET l == local[f] IN
    /\ l.pc = "done" => l.answers = 1
    /\ l.pc = "done" /\ l.fop # "lk" =>
         IF l.said = 0 THEN l.did # {} ELSE l.did \subseteq l.lost

\* A read is refused only after every child was asked (the retry in the callbacks of
\* afr-inode-read.c; afr_getdents_cbk starts at the first child up; afr_readdir asks one).
ReadFailsOver ==
  \A f \in AfrFrame :
    LET l == local[f] IN
    l.pc = "done" /\ l.said = -1 /\ Kind(l) = "read" /\ FopTable[l.fop].on =>
      IF FopTable[l.fop].start = "read_child" THEN l.asked = Child
      ELSE \A c \in Child, d \in l.asked : d <= c => c \in l.asked

\* A caller that holds no POSIX lock gets one on all the children that stayed up, or on
\* none (afr_lk_cbk and afr_lk_unlock).
LkAllOrNothing ==
  \A f \in AfrFrame :
    LET l == local[f] IN
    l.pc = "done" /\ l.fop = "lk" /\ ~l.held /\ "unlock" \notin spoilt =>
      IF l.said = 0 THEN \A c \in Child \ dropped : (plk[c] = f) = (l.cmd # "UNLCK")
      ELSE l.cmd # "UNLCK" => \A c \in Child : plk[c] # f

\* The callers never all wait for one another: whenever a call is under way, some
\* request can be carried out or some reply taken (lower_path orders the two locks of a
\* rename), unless it waits for a POSIX lock that its holder, not in a call, keeps, or
\* that is held on some children only since a connection broke, or for a lock whose release
\* the brick refused; and no call is under way without a request.
NeverStuck ==
  /\ \A f \in AfrFrame : Active(f) => local[f].out # {}
  /\ (\E f \in AfrFrame : Active(f)) /\ "unlock" \notin spoilt =>
       \E f \in AfrFrame : \E r \in local[f].out :
         \/ r.st # "sent" \/ ~conn[r.to] \/ ~Blocked(f, r)
         \/ local[f].pc = "lk" /\ (dropped # {} \/ ~Active(plk[r.to]))

\* A transaction that is over holds no lock (afr_unlock goes by locked_nodes, to which
\* both locks of a rename are added).
NoLockLeft ==
  \A f \in AfrFrame : ~Active(f) /\ "unlock" \notin spoilt =>
    \A c \in Child : \A x \in granted[c] : x.by # f
=============================================================================
