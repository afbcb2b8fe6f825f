---------------------------- MODULE AfrHealEntry ----------------------------
(* The self-heal of a directory in cluster/afr (afr-self-heal-entry.c): started
   by a lookup that found pending entry operations, or by the first opendir of
   the directory when the listings of the children differ (afr-dir-read.c). The
   entries the source has and a sink has not are made on the sink (impunge), the
   ones the source has not are moved to the trash directory of the sink
   (expunge). With no source the listings are merged.

   A request is executed by its child when the answer is taken. The kind of an
   entry is "reg", "dir" or a link with target 1 or 2. *)
EXTENDS Integers, FiniteSets

CONSTANTS
  Client,            \* clients that heal the directory
  ChildCount, NoXattr,
  EName,             \* names of entries
  DirSize,           \* st_size of the directory on each child
  Listings,          \* contents of an up to date and of a stale copy, see Init
  EHistories,        \* how the copies came to differ
  MaxEHeals, MaxEOps, MaxEFaults

S == INSTANCE AfrSources WITH FavoriteChild <- -1

Child == 0 .. ChildCount - 1

None    == "none"
NoRow   == [j \in Child |-> NoXattr]
ENOENT  == "ENOENT"
EFAIL   == "other errno"
IsLink(k) == k \in {"l1", "l2"}

VARIABLES
  dir,     \* the copy of each child: names, pending row, accused entries, trash, lock
  up,
  sh,      \* frame->local of each client
  seen,    \* clients whose inode table has the trash directory
  opened,  \* clients whose directory inode has AFR_ICTX_OPENDIR_DONE_MASK
  latest,  \* the entries every acknowledged operation has left
  made,    \* history: the empty copies impunge has made
  orphan,  \* history: those of which nobody was told that they are empty
  merged,  \* listings were merged without a source
  spoilt,  \* what happened without the heal taking notice: "step", "lock"
  nheals, nops, nfaults

entryVars == <<dir, up, sh, seen, opened, latest, made, orphan, merged, spoilt, nheals, nops,
               nfaults>>

Known == DOMAIN latest = EName

-----------------------------------------------------------------------------
(* frames and requests; a request of an entry carries its name n and the child i
   it is made for, which is not always the child c it is sent to *)

Frame == [at |-> "idle", wait |-> {}, answers |-> 0, cup |-> {},
          sums |-> [c \in Child |-> {None}], x |-> [c \in Child |-> NoRow], dicts |-> {},
          locked |-> {}, failed |-> FALSE, forced |-> FALSE,
          source |-> -1, sources |-> {}, success |-> {}, active |-> -1, opening |-> FALSE]

Rq(c, op, n, i, val) == [c |-> c, op |-> op, n |-> n, i |-> i, val |-> val]
To(C, op, val) == {Rq(c, op, None, c, val) : c \in C}
Wind(r, at, reqs) == [r EXCEPT !.at = at, !.wait = reqs]
Also(r, q) == [r EXCEPT !.wait = @ \cup {q}]

Sinks(r) == r.cup \ r.sources
Names(b) == {n \in EName : b.names[n] # None}

-----------------------------------------------------------------------------
(* the end of a heal *)

afr_sh_entry_done(r) ==
  [r EXCEPT !.at = "done", !.wait = {}, !.locked = {}, !.answers = @ + 1]

afr_sh_entry_unlck_cbk(r) == IF r.wait = {} THEN afr_sh_entry_done(r) ELSE r

afr_sh_entry_unlock(r) ==
  IF r.locked = {} THEN afr_sh_entry_done(r)
  ELSE Wind(r, "unlck", To(r.locked, "unentrylk", 0))

afr_sh_entry_finish(r) == afr_sh_entry_unlock(r)

afr_sh_entry_erase_pending_cbk(r) == IF r.wait = {} THEN afr_sh_entry_finish(r) ELSE r

Delta(r, i) ==
  [j \in Child |-> IF j \in r.success THEN -S!pending(r.x[i], j) ELSE 0]

(* dicts: the children whose attributes the lookup has read. *)
afr_sh_entry_erase_pending(r) ==
  IF r.dicts = {} THEN afr_sh_entry_finish(r)
  ELSE Wind(r, "erase", {Rq(i, "xattrop", None, i, Delta(r, i)) : i \in r.dicts})

-----------------------------------------------------------------------------
(* expunge *)

afr_sh_entry_expunge_subvol(r, active_src, off) ==
  Wind(r, "expunge", {Rq(active_src, "readdir", None, active_src, off)})

next_active_sink(r) ==
  LET C == {c \in Sinks(r) : c > r.active}
  IN IF C = {} THEN -1 ELSE S!Lowest(C)

afr_sh_entry_expunge_all(r) ==
  LET a == next_active_sink(r)
      f == [r EXCEPT !.active = a]
  IN IF r.source = -1 THEN afr_sh_entry_erase_pending(r)
     ELSE IF r.failed \/ a = -1 THEN afr_sh_entry_erase_pending(f)
     ELSE afr_sh_entry_expunge_subvol(f, a, 0)

afr_sh_entry_expunge_entry_done(r) ==
  IF r.wait = {} THEN afr_sh_entry_expunge_subvol(r, r.active, 1) ELSE r

(* The trash directory and the parent's times are what the rename is followed by. *)
afr_sh_entry_expunge_parent_setattr_cbk(r) == afr_sh_entry_expunge_entry_done(r)

afr_sh_entry_expunge_rename_cbk(r, q) == Also(r, Rq(q.c, "setattr", q.n, q.i, "parent"))

afr_sh_entry_expunge_rename(r, q) == Also(r, Rq(r.active, "rename", q.n, q.i, 0))

afr_sh_entry_expunge_mkdir_cbk(r, q, ok) ==
  IF ok THEN afr_sh_entry_expunge_rename(r, q) ELSE afr_sh_entry_expunge_entry_done(r)

afr_sh_entry_expunge_lookup_trash_cbk(r, q, ok, errno) ==
  IF ok THEN afr_sh_entry_expunge_rename(r, q)
  ELSE IF errno = ENOENT THEN Also(r, Rq(r.active, "mkdir_trash", q.n, q.i, 0))
  ELSE afr_sh_entry_expunge_entry_done(r)

(* inode_grep finds the trash directory in the table of the client, whichever
   child it was seen on. *)
afr_sh_entry_expunge_lookup_trash(r, q, trash) ==
  IF trash THEN afr_sh_entry_expunge_rename(r, q)
  ELSE Also(r, Rq(r.active, "lookup_trash", q.n, q.i, 0))

afr_sh_entry_expunge_remove(r, q, trash) == afr_sh_entry_expunge_lookup_trash(r, q, trash)

afr_sh_entry_expunge_lookup_cbk(r, q, ok, trash) ==
  IF ok THEN afr_sh_entry_expunge_remove(r, q, trash) ELSE afr_sh_entry_expunge_entry_done(r)

afr_sh_entry_expunge_purge(r, q) == Also(r, Rq(r.active, "lookup_sink", q.n, q.i, 0))

(* Variant: an entry the source cannot be asked about is gone. *)
expunge_any_failure(r, q, ok, errno) ==
  IF ~ok THEN afr_sh_entry_expunge_purge(r, q) ELSE afr_sh_entry_expunge_entry_done(r)

afr_sh_entry_expunge_entry_cbk(r, q, ok, errno) ==
  IF ~ok /\ errno = ENOENT THEN afr_sh_entry_expunge_purge(r, q)
  ELSE afr_sh_entry_expunge_entry_done(r)

afr_sh_entry_expunge_entry(r, n) == Rq(r.source, "lookup_source", n, r.active, 0)

(* The second listing, from the last offset on, is empty. *)
afr_sh_entry_expunge_readdir_cbk(r, q, ok, names) ==
  IF ~ok \/ q.val = 1 THEN afr_sh_entry_expunge_all(r)
  ELSE IF names = {} THEN afr_sh_entry_expunge_subvol(r, r.active, 1)
  ELSE [r EXCEPT !.wait = {afr_sh_entry_expunge_entry(r, n) : n \in names}]

-----------------------------------------------------------------------------
(* impunge *)

afr_sh_entry_impunge_subvol(r, active_src, off) ==
  Wind(r, "impunge", {Rq(active_src, "readdirp", None, active_src, off)})

next_active_source(r) ==
  IF r.source # -1 THEN IF r.active # r.source THEN r.source ELSE -1
  ELSE next_active_sink(r)

afr_sh_entry_impunge_all(r) ==
  LET a == next_active_source(r)
      f == [r EXCEPT !.active = a]
  IN IF r.failed THEN afr_sh_entry_finish(f)
     ELSE IF a = -1 THEN afr_sh_entry_expunge_all(f)
     ELSE afr_sh_entry_impunge_subvol(f, a, 0)

afr_sh_entry_impunge_entry_done(r) ==
  IF r.wait = {} THEN afr_sh_entry_impunge_subvol(r, r.active, 1) ELSE r

afr_sh_entry_impunge_setattr_cbk(r) == afr_sh_entry_impunge_entry_done(r)

afr_sh_entry_impunge_xattrop_cbk(r, q) == Also(r, Rq(q.i, "setattr", q.n, q.i, "entry"))

(* The active source accuses the new copy, which is empty. *)
afr_sh_entry_impunge_newfile_cbk(r, q, ok) ==
  IF ok THEN Also(r, Rq(r.active, "accuse", q.n, q.i, q.i))
  ELSE afr_sh_entry_impunge_entry_done(r)

afr_sh_entry_impunge_mknod(r, q) == Also(r, Rq(q.i, "make", q.n, q.i, "reg"))
afr_sh_entry_impunge_mkdir(r, q) == Also(r, Rq(q.i, "make", q.n, q.i, "dir"))
afr_sh_entry_impunge_symlink(r, q, link) == Also(r, Rq(q.i, "make", q.n, q.i, link))

afr_sh_entry_impunge_symlink_unlink_cbk(r, q, ok) ==
  IF ok THEN afr_sh_entry_impunge_symlink(r, q, q.val) ELSE afr_sh_entry_impunge_entry_done(r)

afr_sh_entry_impunge_symlink_unlink(r, q) == Also(r, Rq(q.i, "unlink", q.n, q.i, q.val))

afr_sh_entry_impunge_readlink_sink_cbk(r, q, ok, val) ==
  IF ~ok /\ val = ENOENT THEN afr_sh_entry_impunge_symlink(r, q, q.val)
  ELSE IF ~ok \/ val = q.val THEN afr_sh_entry_impunge_entry_done(r)
  ELSE afr_sh_entry_impunge_symlink_unlink(r, q)

afr_sh_entry_impunge_readlink_sink(r, q, link) ==
  Also(r, Rq(q.i, "readlink_sink", q.n, q.i, link))

afr_sh_entry_impunge_readlink_cbk(r, q, ok, link) ==
  IF ok THEN afr_sh_entry_impunge_readlink_sink(r, q, link)
  ELSE afr_sh_entry_impunge_entry_done(r)

afr_sh_entry_impunge_readlink(r, q) == Also(r, Rq(r.active, "readlink", q.n, q.i, 0))

afr_sh_entry_impunge_recreate_lookup_cbk(r, q, ok, kind) ==
  IF ~ok THEN afr_sh_entry_impunge_entry_done(r)
  ELSE IF kind = "dir" THEN afr_sh_entry_impunge_mkdir(r, q)
  ELSE IF IsLink(kind) THEN afr_sh_entry_impunge_readlink(r, q)
  ELSE afr_sh_entry_impunge_mknod(r, q)

afr_sh_entry_impunge_recreate(r, q) == Also(r, Rq(r.active, "lookup_again", q.n, q.i, 0))

(* q.val is the kind the listing of the active source gave. *)
afr_sh_entry_impunge_entry_cbk(r, q, ok, errno) ==
  IF (~ok /\ errno = ENOENT) \/ IsLink(q.val) THEN afr_sh_entry_impunge_recreate(r, q)
  ELSE afr_sh_entry_impunge_entry_done(r)

afr_sh_entry_impunge_entry(r, n, kind) ==
  {Rq(i, "lookup_entry", n, i, kind) : i \in Sinks(r) \ {r.active}}

afr_sh_entry_impunge_readdir_cbk(r, q, ok, names) ==
  IF ~ok \/ q.val = 1 THEN afr_sh_entry_impunge_all(r)
  ELSE IF \A n \in EName : names[n] = None THEN afr_sh_entry_impunge_subvol(r, r.active, 1)
  ELSE [r EXCEPT !.wait = UNION {afr_sh_entry_impunge_entry(r, n, names[n]) :
                                   n \in {m \in EName : names[m] # None}}]

-----------------------------------------------------------------------------
(* the beginning of a heal *)

afr_sh_entry_opendir_cbk(r, ok) ==
  LET f == [r EXCEPT !.failed = @ \/ ~ok]
  IN IF r.wait # {} THEN f
     ELSE IF f.failed THEN afr_sh_entry_finish(f)
     ELSE afr_sh_entry_impunge_all([f EXCEPT !.active = -1])

afr_sh_entry_open(r) ==
  Wind(r, "open", To(Sinks(r) \cup ({r.source} \ {-1}), "opendir", 0))

afr_sh_entry_sync_prepare(r) ==
  LET f == [r EXCEPT !.success = @ \cup Sinks(r) \cup ({r.source} \ {-1})]
  IN IF Sinks(r) = {} \/ (r.source = -1 /\ Cardinality(Sinks(r)) < 2)
     THEN afr_sh_entry_finish(f)
     ELSE afr_sh_entry_open(f)

(* afr_sh_mark_sources for AFR_SELF_HEAL_ENTRY *)
afr_sh_mark_sources(M) ==
  LET W == S!wise(M) IN
  CASE S!innocent(M) = Child -> S!Marked(0, {})
    [] S!innocent(M) # Child /\ W # {} ->
         IF S!wisest(M, W) = {} THEN S!Marked(S!SplitBrain, {})
         ELSE S!Marked(Cardinality(S!wisest(M, W)), S!wisest(M, W))
    [] S!innocent(M) # Child /\ W = {} ->
         S!Marked(1, {S!biggest(S!fool(M), DirSize)})

(* A split brain is no source at all: the listings are merged. *)
afr_sh_entry_fix(r) ==
  LET marked == afr_sh_mark_sources(S!afr_sh_build_pending_matrix(r.x))
  IN IF r.forced THEN afr_sh_entry_sync_prepare([r EXCEPT !.source = -1])
     ELSE IF marked.nsources = 0 THEN afr_sh_entry_finish(r)
     ELSE afr_sh_entry_sync_prepare(
            [r EXCEPT !.sources = marked.sources,
                      !.source  = IF marked.sources = {} THEN -1 ELSE S!Lowest(marked.sources)])

afr_sh_entry_lookup_cbk(r, q, ok, row) ==
  LET f == IF ok THEN [r EXCEPT !.x[q.c] = row, !.dicts = @ \cup {q.c}] ELSE r
  IN IF r.wait = {} THEN afr_sh_entry_fix(f) ELSE f

afr_sh_entry_lookup(r) == Wind(r, "lookup", To(r.cup, "lookup", 0))

afr_sh_entry_lock_cbk(r, q, ok) ==
  LET f == IF ok THEN [r EXCEPT !.locked = @ \cup {q.c}] ELSE [r EXCEPT !.failed = TRUE]
  IN IF r.wait # {} THEN f
     ELSE IF f.failed THEN afr_sh_entry_finish(f) ELSE afr_sh_entry_lookup(f)

afr_sh_entry_lock(r) == Wind(r, "lock", To(r.cup, "entrylk", 0))

(* option entry-self-heal is on *)
afr_self_heal_entry(r) == afr_sh_entry_lock(r)

(* A child that is down has the checksum 0. *)
__checksums_differ(r) == \E c, d \in Child : r.sums[c] # r.sums[d]

(* The heal has no missing entries and no metadata to look after. *)
afr_examine_dir_readdir_cbk(r, q, ok, names) ==
  LET f == IF ok THEN [r EXCEPT !.sums[q.c] = names] ELSE r
  IN IF r.wait # {} THEN f
     ELSE IF __checksums_differ(f) THEN afr_self_heal_entry([f EXCEPT !.forced = TRUE])
     ELSE afr_sh_entry_done(f)

afr_examine_dir(r) == Wind(r, "examine", To(r.cup, "readdir", 0))

afr_opendir_cbk(r, ok, done) ==
  LET f == [r EXCEPT !.opening = @ \/ ok]
  IN IF r.wait # {} THEN f
     ELSE IF f.opening /\ ~done THEN afr_examine_dir(f)
     ELSE afr_sh_entry_done(f)

afr_opendir(h) ==
  /\ sh[h].at \in {"idle", "done"} /\ nheals < MaxEHeals
  /\ nheals' = nheals + 1
  /\ sh' = [sh EXCEPT ![h] = IF up = {} THEN afr_sh_entry_done(Frame)
                             ELSE Wind([Frame EXCEPT !.cup = up], "opendir", To(up, "opendir", 0))]
  /\ UNCHANGED <<dir, up, seen, opened, latest, made, orphan, merged, spoilt, nops, nfaults>>

(* A lookup has found a child that accuses another one, see AfrHeal. *)
afr_lookup(h) ==
  /\ sh[h].at \in {"idle", "done"} /\ nheals < MaxEHeals
  /\ \E c \in up : \E j \in Child : dir[c].e[j] \notin {0, NoXattr}
  /\ nheals' = nheals + 1
  /\ sh' = [sh EXCEPT ![h] = afr_self_heal_entry([Frame EXCEPT !.cup = up])]
  /\ UNCHANGED <<dir, up, seen, opened, latest, made, orphan, merged, spoilt, nops, nfaults>>

-----------------------------------------------------------------------------
(* a child: storage/posix and features/locks as the heal uses them *)

Did(b, ok, val) == [b |-> b, ok |-> ok, val |-> val]

AddRow(row, delta) ==
  [j \in Child |-> (IF row[j] = NoXattr THEN 0 ELSE row[j]) + delta[j]]

Exec(h, b, q) ==
  LET kind == IF q.n = None THEN None ELSE b.names[q.n]
      answer(k) == IF k = None THEN Did(b, FALSE, ENOENT) ELSE Did(b, TRUE, k)
  IN CASE q.op \in {"lookup_entry", "lookup_again", "lookup_source", "lookup_sink"} ->
            answer(kind)
       [] q.op = "opendir" -> Did(b, TRUE, 0)
       [] q.op = "entrylk" -> IF b.elk \in {None, h} THEN Did([b EXCEPT !.elk = h], TRUE, 0)
                              ELSE Did(b, FALSE, EFAIL)
       [] q.op = "unentrylk" -> Did([b EXCEPT !.elk = IF @ = h THEN None ELSE @], TRUE, 0)
       [] q.op = "lookup" -> Did(b, TRUE, b.e)
       [] q.op = "readdirp" -> Did(b, TRUE, b.names)
       [] q.op = "readdir" -> Did(b, TRUE, Names(b))
       [] q.op = "make" ->
            IF kind # None THEN Did(b, FALSE, EFAIL)
            ELSE Did([b EXCEPT !.names[q.n] = q.val, !.acc[q.n] = {}], TRUE, 0)
       [] q.op = "unlink" -> IF kind = None THEN Did(b, FALSE, ENOENT)
                             ELSE Did([b EXCEPT !.names[q.n] = None, !.acc[q.n] = {}], TRUE, 0)
       [] q.op = "accuse" -> IF kind = None THEN Did(b, FALSE, ENOENT)
                             ELSE Did([b EXCEPT !.acc[q.n] = @ \cup {q.val}], TRUE, 0)
       [] q.op \in {"readlink", "readlink_sink"} ->
            IF kind # None /\ ~IsLink(kind) THEN Did(b, FALSE, EFAIL) ELSE answer(kind)
       [] q.op = "lookup_trash" -> IF b.trash THEN Did(b, TRUE, 0) ELSE Did(b, FALSE, ENOENT)
       [] q.op = "mkdir_trash" -> IF b.trash THEN Did(b, FALSE, EFAIL)
                                  ELSE Did([b EXCEPT !.trash = TRUE], TRUE, 0)
       [] q.op = "rename" ->
            IF ~b.trash \/ kind = None THEN Did(b, FALSE, ENOENT)
            ELSE Did([b EXCEPT !.names[q.n] = None, !.acc[q.n] = {}], TRUE, 0)
       [] q.op = "setattr" -> Did(b, TRUE, 0)
       [] q.op = "xattrop" -> Did([b EXCEPT !.e = AddRow(@, q.val)], TRUE, 0)

Callback(r, q, ok, val, trash, done) ==
  CASE r.at = "opendir" -> afr_opendir_cbk(r, ok, done)
    [] r.at = "examine" -> afr_examine_dir_readdir_cbk(r, q, ok, val)
    [] r.at = "lock"    -> afr_sh_entry_lock_cbk(r, q, ok)
    [] r.at = "lookup"  -> afr_sh_entry_lookup_cbk(r, q, ok, val)
    [] r.at = "open"    -> afr_sh_entry_opendir_cbk(r, ok)
    [] r.at = "erase"   -> afr_sh_entry_erase_pending_cbk(r)
    [] r.at = "unlck"   -> afr_sh_entry_unlck_cbk(r)
    [] r.at = "impunge" /\ q.op = "readdirp" -> afr_sh_entry_impunge_readdir_cbk(r, q, ok, val)
    [] r.at = "impunge" /\ q.op = "lookup_entry" -> afr_sh_entry_impunge_entry_cbk(r, q, ok, val)
    [] r.at = "impunge" /\ q.op = "lookup_again" ->
         afr_sh_entry_impunge_recreate_lookup_cbk(r, q, ok, val)
    [] r.at = "impunge" /\ q.op = "readlink" -> afr_sh_entry_impunge_readlink_cbk(r, q, ok, val)
    [] r.at = "impunge" /\ q.op = "readlink_sink" ->
         afr_sh_entry_impunge_readlink_sink_cbk(r, q, ok, val)
    [] r.at = "impunge" /\ q.op = "unlink" -> afr_sh_entry_impunge_symlink_unlink_cbk(r, q, ok)
    [] r.at = "impunge" /\ q.op = "make" -> afr_sh_entry_impunge_newfile_cbk(r, q, ok)
    [] r.at = "impunge" /\ q.op = "accuse" -> afr_sh_entry_impunge_xattrop_cbk(r, q)
    [] r.at = "impunge" /\ q.op = "setattr" -> afr_sh_entry_impunge_setattr_cbk(r)
    [] r.at = "expunge" /\ q.op = "readdir" -> afr_sh_entry_expunge_readdir_cbk(r, q, ok, val)
    [] r.at = "expunge" /\ q.op = "lookup_source" -> afr_sh_entry_expunge_entry_cbk(r, q, ok, val)
    [] r.at = "expunge" /\ q.op = "lookup_sink" -> afr_sh_entry_expunge_lookup_cbk(r, q, ok, trash)
    [] r.at = "expunge" /\ q.op = "lookup_trash" ->
         afr_sh_entry_expunge_lookup_trash_cbk(r, q, ok, val)
    [] r.at = "expunge" /\ q.op = "mkdir_trash" -> afr_sh_entry_expunge_mkdir_cbk(r, q, ok)
    [] r.at = "expunge" /\ q.op = "rename" -> afr_sh_entry_expunge_rename_cbk(r, q)
    [] r.at = "expunge" /\ q.op = "setattr" -> afr_sh_entry_expunge_parent_setattr_cbk(r)

(* Only locks and opendirs stop a heal. Any other request that fails is passed
   over and the pending counts are erased all the same; an ENOENT is an answer
   where the code asks whether an entry is there. *)
Ignored(r, q, ok, val) ==
  /\ ~ok /\ r.at \in {"lookup", "impunge", "expunge"}
  /\ q.op # "setattr"
  /\ val = ENOENT => q.op \in {"lookup_again", "lookup_sink", "readlink", "rename", "accuse"}

Ended(r) == [Frame EXCEPT !.at = "done", !.answers = r.answers, !.cup = r.cup,
                          !.failed = r.failed, !.success = r.success]
Settled(called) == IF called.at = "done" THEN Ended(called) ELSE called

Answer(h, q, fault) ==
  LET r == sh[h]
      did == Exec(h, dir[q.c], q)
      done == q.c \in up /\ ~fault
      ok == done /\ did.ok
      val == IF done THEN did.val ELSE EFAIL
  IN /\ q.c \notin up => ~fault
     /\ fault => nfaults < MaxEFaults /\ q.op # "unentrylk"
     /\ \E f \in {Settled(Callback([r EXCEPT !.wait = @ \ {q}], q, ok, val,
                                   h \in seen, h \in opened))} :
          /\ sh' = [sh EXCEPT ![h] = f]
          /\ opened' = IF f.at = "done" /\ r.opening THEN opened \cup {h} ELSE opened
          /\ merged' = (merged \/ (f.at = "impunge" /\ f.source = -1))
     /\ dir' = IF done THEN [dir EXCEPT ![q.c] = did.b] ELSE dir
     /\ seen' = IF ok /\ q.op \in {"lookup_trash", "mkdir_trash"} THEN seen \cup {h} ELSE seen
     /\ made' = IF ok /\ q.op = "make" /\ ~IsLink(q.val) THEN made \cup {<<q.c, q.n>>}
                ELSE IF ok /\ q.op = "rename" THEN made \ {<<q.c, q.n>>} ELSE made
     /\ orphan' = IF q.op = "accuse" /\ ~ok THEN orphan \cup {<<q.i, q.n>>}
                  ELSE IF ok /\ q.op = "make" THEN orphan \ {<<q.c, q.n>>} ELSE orphan
     /\ spoilt' = IF Ignored(r, q, ok, val) THEN spoilt \cup {"step"} ELSE spoilt
     /\ nfaults' = IF fault THEN nfaults + 1 ELSE nfaults
     /\ UNCHANGED <<up, latest, nheals, nops>>

Without(b, H) == [b EXCEPT !.elk = IF @ \in H THEN None ELSE @]

(* A child goes down; the locks it has given out are gone. *)
Down(c) ==
  /\ c \in up /\ nfaults < MaxEFaults
  /\ up' = up \ {c}
  /\ dir' = [dir EXCEPT ![c] = Without(@, Client)]
  /\ spoilt' = IF dir[c].elk # None THEN spoilt \cup {"lock"} ELSE spoilt
  /\ nfaults' = nfaults + 1
  /\ UNCHANGED <<sh, seen, opened, latest, made, orphan, merged, nheals, nops>>

(* A child comes back. Entry operations lock the first child that is up, which
   a heal under way need not have locked. *)
Up(c) ==
  /\ c \notin up
  /\ up' = up \cup {c}
  /\ spoilt' = IF \E h \in Client : sh[h].locked # {} THEN spoilt \cup {"lock"} ELSE spoilt
  /\ UNCHANGED <<dir, sh, seen, opened, latest, made, orphan, merged, nheals, nops, nfaults>>

(* A client dies. A copy it has just made and not had accused stays as it is. *)
Die(h) ==
  /\ sh[h].at \notin {"idle", "done"} /\ nfaults < MaxEFaults
  /\ sh' = [sh EXCEPT ![h] = Frame]
  /\ dir' = [c \in Child |-> Without(dir[c], {h})]
  /\ seen' = seen \ {h} /\ opened' = opened \ {h}
  /\ orphan' = orphan \cup {<<q.i, q.n>> : q \in {p \in sh[h].wait : p.op = "accuse"}}
  /\ nfaults' = nfaults + 1
  /\ UNCHANGED <<up, latest, made, merged, spoilt, nheals, nops>>

(* An entry operation of AfrTransaction as one step: the name is made or removed
   on the children that are up and the others are accused. *)
Operate(n, kind) ==
  LET row == [j \in Child |-> IF j \in up THEN 0 ELSE 1]
  IN /\ Known /\ nops < MaxEOps /\ up # {}
     /\ dir[S!Lowest(up)].elk = None
     /\ \A c \in up : dir[c].names[n] = latest[n]
     /\ (latest[n] = None) # (kind = None)
     /\ \E c \in up : \A d \in Child : dir[d].e[c] \in {0, NoXattr}
     /\ nops' = nops + 1
     /\ latest' = [latest EXCEPT ![n] = kind]
     /\ dir' = [c \in Child |->
          IF c \in up THEN [dir[c] EXCEPT !.names[n] = kind, !.acc[n] = {}, !.e = AddRow(@, row)]
          ELSE dir[c]]
     /\ made' = made \ {<<c, n>> : c \in Child}
     /\ UNCHANGED <<up, sh, seen, opened, orphan, merged, spoilt, nheals, nfaults>>

-----------------------------------------------------------------------------
(* Init: the children of A have seen entry operations the others missed
   ("stale"); two sides changed the directory while apart ("split"); a client
   died before its post-op ("fools"); the listings differ and nobody accuses
   anybody ("loose"). *)

Accuse(C) == [j \in Child |-> IF j \in C THEN 1 ELSE 0]

Start(hist, A, l, trash, c) ==
  [names |-> IF c \in A THEN l[1] ELSE l[2],
   e |-> CASE hist = "stale" -> IF c \in A THEN Accuse(Child \ A) ELSE NoRow
           [] hist = "split" -> Accuse(IF c \in A THEN Child \ A ELSE A)
           [] hist = "fools" -> Accuse(Child)
           [] hist = "loose" -> NoRow,
   acc |-> [n \in EName |-> {}], trash |-> trash, elk |-> None]

Init ==
  /\ \E hist \in EHistories, A \in (SUBSET Child) \ {{}, Child}, l \in Listings, trash \in BOOLEAN :
       /\ dir = [c \in Child |-> Start(hist, A, l, trash, c)]
       /\ latest = IF hist = "stale" THEN l[1] ELSE <<>>
  /\ up = Child
  /\ sh = [h \in Client |-> Frame]
  /\ seen = {} /\ opened = {} /\ made = {} /\ orphan = {} /\ merged = FALSE /\ spoilt = {}
  /\ nheals = 0 /\ nops = 0 /\ nfaults = 0

Next ==
  \/ \E h \in Client : afr_lookup(h) \/ afr_opendir(h) \/ Die(h)
  \/ \E h \in Client : \E q \in sh[h].wait : \E fault \in BOOLEAN : Answer(h, q, fault)
  \/ \E c \in Child : Down(c) \/ Up(c)
  \/ \E n \in EName, kind \in {None, "reg"} : Operate(n, kind)

Spec == Init /\ [][Next]_entryVars

-----------------------------------------------------------------------------
Accused(c) == \E i \in Child : dir[i].e[c] \notin {0, NoXattr}

(* The same names, and the same links among them. An entry of another type is
   left to the lookup of its own name. *)
Alike(a, b) ==
  \A n \in EName : /\ (a[n] = None) = (b[n] = None)
                   /\ IsLink(a[n]) /\ IsLink(b[n]) => a[n] = b[n]

(* The children nobody accuses list what the acknowledged operations have left,
   and there is always one: a heal that dies or gives up leaves its sinks accused
   and only a finished one clears them (afr_sh_entry_erase_pending). *)
TrustedListsLatest ==
  Known /\ ~merged /\ spoilt = {} =>
    /\ \E c \in Child : ~Accused(c)
    /\ \A c \in Child : ~Accused(c) => Alike(dir[c].names, latest)

(* A heal moves an entry away only while its source has no such entry: the
   answer of the source (afr_sh_entry_expunge_entry_cbk) is still true when the
   rename is done several requests later, and a merge moves nothing. It is never
   an entry of a child that accuses the source and not itself. A link is also
   removed to be made again with another target. *)
RemovesOnlyDead ==
  \A c \in Child, n \in EName :
    dir[c].names[n] # None /\ dir'[c].names[n] = None /\ nops' = nops /\ "lock" \notin spoilt
      => \E h \in Client : \E q \in sh[h].wait :
           /\ q.c = c /\ q.n = n
           /\ \/ q.op = "unlink" /\ IsLink(dir[c].names[n])
              \/ /\ q.op = "rename" /\ sh[h].source # -1 /\ c # sh[h].source
                 /\ dir[sh[h].source].names[n] = None
                 /\ \/ "step" \in spoilt
                    \/ dir[c].e[sh[h].source] \in {0, NoXattr}
                    \/ dir[c].e[c] \notin {0, NoXattr}

(* A copy that impunge has made is empty. Some other copy of the file accuses it,
   or the request to do so is on its way, so that the next lookup fills it
   (afr_sh_entry_impunge_newfile_cbk). The exceptions are that this very request
   failed, or that the client died before it: whatever else fails, the others are
   accused. *)
NewCopyAccused ==
  \A m \in made \ orphan :
    (\E d \in Child : <<d, m[2]>> \notin made /\ dir[d].names[m[2]] # None) =>
      \/ \E d \in Child \ {m[1]} : m[1] \in dir[d].acc[m[2]]
      \/ \E h \in Client : \E q \in sh[h].wait :
           q.op = "accuse" /\ q.n = m[2] /\ q.val = m[1]

(* A merge, for want of a source or forced by opendir, and a heal from a source
   that went through without a fault, leave every child with the same entries. *)
EntryHealHeals ==
  (/\ nfaults = 0 /\ nops = 0 /\ spoilt = {}
   /\ \A h \in Client : sh[h].at \in {"idle", "done"}
   /\ \E h \in Client : sh[h].success = Child /\ ~sh[h].failed)
  => \A c, d \in Child : Alike(dir[c].names, dir[d].names)

(* The caller is answered once, not before the heal is over; until then a request
   is on its way. *)
AnsweredOnce ==
  \A h \in Client :
    /\ sh[h].at = "done" => sh[h].answers = 1
    /\ sh[h].at \notin {"idle", "done"} => sh[h].answers = 0 /\ sh[h].wait # {}

(* A heal that is over holds no entry lock, also when it got only some. *)
NoEntryLockLeft ==
  \A h \in Client : sh[h].at \in {"idle", "done"} => \A c \in Child : dir[c].elk # h

=============================================================================
