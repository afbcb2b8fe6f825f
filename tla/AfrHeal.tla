------------------------------- MODULE AfrHeal -------------------------------
(* The self-heal of cluster/afr that a lookup starts: afr_lookup (afr.c) finds
   the copies of a file differing, afr_self_heal (afr-self-heal-common.c) makes
   the missing ones, then heals the metadata (afr-self-heal-metadata.c) and the
   data (afr-self-heal-data.c, with the two algorithms that copy the blocks,
   afr-self-heal-algorithm.c).

   Every Healer is the lookup of another client. A request is executed by its
   child when the answer is taken (Answer), so a child works through the
   requests of several healers in any order. A callback is one step: the client
   takes the answers of its children in one thread.

   A block is one value, 0 the value of a hole. Permissions and ownership are
   one number, the uid. *)
EXTENDS Integers, Sequences, FiniteSets, SequencesExt

CONSTANTS
  Healer,          \* clients that look the file up
  ChildCount, NoXattr, FavoriteChild,
  Algo,            \* option data-self-heal-algorithm, "" when not set
  Window,          \* option data-self-heal-window-size
  LockServers,     \* option data-lock-server-count
  Latests, Stales, \* contents of a copy that is up to date and of one that is not
  Histories,       \* how the copies came to differ, see Init
  CallerUid,       \* the uid of the caller whose lookup makes a copy
  MaxHeals, MaxWrites, MaxHealFaults

S == INSTANCE AfrSources

Child == 0 .. ChildCount - 1

ENOENT   == 2
EIO      == 5
ENOTCONN == 107

None    == "none"
NoRow   == [j \in Child |-> NoXattr]
ZeroRow == [j \in Child |-> 0]
ZeroBuf == [type |-> None, size |-> 0, md |-> 0, holes |-> FALSE]

VARIABLES
  copy,     \* what a child has of the file, with its locks and open descriptors
  up,       \* the children that are up
  heal,     \* frame->local of the lookup of each healer
  split,    \* the inode contexts with AFR_ICTX_SPLIT_BRAIN_MASK
  latest,   \* the contents of the last write that was acknowledged
  owning,   \* the setattr calls that give new copies their owner
  made,     \* history: the copies a heal has made
  misowned, \* history: a heal took the owner of a copy that had not got its own yet
  unlisted, \* history: sinks that are filled, or were to be, without an accusation
  mixed,    \* history: copies a write changed that were not filled and not accused
  spoilt,   \* history: something the code makes nothing of, see Ignored and Down
  nheals, nwrites, nfaults

pastVars == <<made, misowned, unlisted, mixed>>
healVars == <<copy, up, heal, split, latest, owning, pastVars, spoilt, nheals, nwrites,
              nfaults>>

Known == latest # <<-1>>

-----------------------------------------------------------------------------
(* frames and requests *)

Frame == [at |-> "idle", wait |-> {}, lack |-> FALSE, answers |-> 0,
          cup |-> {}, errno |-> [c \in Child |-> 0],
          buf |-> [c \in Child |-> ZeroBuf],
          x |-> [c \in Child |-> [d |-> NoRow, m |-> NoRow]], dicts |-> {},
          busy |-> FALSE, need |-> {}, type |-> None,
          locked |-> {}, nlock |-> 0, failed |-> FALSE, gov |-> FALSE,
          source |-> 0, sources |-> {}, success |-> {}, nsinks |-> 0,
          fd |-> FALSE, run |-> {}, off |-> 0,
          bg |-> FALSE, unwound |-> FALSE, healing |-> FALSE]

Rq(c, op, off, val) == [c |-> c, op |-> op, off |-> off, val |-> val, sinks |-> {}]
To(C, op, val) == {Rq(c, op, 0, val) : c \in C}

Wind(r, at, reqs) == [r EXCEPT !.at = at, !.wait = reqs]

Sinks(r) == r.cup \ r.sources
Size(r) == [c \in Child |-> r.buf[c].size]
FirstOf(n, C) == {c \in C : Cardinality({d \in C : d < c}) < n}

Unwind(r) == [r EXCEPT !.answers = @ + 1]

afr_self_heal_completion_cbk(r) ==
  LET u == IF r.unwound THEN r ELSE Unwind(r)
  IN [u EXCEPT !.at = "done", !.wait = {}]

afr_sh_pending_to_delta(r, kind) ==
  [i \in Child |-> [j \in Child |->
     IF j \in r.success THEN -S!pending(r.x[i][kind], j) ELSE 0]]

(* r.dicts: the children whose attributes were read, sh->xattr. *)
Erase(r, kind, op) ==
  LET delta == afr_sh_pending_to_delta(r, kind)
  IN {Rq(i, op, 0, delta[i]) : i \in r.dicts}

-----------------------------------------------------------------------------
(* data *)

afr_sh_data_done(r) ==
  afr_self_heal_completion_cbk([r EXCEPT !.fd = FALSE, !.locked = {}])

(* call_count is (active_sinks + 1) * 2 whatever is wound below it. *)
afr_sh_data_close(r) ==
  LET others == FirstOf(r.nsinks, Sinks(r))
  IN IF ~r.fd THEN afr_sh_data_done(r)
     ELSE [Wind(r, "d_close",
                To({r.source}, "flush", 0) \cup To({r.source}, "utimes", 0)
                  \cup To(others, "flush", 1) \cup To(others, "utimes", 1))
             EXCEPT !.lack = Cardinality(others) < r.nsinks]

afr_sh_data_flush_cbk(r) ==
  IF r.wait = {} /\ ~r.lack THEN afr_sh_data_done(r) ELSE r

afr_sh_data_unlock(r) ==
  IF r.locked = {} THEN afr_sh_data_close(r)
  ELSE Wind(r, "d_unlck", To(r.locked, "uninodelk", 0))

afr_sh_data_unlck_cbk(r) == IF r.wait = {} THEN afr_sh_data_close(r) ELSE r

afr_sh_data_finish(r) == afr_sh_data_unlock(r)

afr_sh_data_erase_pending(r) ==
  [Wind(r, "d_erase", Erase(r, "d", "fxattrop")) EXCEPT !.lack = r.dicts = {}]

afr_sh_data_erase_pending_cbk(r) == IF r.wait = {} THEN afr_sh_data_finish(r) ELSE r

afr_sh_data_trim_sinks(r) ==
  Wind(r, "d_trim", To(Sinks(r), "ftruncate", r.buf[r.source].size))

afr_sh_data_trim_cbk(r) == IF r.wait = {} THEN afr_sh_data_erase_pending(r) ELSE r

-----------------------------------------------------------------------------
(* the algorithms; r.run are the blocks whose loop runs, r.off the next one *)

Spawn(r, first) ==
  LET n == Cardinality(r.run)
      offs == {o \in r.off .. r.buf[r.source].size - 1 : o < r.off + Window - n}
  IN [r EXCEPT !.run  = @ \cup offs,
               !.off  = @ + Cardinality(offs),
               !.wait = @ \cup UNION {first[o] : o \in offs}]

LoopDriver(r, first) ==
  IF r.failed THEN IF r.run = {} THEN afr_sh_data_finish(r) ELSE r
  ELSE IF r.off >= r.buf[r.source].size
  THEN IF r.run = {} THEN afr_sh_data_trim_sinks(r) ELSE r
  ELSE Spawn(r, first)

sh_full_read_write(r) ==
  [o \in 0 .. r.buf[r.source].size - 1 |-> {Rq(r.source, "readv", o, 0)}]

sh_full_loop_driver(r) == LoopDriver(r, sh_full_read_write(r))

sh_full_loop_return(r, o) == sh_full_loop_driver([r EXCEPT !.run = @ \ {o}])

WritesOf(r, o) == {q \in r.wait : q.op = "writev" /\ q.off = o}

(* Variant: a write that fails is not noticed. *)
full_write_ignored(r, q, ok) ==
  IF WritesOf(r, q.off) = {} THEN sh_full_loop_return(r, q.off) ELSE r

sh_full_write_cbk(r, q, ok) ==
  LET f == [r EXCEPT !.failed = @ \/ ~ok]
  IN IF WritesOf(r, q.off) = {} THEN sh_full_loop_return(f, q.off) ELSE f

(* A block of zeroes is not written when the source has holes. *)
sh_full_read_cbk(r, q, ok, val) ==
  IF ~ok THEN sh_full_loop_return([r EXCEPT !.failed = TRUE], q.off)
  ELSE IF r.buf[r.source].holes /\ val = 0 THEN sh_full_loop_return(r, q.off)
  ELSE [r EXCEPT !.wait = @ \cup {Rq(c, "writev", q.off, val) : c \in Sinks(r)}]

afr_sh_algo_full(r) == sh_full_loop_driver([Wind(r, "d_full", {}) EXCEPT !.run = {}, !.off = 0])

sh_diff_checksum(r) ==
  [o \in 0 .. r.buf[r.source].size - 1 |->
     {Rq(c, "rchecksum", o, 0) : c \in {r.source} \cup Sinks(r)}]

sh_diff_loop_driver(r) == LoopDriver(r, sh_diff_checksum(r))

(* The loop of block o keeps its sums among the requests: an answered checksum
   is the request "sum" until the loop has all of them. *)
LoopOf(r, o) == {q \in r.wait : q.off = o}

sh_diff_loop_return(r, o) ==
  sh_diff_loop_driver([r EXCEPT !.run = @ \ {o}, !.wait = @ \ LoopOf(r, o)])

sh_diff_write_cbk(r, q, ok) ==
  LET f == [r EXCEPT !.failed = @ \/ ~ok]
  IN IF WritesOf(r, q.off) = {} THEN sh_diff_loop_return(f, q.off) ELSE f

(* A read that fails ends the loop like one that found nothing to write. *)
sh_diff_read_cbk(r, q, ok, val) ==
  IF ~ok \/ (r.buf[r.source].holes /\ val = 0) THEN sh_diff_loop_return(r, q.off)
  ELSE [r EXCEPT !.wait = @ \cup {Rq(c, "writev", q.off, val) : c \in q.sinks}]

sh_diff_read(r, o, needed) ==
  [r EXCEPT !.wait = (@ \ LoopOf(r, o)) \cup {[Rq(r.source, "readv", o, 0) EXCEPT !.sinks = needed]}]

sh_diff_checksum_cbk(r, q, ok, val) ==
  LET f == IF ok THEN [r EXCEPT !.wait = @ \cup {Rq(q.c, "sum", q.off, val)}]
           ELSE [r EXCEPT !.failed = TRUE, !.wait = @ \cup {Rq(q.c, "sum", q.off, 0)}]
      sum == [c \in Child |-> LET s == {p \in f.wait : p.op = "sum" /\ p.off = q.off /\ p.c = c}
                              IN IF s = {} THEN 0 ELSE (CHOOSE p \in s : TRUE).val]
      needed == {c \in Sinks(r) : sum[c] # sum[r.source]}
  IN IF \E p \in r.wait : p.op = "rchecksum" /\ p.off = q.off THEN f
     ELSE IF needed # {} /\ ~f.failed THEN sh_diff_read(f, q.off, needed)
     ELSE sh_diff_loop_return(f, q.off)

afr_sh_algo_diff(r) == sh_diff_loop_driver([Wind(r, "d_diff", {}) EXCEPT !.run = {}, !.off = 0])

sh_zero_byte_files_exist(r) == \E c \in Child : r.buf[c].size = 0

afr_sh_data_pick_algo(r) ==
  IF Algo # "" THEN Algo
  ELSE IF sh_zero_byte_files_exist(r) \/ r.buf[r.source].size <= Window THEN "full"
  ELSE "diff"

(* active_sinks keeps its old value when there are none now. *)
afr_sh_data_sync_prepare(r) ==
  LET p == [r EXCEPT !.success = @ \cup Sinks(r) \cup {r.source}]
  IN IF Sinks(r) = {} THEN afr_sh_data_finish(p)
     ELSE LET q == [p EXCEPT !.nsinks = Cardinality(Sinks(r))]
          IN IF afr_sh_data_pick_algo(q) = "full" THEN afr_sh_algo_full(q)
             ELSE afr_sh_algo_diff(q)

Errored(r) == {c \in Child : r.errno[c] # 0}
afr_sh_supress_errenous_children(r, C) == C \ Errored(r)

afr_sh_data_fix(r) ==
  LET M == S!afr_sh_build_pending_matrix([i \in Child |-> r.x[i].d])
      marked == S!afr_sh_mark_sources(M, Size(r))
      favored == marked.nsources = S!SplitBrain /\ FavoriteChild # -1
                   /\ FavoriteChild \notin Errored(r)
      C == IF favored THEN {FavoriteChild}
           ELSE afr_sh_supress_errenous_children(r, marked.sources)
      s == IF C = {} THEN -1 ELSE S!Lowest(C)
      f == [r EXCEPT !.source = s,
                     !.sources = {c \in C : c \in Errored(r) \/ r.buf[c].size = r.buf[s].size}]
  IN IF marked.nsources = 0 THEN afr_sh_data_finish([r EXCEPT !.sources = {}])
     ELSE IF marked.nsources = S!SplitBrain /\ ~favored
     THEN afr_sh_data_finish([r EXCEPT !.sources = {}, !.gov = TRUE])
     ELSE IF s = -1 THEN afr_sh_data_finish([r EXCEPT !.sources = {}])
     ELSE afr_sh_data_sync_prepare(
            IF r.bg THEN [Unwind(f) EXCEPT !.unwound = TRUE] ELSE f)

afr_sh_data_fstat_cbk(r, q, ok, buf) ==
  LET f == IF ok THEN [r EXCEPT !.buf[q.c] = buf] ELSE r
  IN IF r.wait = {} THEN afr_sh_data_fix(f) ELSE f

afr_sh_data_fstat(r) == Wind(r, "d_fstat", To(r.cup, "fstat", 0))

afr_sh_data_fxattrop_cbk(r, q, ok, row) ==
  LET f == IF ok THEN [r EXCEPT !.x[q.c].d = row, !.dicts = @ \cup {q.c}] ELSE r
  IN IF r.wait = {} THEN afr_sh_data_fstat(f) ELSE f

afr_sh_data_fxattrop(r) == Wind(r, "d_fxattrop", To(r.cup, "fxattrop", ZeroRow))

(* child_index runs over the children that are up, the request goes to child 0
   every time. *)
afr_sh_data_lock_rec(r, child_index) ==
  LET C == {c \in r.cup : c >= child_index}
  IN IF C = {} /\ r.nlock = 0 THEN afr_sh_data_done(r)
     ELSE IF C = {} \/ r.nlock = LockServers THEN afr_sh_data_fxattrop(r)
     ELSE Wind(r, "d_lock", {Rq(0, "inodelkw", 0, S!Lowest(C))})

afr_sh_data_lock_cbk(r, q, ok) ==
  afr_sh_data_lock_rec(
    IF ok THEN [r EXCEPT !.locked = @ \cup {q.val}, !.nlock = @ + 1]
    ELSE [r EXCEPT !.locked = @ \ {q.val}], q.val + 1)

afr_sh_data_lock(r) == afr_sh_data_lock_rec([r EXCEPT !.locked = {}], 0)

afr_sh_data_open_cbk(r, q, ok) ==
  LET f == [r EXCEPT !.failed = @ \/ ~ok]
  IN IF r.wait # {} THEN f
     ELSE IF f.failed THEN afr_sh_data_finish(f) ELSE afr_sh_data_lock(f)

afr_sh_data_open(r) == Wind([r EXCEPT !.fd = TRUE], "d_open", To(r.cup, "open", 0))

afr_self_heal_data(r) ==
  IF "d" \in r.need THEN afr_sh_data_open(r) ELSE afr_sh_data_done(r)

-----------------------------------------------------------------------------
(* metadata *)

(* locked_nodes is set for every child here, not cleared. *)
afr_sh_metadata_done(r) ==
  LET f == [r EXCEPT !.buf = [c \in Child |-> ZeroBuf], !.success = {}, !.locked = Child,
                     !.x = [c \in Child |-> [d |-> NoRow, m |-> NoRow]], !.dicts = {}]
  IN IF r.gov THEN afr_self_heal_completion_cbk(f)
     ELSE IF r.type = "reg" THEN afr_self_heal_data(f)
     ELSE afr_self_heal_completion_cbk(f)

afr_sh_metadata_finish(r) ==
  IF r.locked = {} THEN afr_sh_metadata_done(r)
  ELSE Wind(r, "m_unlck", To(r.locked, "uninodelk", 0))

afr_sh_metadata_unlck_cbk(r) == IF r.wait = {} THEN afr_sh_metadata_done(r) ELSE r

afr_sh_metadata_erase_pending(r) ==
  IF r.dicts = {} THEN afr_sh_metadata_finish(r)
  ELSE Wind(r, "m_erase", Erase(r, "m", "xattrop"))

afr_sh_metadata_erase_pending_cbk(r) ==
  IF r.wait = {} THEN afr_sh_metadata_finish(r) ELSE r

afr_sh_metadata_sync_cbk(r, q, ok) ==
  LET f == IF ok THEN r ELSE [r EXCEPT !.success = @ \ {q.c}]
  IN IF r.wait = {} THEN afr_sh_metadata_erase_pending(f) ELSE f

afr_sh_metadata_sync(r, xattr) ==
  Wind(r, "m_sync",
       To(Sinks(r), "setattr", r.buf[r.source].md)
         \cup (IF xattr THEN To(Sinks(r), "setxattr", 0) ELSE {}))

afr_sh_metadata_getxattr_cbk(r, ok) == afr_sh_metadata_sync(r, ok)

afr_sh_metadata_sync_prepare(r) ==
  LET p == [r EXCEPT !.success = @ \cup Sinks(r) \cup {r.source}]
  IN IF Sinks(r) = {} THEN afr_sh_metadata_finish(p)
     ELSE Wind([p EXCEPT !.nsinks = Cardinality(Sinks(r))], "m_getxattr",
               To({r.source}, "getxattr", 0))

(* A child that is down has the uid 0 of the zeroed buffer. *)
afr_sh_mark_lowest_uid_as_source(r) ==
  {S!Lowest({c \in Child : \A d \in Child : r.buf[c].md <= r.buf[d].md})}

(* afr_sh_mark_sources for AFR_SELF_HEAL_METADATA: sizes do not accuse. *)
MarkMetadata(M, r) ==
  LET W == S!wise(M) IN
  CASE S!innocent(M) = Child -> S!Marked(1, afr_sh_mark_lowest_uid_as_source(r))
    [] S!innocent(M) # Child /\ W # {} ->
         IF S!wisest(M, W) = {} THEN S!Marked(S!SplitBrain, {})
         ELSE S!Marked(Cardinality(S!wisest(M, W)), S!wisest(M, W))
    [] S!innocent(M) # Child /\ W = {} ->
         S!Marked(1, {S!biggest(S!fool(M), Size(r))})

afr_sh_metadata_fix(r) ==
  LET M == S!afr_sh_build_pending_matrix([i \in Child |-> r.x[i].m])
      marked == MarkMetadata(M, r)
      favored == marked.nsources = S!SplitBrain /\ FavoriteChild # -1
                   /\ FavoriteChild \notin Errored(r)
      C == IF favored THEN {FavoriteChild}
           ELSE afr_sh_supress_errenous_children(r, marked.sources)
      s == IF C = {} THEN -1 ELSE S!Lowest(C)
      f == [r EXCEPT !.source = s,
                     !.sources = {c \in C : c \in Errored(r) \/ r.buf[c].md = r.buf[s].md}]
  IN IF marked.nsources = S!SplitBrain /\ ~favored
     THEN afr_sh_metadata_finish([r EXCEPT !.sources = {}, !.gov = TRUE])
     ELSE IF s = -1 THEN afr_sh_metadata_finish([r EXCEPT !.sources = {}])
     ELSE afr_sh_metadata_sync_prepare(f)

afr_sh_metadata_lookup_cbk(r, q, ok, reply) ==
  LET f == IF ok THEN [r EXCEPT !.buf[q.c] = reply.buf, !.x[q.c] = reply.x,
                                    !.dicts = @ \cup {q.c}]
           ELSE [r EXCEPT !.errno[q.c] = reply]
  IN IF r.wait = {} THEN afr_sh_metadata_fix(f) ELSE f

afr_sh_metadata_lookup(r) == Wind(r, "m_lookup", To(r.cup, "lookup", 0))

LkCbk(r, q, ok) ==
  IF ok THEN [r EXCEPT !.locked = @ \cup {q.c}]
  ELSE [r EXCEPT !.locked = @ \ {q.c}, !.failed = TRUE]

afr_sh_metadata_lk_cbk(r, q, ok) ==
  LET f == LkCbk(r, q, ok)
  IN IF r.wait # {} THEN f
     ELSE IF f.failed THEN afr_sh_metadata_finish(f) ELSE afr_sh_metadata_lookup(f)

afr_sh_metadata_lock(r) == Wind(r, "m_lock", To(r.cup, "inodelk", 0))

afr_self_heal_metadata(r) ==
  IF "m" \in r.need THEN afr_sh_metadata_lock(r) ELSE afr_sh_metadata_done(r)

-----------------------------------------------------------------------------
(* missing entries *)

afr_sh_missing_entries_done(r) ==
  LET f == [r EXCEPT !.buf = [c \in Child |-> ZeroBuf], !.locked = {},
                     !.x = [c \in Child |-> [d |-> NoRow, m |-> NoRow]]]
  IN IF r.gov THEN afr_self_heal_completion_cbk(f) ELSE afr_self_heal_metadata(f)

sh_missing_entries_unlck_cbk(r) ==
  IF r.wait = {} THEN afr_sh_missing_entries_done(r) ELSE r

sh_missing_entries_finish(r) ==
  IF r.locked = {} THEN afr_sh_missing_entries_done(r)
  ELSE Wind(r, "e_unlck", To(r.locked, "unentrylk", 0))

(* A copy that was made is given the owner of the source, by a call in a frame of
   its own that nobody waits for. *)
NewOwner(h, r, q, ok) ==
  IF ok /\ r.at = "e_make" THEN {[h |-> h, c |-> q.c, md |-> r.buf[r.source].md]} ELSE {}

sh_missing_entries_newentry_cbk(r) ==
  IF r.wait = {} THEN sh_missing_entries_finish(r) ELSE r

MissingOn(r) == {c \in Child : r.errno[c] = ENOENT}

(* The copy belongs to the caller at first, see NewOwner. *)
sh_missing_entries_mknod(r) == Wind(r, "e_make", To(MissingOn(r), "mknod", CallerUid))

sh_missing_entries_symlink(r) == Wind(r, "e_make", To(MissingOn(r), "symlink", CallerUid))

sh_missing_entries_readlink_cbk(r, ok) ==
  IF ok THEN sh_missing_entries_symlink(r) ELSE sh_missing_entries_finish(r)

sh_missing_entries_readlink(r) == Wind(r, "e_readlink", To({r.source}, "readlink", 0))

sh_missing_entries_create(r) ==
  LET found == {c \in Child : r.errno[c] = 0 /\ r.buf[c].type # None}
      s == S!Lowest(found)
      f == [r EXCEPT !.source = s]
      conflict == \E c \in Child : r.errno[c] = 0 /\ c > s /\ r.buf[c].type # r.buf[s].type
  IN IF found = {} THEN sh_missing_entries_finish(r)
     ELSE IF conflict THEN sh_missing_entries_finish([f EXCEPT !.gov = TRUE])
     ELSE IF MissingOn(r) = {} THEN sh_missing_entries_finish(f)
     ELSE IF r.buf[s].type = "lnk" THEN sh_missing_entries_readlink(f)
     ELSE sh_missing_entries_mknod(f)

sh_missing_entries_lookup_cbk(r, q, ok, reply) ==
  LET f == IF ok THEN [r EXCEPT !.buf[q.c] = reply.buf]
           ELSE [r EXCEPT !.errno[q.c] = reply]
  IN IF r.wait = {} THEN sh_missing_entries_create(f) ELSE f

sh_missing_entries_lookup(r) == Wind(r, "e_lookup", To(r.cup, "lookup", 0))

sh_missing_entries_lk_cbk(r, q, ok) ==
  LET f == LkCbk(r, q, ok)
  IN IF r.wait # {} THEN f
     ELSE IF f.failed THEN sh_missing_entries_finish(f) ELSE sh_missing_entries_lookup(f)

afr_self_heal_missing_entries(r) == Wind(r, "e_lock", To(r.cup, "entrylk", 0))

-----------------------------------------------------------------------------
(* lookup *)

(* bg: whether background_self_heals_started still allows a background heal;
   the heals of other files count too. *)
afr_self_heal(r, bg) ==
  LET f == [r EXCEPT !.bg = bg, !.healing = TRUE, !.errno = [c \in Child |-> 0]]
  IN IF \E c \in Child : r.errno[c] = ENOENT THEN afr_self_heal_missing_entries(f)
     ELSE afr_sh_missing_entries_done(f)

(* afr_sh_has_data_pending, afr_sh_has_metadata_pending *)
has_pending(row) == row # NoRow /\ \E j \in Child : row[j] # 0

afr_lookup_collect_xattr(r, reply) ==
  [r EXCEPT !.need = @ \cup {k \in {"d", "m"} : has_pending(reply.x[k])},
            !.busy = @ \/ reply.busy]

afr_lookup_self_heal_check(r, C) ==
  [r EXCEPT !.need = @ \cup (IF \E c, d \in C : r.buf[c].md # r.buf[d].md THEN {"m"} ELSE {})
                       \cup (IF \E c, d \in C : r.buf[c].size # r.buf[d].size
                             THEN {"d"} ELSE {})]

afr_lookup_done(r, bg, wasSplit) ==
  LET found == {c \in r.cup : r.errno[c] = 0}
      checked == afr_lookup_self_heal_check(r, found)
      need == checked.need
                \cup (IF \E c \in r.cup : r.errno[c] = ENOENT THEN {"m", "d"} ELSE {})
                \cup (IF wasSplit THEN {"d"} ELSE {})
      f == [r EXCEPT !.need = need]
  IN IF found # {} /\ need # {} /\ ~r.busy
     THEN afr_self_heal([f EXCEPT !.type = r.buf[S!Lowest(found)].type], bg)
     ELSE [Unwind(f) EXCEPT !.at = "done"]

afr_fresh_lookup_cbk(r, q, ok, reply, bg, wasSplit) ==
  LET f == IF ok THEN afr_lookup_collect_xattr([r EXCEPT !.buf[q.c] = reply.buf], reply)
           ELSE [r EXCEPT !.errno[q.c] = reply]
  IN IF r.wait = {} THEN afr_lookup_done(f, bg, wasSplit) ELSE f

(* With no child up the lookup is answered ENOTCONN at once. *)
afr_lookup(h) ==
  /\ heal[h].at \in {"idle", "done"}
  /\ nheals < MaxHeals
  /\ nheals' = nheals + 1
  /\ heal' = [heal EXCEPT ![h] =
       IF up = {} THEN [Unwind(Frame) EXCEPT !.at = "done"]
       ELSE Wind([Frame EXCEPT !.cup = up], "lookup", To(up, "lookup", 0))]
  /\ UNCHANGED <<copy, up, split, latest, owning, pastVars, spoilt, nwrites, nfaults>>

-----------------------------------------------------------------------------
(* a child: storage/posix and features/locks as the heal uses them *)

StatOf(b) == IF b.type = None THEN ZeroBuf
             ELSE [type |-> b.type, size |-> Len(b.data), md |-> b.md,
                   holes |-> \E i \in DOMAIN b.data : b.data[i] = 0]

AddRow(row, delta) ==
  [j \in Child |-> (IF row[j] = NoXattr THEN 0 ELSE row[j]) + delta[j]]

Written(data, o, v) ==
  [i \in 1 .. (IF o + 1 > Len(data) THEN o + 1 ELSE Len(data)) |->
     IF i = o + 1 THEN v ELSE IF i \in DOMAIN data THEN data[i] ELSE 0]

Truncated(data, n) == [i \in 1 .. n |-> IF i \in DOMAIN data THEN data[i] ELSE 0]

BlockAt(data, o) == IF o + 1 \in DOMAIN data THEN data[o + 1] ELSE -1

Free(holder, h) == holder \in {None, h}

(* What request q of h does to copy b; ok and the value it answers. *)
Did(b, ok, val) == [b |-> b, ok |-> ok, val |-> val]
Exec(h, b, q) ==
  LET there == b.type # None
      refused == Did(b, FALSE, IF there THEN EIO ELSE ENOENT) IN
  CASE q.op = "lookup" ->
         IF there THEN Did(b, TRUE, [buf |-> StatOf(b), x |-> [d |-> b.d, m |-> b.m],
                                     busy |-> b.fds # {} \/ b.ilk # None \/ b.elk # None])
         ELSE refused
    [] q.op = "entrylk" -> IF Free(b.elk, h) THEN Did([b EXCEPT !.elk = h], TRUE, 0) ELSE refused
    [] q.op = "unentrylk" -> Did([b EXCEPT !.elk = IF @ = h THEN None ELSE @], TRUE, 0)
    [] q.op \in {"inodelk", "inodelkw"} ->
         IF Free(b.ilk, h) /\ there THEN Did([b EXCEPT !.ilk = h], TRUE, 0) ELSE refused
    [] q.op = "uninodelk" -> Did([b EXCEPT !.ilk = IF @ = h THEN None ELSE @], TRUE, 0)
    [] q.op \in {"mknod", "symlink"} ->
         IF there THEN refused
         ELSE Did([b EXCEPT !.type = IF q.op = "mknod" THEN "reg" ELSE "lnk", !.data = <<>>,
                            !.md = q.val, !.d = NoRow, !.m = NoRow], TRUE, 0)
    [] q.op = "setattr" -> IF there THEN Did([b EXCEPT !.md = q.val], TRUE, 0) ELSE refused
    [] q.op = "xattrop" ->
         IF there THEN Did([b EXCEPT !.m = AddRow(@, q.val)], TRUE, 0) ELSE refused
    [] q.op = "fxattrop" ->
         IF there THEN Did([b EXCEPT !.d = AddRow(@, q.val)], TRUE, AddRow(b.d, q.val))
         ELSE refused
    [] q.op = "open" -> IF there THEN Did([b EXCEPT !.fds = @ \cup {h}], TRUE, 0) ELSE refused
    [] q.op = "fstat" -> IF there THEN Did(b, TRUE, StatOf(b)) ELSE refused
    [] q.op \in {"readv", "rchecksum"} ->
         Did(b, q.op = "rchecksum" \/ BlockAt(b.data, q.off) # -1, BlockAt(b.data, q.off))
    [] q.op = "writev" -> Did([b EXCEPT !.data = Written(@, q.off, q.val)], TRUE, 0)
    [] q.op = "ftruncate" -> Did([b EXCEPT !.data = Truncated(@, q.val)], TRUE, 0)
    [] q.op \in {"readlink", "getxattr", "setxattr", "flush", "utimes"} ->
         IF there THEN Did(b, TRUE, 0) ELSE refused

Callback(r, q, ok, val, bg, wasSplit) ==
  CASE r.at = "lookup"     -> afr_fresh_lookup_cbk(r, q, ok, val, bg, wasSplit)
    [] r.at = "e_lock"     -> sh_missing_entries_lk_cbk(r, q, ok)
    [] r.at = "e_lookup"   -> sh_missing_entries_lookup_cbk(r, q, ok, val)
    [] r.at = "e_readlink" -> sh_missing_entries_readlink_cbk(r, ok)
    [] r.at = "e_make"     -> sh_missing_entries_newentry_cbk(r)
    [] r.at = "e_unlck"    -> sh_missing_entries_unlck_cbk(r)
    [] r.at = "m_lock"     -> afr_sh_metadata_lk_cbk(r, q, ok)
    [] r.at = "m_lookup"   -> afr_sh_metadata_lookup_cbk(r, q, ok, val)
    [] r.at = "m_getxattr" -> afr_sh_metadata_getxattr_cbk(r, ok)
    [] r.at = "m_sync"     -> afr_sh_metadata_sync_cbk(r, q, ok)
    [] r.at = "m_erase"    -> afr_sh_metadata_erase_pending_cbk(r)
    [] r.at = "m_unlck"    -> afr_sh_metadata_unlck_cbk(r)
    [] r.at = "d_open"     -> afr_sh_data_open_cbk(r, q, ok)
    [] r.at = "d_lock"     -> afr_sh_data_lock_cbk(r, q, ok)
    [] r.at = "d_fxattrop" -> afr_sh_data_fxattrop_cbk(r, q, ok, val)
    [] r.at = "d_fstat"    -> afr_sh_data_fstat_cbk(r, q, ok, val)
    [] r.at = "d_full" /\ q.op = "readv"   -> sh_full_read_cbk(r, q, ok, val)
    [] r.at = "d_full" /\ q.op = "writev"  -> sh_full_write_cbk(r, q, ok)
    [] r.at = "d_diff" /\ q.op = "rchecksum" -> sh_diff_checksum_cbk(r, q, ok, val)
    [] r.at = "d_diff" /\ q.op = "readv"   -> sh_diff_read_cbk(r, q, ok, val)
    [] r.at = "d_diff" /\ q.op = "writev"  -> sh_diff_write_cbk(r, q, ok)
    [] r.at = "d_trim"     -> afr_sh_data_trim_cbk(r)
    [] r.at = "d_erase"    -> afr_sh_data_erase_pending_cbk(r)
    [] r.at = "d_unlck"    -> afr_sh_data_unlck_cbk(r)
    [] r.at = "d_close"    -> afr_sh_data_flush_cbk(r)

(* What the code makes nothing of: a child that does not say whom it accuses or
   how big its copy is, a sink that could not be cut to the size of the source, a
   block the diff algorithm could not read, a lock granted by child 0 and booked
   for another child. *)
Ignored(r, q, ok) ==
  \/ ~ok /\ r.at \in {"d_fxattrop", "d_fstat", "d_trim"}
  \/ ~ok /\ r.at = "d_diff" /\ q.op = "readv"
  \/ ok /\ q.op = "inodelkw" /\ q.val # 0

Accusers(kind, c) ==
  {i \in Child : copy[i].type # None /\ copy[i][kind][c] \notin {0, NoXattr}}

(* The heal of the metadata takes for its source a copy that was made and had not
   got its owner when it was looked up. *)
Unowned(r, f) ==
  /\ r.at = "m_lookup" /\ f.at = "m_getxattr"
  /\ f.source \in made /\ f.buf[f.source].md = CallerUid

(* The frame a finished heal leaves behind, without what no longer matters. *)
Ended(r) ==
  [Frame EXCEPT !.at = "done", !.answers = r.answers, !.cup = r.cup, !.failed = r.failed,
                !.gov = r.gov, !.healing = r.healing, !.need = r.need]

Settled(called) == IF called.at = "done" THEN Ended(called) ELSE called

(* Child q.c answers request q. fault: it fails the request. *)
Answer(h, q, fault, bg) ==
  LET r == heal[h]
      did == Exec(h, copy[q.c], q)
      done == q.c \in up /\ ~fault
      ok == done /\ did.ok
      val == IF ~(q.c \in up) THEN ENOTCONN ELSE IF fault THEN EIO ELSE did.val
      exec == IF done THEN [copy EXCEPT ![q.c] = did.b] ELSE copy
  IN /\ q.op # "sum"
     /\ q.op = "inodelkw" /\ done => Free(copy[q.c].ilk, h)
     /\ q.c \notin up => ~fault
     /\ fault => nfaults < MaxHealFaults /\ q.op \notin {"uninodelk", "unentrylk"}
     /\ \E f \in {Settled(Callback([r EXCEPT !.wait = @ \ {q}], q, ok, val, bg, h \in split))} :
          /\ bg => r.at = "lookup" /\ f.at # "lookup" /\ f.healing
          /\ heal' = [heal EXCEPT ![h] = f]
          /\ copy' = IF r.fd /\ ~f.fd THEN [c \in Child |-> [exec[c] EXCEPT !.fds = @ \ {h}]]
                      ELSE exec
          /\ split' = IF f.at = "done" /\ f.gov THEN split \cup {h} ELSE split
          /\ made' = made \cup {w.c : w \in NewOwner(h, r, q, ok)}
          /\ misowned' = (misowned \/ Unowned(r, f))
          /\ unlisted' = IF r.at = "d_fstat" /\ f.at \in {"d_full", "d_diff"}
                         THEN unlisted \cup {c \in Sinks(f) : Accusers("d", c) = {}}
                         ELSE IF r.at # "d_erase" /\ f.at = "d_erase" THEN unlisted \ Sinks(f)
                         ELSE unlisted
          /\ mixed' = IF r.at # "d_erase" /\ f.at = "d_erase" THEN mixed \ Sinks(f) ELSE mixed
     /\ owning' = owning \cup NewOwner(h, r, q, ok)
     /\ spoilt' = (spoilt \/ Ignored(r, q, ok))
     /\ nfaults' = IF fault THEN nfaults + 1 ELSE nfaults
     /\ UNCHANGED <<up, latest, nheals, nwrites>>

(* ... carried out or not: a failure is only logged. *)
sh_destroy_cbk(w, fault) ==
  /\ w \in owning /\ owning' = owning \ {w}
  /\ fault => w.c \in up /\ nfaults < MaxHealFaults
  /\ nfaults' = IF fault THEN nfaults + 1 ELSE nfaults
  /\ copy' = IF w.c \in up /\ ~fault THEN [copy EXCEPT ![w.c].md = w.md] ELSE copy
  /\ UNCHANGED <<up, heal, split, latest, pastVars, spoilt, nheals, nwrites>>

Holds(h, c) == copy[c].ilk = h \/ copy[c].elk = h \/ h \in copy[c].fds

Without(b, H) ==
  [b EXCEPT !.ilk = IF @ \in H THEN None ELSE @, !.elk = IF @ \in H THEN None ELSE @,
            !.fds = @ \ H]

(* A child goes down and with it the locks and descriptors it has given out. The
   code does not notice that a lock it relies on is gone. *)
Down(c) ==
  /\ c \in up /\ nfaults < MaxHealFaults
  /\ up' = up \ {c}
  /\ copy' = [copy EXCEPT ![c] = Without(@, Healer)]
  /\ spoilt' = (spoilt \/ copy[c].ilk # None \/ copy[c].elk # None)
  /\ nfaults' = nfaults + 1
  /\ UNCHANGED <<heal, split, latest, owning, pastVars, nheals, nwrites>>

Up(c) ==
  /\ c \notin up
  /\ up' = up \cup {c}
  /\ UNCHANGED <<copy, heal, split, latest, owning, pastVars, spoilt, nheals, nwrites,
                 nfaults>>

(* A client dies in the middle of its heal. *)
Die(h) ==
  /\ heal[h].at \notin {"idle", "done"} \/ \E w \in owning : w.h = h
  /\ nfaults < MaxHealFaults
  /\ heal' = [heal EXCEPT ![h] = Frame]
  /\ copy' = [c \in Child |-> Without(copy[c], {h})]
  /\ split' = split \ {h}
  /\ owning' = {w \in owning : w.h # h}
  /\ nfaults' = nfaults + 1
  /\ UNCHANGED <<up, latest, pastVars, spoilt, nheals, nwrites>>

(* A write transaction of AfrTransaction, as one step: locked on the first child
   that is up, done by the children that have the file, the others accused. *)
Write(o) ==
  LET W == {c \in up : copy[c].type = "reg"}
      v == 10 + nwrites
      row(c) == [j \in Child |-> IF j \in W THEN 0 ELSE 1]
  IN /\ Known /\ nwrites < MaxWrites
     /\ up # {} /\ copy[S!Lowest(up)].ilk = None
     /\ \E c \in W : copy[c].data = latest /\ Accusers("d", c) = {}
     /\ o <= Len(latest)
     /\ nwrites' = nwrites + 1
     /\ latest' = Written(latest, o, v)
     /\ copy' = [c \in Child |->
          IF c \in W THEN [copy[c] EXCEPT !.data = Written(@, o, v), !.d = AddRow(@, row(c))]
          ELSE copy[c]]
     /\ mixed' = mixed \cup {c \in W : copy[c].data # latest /\ Accusers("d", c) = {}}
     /\ UNCHANGED <<up, heal, split, owning, made, misowned, unlisted, spoilt, nheals, nfaults>>

-----------------------------------------------------------------------------
(* Init: one copy set for every history. "stale": the children of A have seen a
   write and an owner change the others missed. "missing": the others have not
   got the file. "fools": a client died before its post-op, every copy accuses
   all. "split": two sides wrote while apart. "loose": sizes and owners differ and
   nobody accuses anybody. *)

Copy(type, data, md, d, m) ==
  [type |-> type, data |-> data, md |-> md, d |-> d, m |-> m,
   ilk |-> None, elk |-> None, fds |-> {}]

Accuse(C) == [j \in Child |-> IF j \in C THEN 1 ELSE 0]

(* A hole of the source is a hole of the sink: the code does not write it. *)
HoleSafe(new, old) == \A i \in DOMAIN new \cap DOMAIN old : new[i] = 0 => old[i] = 0

Start(hist, A, new, old, c) ==
  CASE hist = "stale" ->
         IF c \in A THEN Copy("reg", new, 2, Accuse(Child \ A), Accuse(Child \ A))
         ELSE Copy("reg", old, 1, NoRow, NoRow)
    [] hist \in {"missing", "lnk"} ->
         IF c \in A THEN Copy(IF hist = "lnk" THEN "lnk" ELSE "reg",
                              IF hist = "lnk" THEN <<>> ELSE new, 2, NoRow, NoRow)
         ELSE Copy(None, <<>>, 0, NoRow, NoRow)
    [] hist = "fools" -> Copy("reg", IF c \in A THEN new ELSE old, 2, Accuse(Child), ZeroRow)
    [] hist = "split" ->
         Copy("reg", IF c \in A THEN new ELSE old, 2,
              Accuse(IF c \in A THEN Child \ A ELSE A), ZeroRow)
    [] hist = "loose" ->
         IF c \in A THEN Copy("reg", new, 2, NoRow, NoRow) ELSE Copy("reg", old, 1, NoRow, NoRow)

Init ==
  /\ \E hist \in Histories, A \in (SUBSET Child) \ {{}, Child}, new \in Latests, old \in Stales :
       /\ HoleSafe(new, old) /\ HoleSafe(old, new)
       /\ hist = "loose" => Len(new) > Len(old)
       /\ copy = [c \in Child |-> Start(hist, A, new, old, c)]
       /\ latest = IF hist \in {"stale", "missing"} THEN new ELSE <<-1>>
  /\ up = Child
  /\ heal = [h \in Healer |-> Frame]
  /\ split = {} /\ owning = {} /\ spoilt = FALSE
  /\ made = {} /\ misowned = FALSE /\ unlisted = {} /\ mixed = {}
  /\ nheals = 0 /\ nwrites = 0 /\ nfaults = 0

HealAnswer ==
  \E h \in Healer : \E q \in heal[h].wait : \E fault, bg \in BOOLEAN : Answer(h, q, fault, bg)

Next ==
  \/ \E h \in Healer : afr_lookup(h) \/ Die(h)
  \/ HealAnswer
  \/ \E w \in owning, fault \in BOOLEAN : sh_destroy_cbk(w, fault)
  \/ \E c \in Child : Down(c) \/ Up(c)
  \/ \E o \in 0 .. 2 : Write(o)

Spec == Init /\ [][Next]_healVars

-----------------------------------------------------------------------------
(* The copies nobody accuses are the ones a client reads and the next heal takes
   as its source. Each of them that has the size of the file has the last
   acknowledged contents, and there is always one: a heal that dies, or whose
   writes fail half way, leaves its sinks accused (afr_sh_data_erase_pending,
   sh_full_write_cbk). Excepted are sinks that nobody accused to begin with, while
   they are filled and when that is cut short, and an empty copy a write was done
   on before it was filled. *)
TrustedIsLatest ==
  Known /\ ~spoilt =>
    LET trusted == {c \in Child : copy[c].type = "reg" /\ Accusers("d", c) = {}}
    IN /\ \E c \in trusted : copy[c].data = latest
       /\ \A c \in trusted \ (unlisted \cup mixed) :
            Len(copy[c].data) = Len(latest) => copy[c].data = latest

(* The same for the owner: but for the copies a heal has made and that were not
   given their owner, the ones nobody accuses have the right one
   (afr_sh_metadata_sync_cbk), unless a heal took it from such a copy. *)
TrustedIsOwned ==
  Known /\ ~spoilt /\ ~misowned =>
    LET trusted == {c \in Child : copy[c].type = "reg" /\ Accusers("m", c) = {}}
    IN /\ \E c \in trusted : copy[c].md = 2
       /\ \A c \in trusted : copy[c].md = 2 \/ (c \in made /\ copy[c].md = CallerUid)

(* No block is copied over a copy that knows of a write its source has missed:
   when both sides accuse each other nothing is written (afr_sh_data_fix),
   whatever other clients heal or write meanwhile. *)
NoSplitBrainLoss ==
  ~spoilt =>
    \A h \in Healer : \A q \in heal[h].wait :
      q.op \in {"writev", "ftruncate"} =>
        \/ heal[h].source = FavoriteChild
        \/ q.c \in Accusers("d", q.c)
        \/ q.c \notin Accusers("d", heal[h].source)

(* A lookup is answered exactly once, in the background or at the end
   (afr_self_heal_completion_cbk), and until then a request of it is on its way:
   no branch of the heal drops it. The exception are two places that count
   answers they never asked for, r.lack. *)
AnsweredOnce ==
  \A h \in Healer : LET r == heal[h] IN
    /\ r.at = "done" => r.answers = 1
    /\ r.at \notin {"idle", "done"} =>
         /\ r.answers <= 1
         /\ r.lack \/ \E q \in r.wait : q.op # "sum"

(* A lookup that is over has left no lock and no descriptor behind on any child,
   whichever of the three phases failed where. *)
NoLockLeft ==
  ~spoilt => \A h \in Healer : heal[h].at \in {"idle", "done"} =>
                \A c \in Child : ~Holds(h, c)

(* When nothing fails and nobody writes, a heal that went through leaves all
   children with the same file; but for the owner, when a heal took it from a copy
   that was given its own later. *)
HealHeals ==
  (/\ nfaults = 0 /\ nwrites = 0 /\ owning = {}
   /\ \A h \in Healer : heal[h].at \in {"idle", "done"}
   /\ \E h \in Healer : heal[h].at = "done" /\ heal[h].healing
                          /\ ~heal[h].failed /\ ~heal[h].gov)
  => \A c, d \in Child : /\ copy[c].type = copy[d].type /\ copy[c].data = copy[d].data
                          /\ (copy[c].md = copy[d].md \/ misowned)

=============================================================================
