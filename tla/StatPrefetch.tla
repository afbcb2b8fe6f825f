----------------------------- MODULE StatPrefetch -----------------------------
(***************************************************************************)
(* performance/stat-prefetch: the entries a process reads from a directory *)
(* are kept with the directory's descriptor, and answer that process's     *)
(* lookups.  An inode so found is unknown to the translators below, which  *)
(* must see a lookup before any other operation on it: the first such      *)
(* operation sends one and waits, with all that come meanwhile, in the     *)
(* inode's context.                                                        *)
(*                                                                         *)
(* One directory is modelled, the names in it are numbers, and a file is   *)
(* the stamp at which it was made; ver is the stamp of its last change.    *)
(* Each process has at most one call under way and one open file.          *)
(*                                                                         *)
(* resuming has the callbacks of lookups that have updated the context and *)
(* given up its lock, and still have stubs to resume.  spoilt names what   *)
(* can go wrong with a rename, once it has happened:                       *)
(*   "lookups"  it sent two lookups, and both callbacks look into the      *)
(*              context of the old name's inode                            *)
(*   "between"  its first stub was resumed in vain before the second was   *)
(*              queued, and the second lookup was answered by then         *)
(*   "twice"    both lookups were answered before either callback resumed  *)
(*              its stub                                                   *)
(***************************************************************************)
EXTENDS Integers, Sequences, FiniteSets, SequencesExt

CONSTANTS Proc, SpName, SpDirs, SpLinks,
          SpFops,   \* the table of SpFops.tla
          SpFop, Page, MaxSpCalls, MaxSpFails, MaxRemote,
          Reader    \* processes that have read the directory at the start

VARIABLES disk, ver, clock, known, ictx, heard, dfd, cache, ffd, op, resuming, mine,
          spoilt, ncalls, nfails, nremote

spVars == <<disk, ver, clock, known, ictx, heard, dfd, cache, ffd, op, resuming, mine,
            spoilt, ncalls, nfails, nremote>>

Stamp == 1 .. Cardinality(SpName) + MaxSpCalls + MaxRemote

Kind(fop) == IF fop \in DOMAIN SpFops THEN SpFops[fop].kind ELSE fop

-----------------------------------------------------------------------------
(***************************************************************************)
(* A step works on s, the contexts, the caches and the calls together.     *)
(***************************************************************************)
NoEnt   == [ino |-> 0, ver |-> 0]
NoCache == [on |-> FALSE, ents |-> [n \in SpName |-> NoEnt], expected_offset |-> 0]
NoCtx   == [on |-> FALSE, looked_up |-> FALSE, lookup_in_progress |-> FALSE, err |-> "ok",
            waiting_ops |-> <<>>]
NoFile  == [ino |-> 0, name |-> 0]

IdleOp == [st |-> "idle", fop |-> "none", n |-> 0, m |-> 0, i |-> 0, j |-> 0, off |-> 0,
           lino |-> -1, lname |-> 0, is_lookup |-> FALSE, out |-> {}, winds |-> 0,
           answers |-> 0, said |-> 0, sino |-> 0, sver |-> 0,
           between |-> "no", need |-> FALSE, can |-> FALSE]

State == [ictx |-> ictx, cache |-> cache, op |-> op, resuming |-> resuming, spoilt |-> spoilt]

Become(s) ==
  /\ ictx' = s.ictx /\ cache' = s.cache /\ op' = s.op
  /\ resuming' = s.resuming /\ spoilt' = s.spoilt

Request(what, n, i, nth) ==
  [what |-> what, n |-> n, i |-> i, nth |-> nth, st |-> "sent", ino |-> 0, ver |-> 0,
   ents |-> <<>>]

Send(s, p, r) == [s EXCEPT !.op[p].out = @ \cup {r}]

WindLookup(s, p, n, i) == Send(s, p, Request("lookup", n, i, 0))
WindFop(s, p) ==
  LET o == s.op[p] IN
  Send([s EXCEPT !.op[p].winds = @ + 1], p, Request("fop", o.n, o.i, o.winds))

\* SP_STACK_UNWIND.
Unwind(s, p, ret, ino, v) ==
  [s EXCEPT !.op[p] = [@ EXCEPT !.st = "done", !.answers = @ + 1, !.said = ret,
                                !.sino = ino, !.sver = v]]

sp_cache_remove_entry(c, names) ==
  [c EXCEPT !.ents = [n \in SpName |-> IF n \in names THEN NoEnt ELSE @[n]]]

\* rbthash_insert leaves an entry of that name as it is; directories are not kept.  An
\* empty answer sets the expected offset to 0.
sp_cache_add_entries(c, entries) ==
  LET kept   == SelectSeq(entries, LAMBDA e : e.n \notin SpDirs)
      new(n) == {e \in ToSet(kept) : e.n = n} IN
  [c EXCEPT !.on = TRUE,
            !.ents = [n \in SpName |-> IF @[n] # NoEnt \/ new(n) = {} THEN @[n]
                                       ELSE LET e == CHOOSE x \in new(n) : TRUE IN
                                            [ino |-> e.ino, ver |-> e.ver]],
            !.expected_offset = IF kept = <<>> THEN 0 ELSE Last(kept).n]

\* The directory itself (0) has been looked up.
CtxOf(s, i) == IF i = 0 THEN NoCtx ELSE s.ictx[i]

\* Mutant of sp_process_inode_ctx: a lookup that is still on its way is enough.
process_trusts(s, p, n, i) ==
  LET c      == CtxOf(s, i)
      need   == c.on /\ ~c.looked_up /\ ~c.lookup_in_progress
      can    == ~c.on \/ c.looked_up \/ c.lookup_in_progress
      queued == IF can THEN s ELSE [s EXCEPT !.ictx[i].waiting_ops = Append(@, p)]
      local  == IF need /\ s.op[p].lino = -1
                  THEN [queued EXCEPT !.op[p].lino = i, !.op[p].lname = n] ELSE queued IN
  [s |-> IF need THEN [local EXCEPT !.ictx[i].lookup_in_progress = TRUE] ELSE local,
   need_lookup |-> need, can_wind |-> can]

\* The operation p is about to wind on inode i, known as n: whether it must send a lookup
\* first, and whether it may go on at once.  Otherwise it waits in the context.  The first
\* caller's loc is what the callback of its lookup will see in frame->local.
sp_process_inode_ctx(s, p, n, i) ==
  LET c      == CtxOf(s, i)
      need   == c.on /\ ~c.looked_up /\ ~c.lookup_in_progress
      can    == ~c.on \/ c.looked_up
      queued == IF can THEN s ELSE [s EXCEPT !.ictx[i].waiting_ops = Append(@, p)]
      local  == IF need /\ s.op[p].lino = -1
                  THEN [queued EXCEPT !.op[p].lino = i, !.op[p].lname = n] ELSE queued IN
  [s |-> IF need THEN [local EXCEPT !.ictx[i].lookup_in_progress = TRUE] ELSE local,
   need_lookup |-> need, can_wind |-> can]

\* The names an operation takes out of its process's cache before it is wound.
Cleared(o, p) ==
  LET c == SpFops[o.fop].clears IN
  (IF "old" \in c THEN {o.n} ELSE {}) \cup (IF "new" \in c THEN {o.m} ELSE {})
    \cup (IF "fd" \in c THEN {ffd[p].name} ELSE {})

Clear(s, p) == [s EXCEPT !.cache[p] = sp_cache_remove_entry(@, Cleared(s.op[p], p))]

PathOp(s, p) ==
  LET o   == s.op[p]
      res == sp_process_inode_ctx(Clear(s, p), p, o.n, o.i) IN
  IF res.need_lookup THEN WindLookup(res.s, p, o.n, o.i)
  ELSE IF res.can_wind THEN WindFop(res.s, p) ELSE res.s

\* A rename queues a stub in each of the two contexts, under one lock and then under the
\* other.  Up to the second:
sp_rename(s, p) ==
  LET o   == s.op[p]
      old == sp_process_inode_ctx(Clear(s, p), p, o.n, o.i) IN
  [old.s EXCEPT !.op[p].between = "yes", !.op[p].need = old.need_lookup,
                !.op[p].can = old.can_wind]

\* From the second to the end.
sp_rename_new(s, p) ==
  LET o   == s.op[p]
      new == IF o.j = 0 THEN [s |-> s, need_lookup |-> FALSE, can_wind |-> TRUE]
                        ELSE sp_process_inode_ctx(s, p, o.m, o.j)
      end == [new.s EXCEPT
                !.op[p].between = "no", !.op[p].need = FALSE, !.op[p].can = FALSE,
                !.spoilt = @ \cup (IF o.between = "vain" /\ new.can_wind THEN {"between"} ELSE {})
                             \cup (IF o.need /\ new.need_lookup THEN {"lookups"} ELSE {})]
      one == IF o.need THEN WindLookup(end, p, o.n, o.i) ELSE end
      two == IF new.need_lookup THEN WindLookup(one, p, o.m, o.j) ELSE one IN
  IF o.need \/ new.need_lookup THEN two
  ELSE IF o.can /\ new.can_wind THEN WindFop(end, p) ELSE end

sp_lookup(s, p) ==
  LET o     == s.op[p]
      c     == s.cache[p]
      local == [s EXCEPT !.op[p].lino = o.i, !.op[p].lname = o.n, !.op[p].is_lookup = TRUE] IN
  IF o.fop = "lookup" /\ c.on /\ c.ents[o.n] # NoEnt
    THEN Unwind(s, p, 0, c.ents[o.n].ino, c.ents[o.n].ver)
  ELSE IF o.i = 0 THEN WindLookup(local, p, o.n, 0)
  ELSE IF s.ictx[o.i].lookup_in_progress
    THEN [local EXCEPT !.ictx[o.i].waiting_ops = Append(@, p)]
  ELSE WindLookup([local EXCEPT !.ictx[o.i].lookup_in_progress = TRUE], p, o.n, o.i)

\* A seek empties the cache.
sp_readdir(s, p) ==
  LET c == s.cache[p] IN
  WindFop(IF c.on /\ s.op[p].off # c.expected_offset
            THEN [s EXCEPT !.cache[p] = sp_cache_remove_entry(@, SpName)] ELSE s, p)

Entry(s, p) ==
  LET o == s.op[p] IN
  CASE Kind(o.fop) \in {"lookup", "lookup_xattr"} -> sp_lookup(s, p)
    [] Kind(o.fop) = "readdir" -> sp_readdir(s, p)
    [] o.fop = "rename"        -> sp_rename(s, p)
    [] Kind(o.fop) = "path"    -> PathOp(s, p)
    [] Kind(o.fop) = "pass"    -> WindFop(s, p)
    [] OTHER                   -> WindFop(Clear(s, p), p)

-----------------------------------------------------------------------------
(***************************************************************************)
(* The stubs that waited, and the callbacks.                               *)
(***************************************************************************)
sp_lookup_helper(s, p) ==
  LET o == s.op[p] IN
  IF s.ictx[o.i].err # "ok" THEN Unwind(s, p, -1, 0, 0)
  ELSE IF s.ictx[o.i].lookup_in_progress
    THEN [s EXCEPT !.ictx[o.i].waiting_ops = Append(@, p)]
  ELSE WindLookup([s EXCEPT !.ictx[o.i].lookup_in_progress = TRUE], p, o.n, o.i)

\* sp_stat_helper and the like.
Helper(s, p) ==
  IF s.ictx[s.op[p].i].err # "ok" THEN Unwind(s, p, -1, 0, 0) ELSE WindFop(s, p)

\* A new name that is not there does not matter: its lookup fails with ENOENT.  Of the two
\* flags the one whose callback runs the helper is set, so that it is no matter that the
\* code reads them one after the other.
sp_rename_helper(s, p) ==
  LET old == s.ictx[s.op[p].i]
      new == IF s.op[p].j = 0 THEN NoCtx ELSE s.ictx[s.op[p].j] IN
  IF new.on /\ ~(new.looked_up /\ old.looked_up)
    THEN [s EXCEPT !.op[p].between = IF @ = "yes" THEN "vain" ELSE @]
  ELSE IF old.err # "ok" \/ new.err = "EIO" THEN Unwind(s, p, -1, 0, 0) ELSE WindFop(s, p)

call_resume(s, p) ==
  CASE Kind(s.op[p].fop) \in {"lookup", "lookup_xattr"} -> sp_lookup_helper(s, p)
    [] s.op[p].fop = "rename" -> sp_rename_helper(s, p)
    [] OTHER -> Helper(s, p)

\* The end of sp_lookup_cbk: c is the callback of p for the answer r.
lookup_cbk_end(s, c) ==
  IF c.is_lookup THEN Unwind(s, c.p, IF c.r.st = "ok" THEN 0 ELSE -1, c.r.ino, c.r.ver) ELSE s

sp_update_inode_ctx(c, err) ==
  [c EXCEPT !.looked_up = TRUE, !.lookup_in_progress = FALSE, !.err = err,
            !.waiting_ops = <<>>]

\* The lookup may be one that another operation sent for itself (is_lookup is not set);
\* lino is 0 for an inode nobody else knows yet.  All that waited for the lookup are taken
\* from the context under its lock, and resumed when it is given up.
sp_lookup_cbk(s, p, r) ==
  LET o     == s.op[p]
      i     == o.lino
      clean == IF r.st = "ok" THEN s
               ELSE [s EXCEPT !.cache[p] = sp_cache_remove_entry(@, {o.lname})]
      stubs == IF i = 0 THEN <<>> ELSE s.ictx[i].waiting_ops
      new   == IF i = 0 THEN clean
               ELSE [clean EXCEPT !.ictx[i] = sp_update_inode_ctx(@, r.st)]
      c     == [p |-> p, r |-> r, is_lookup |-> o.is_lookup, stubs |-> stubs] IN
  IF stubs = <<>> THEN lookup_cbk_end(new, c)
  ELSE [new EXCEPT !.resuming = @ \cup {c},
                   !.spoilt = @ \cup {"twice" : d \in {e \in s.resuming :
                                        ToSet(e.stubs) \cap ToSet(stubs) # {}}}]

sp_readdir_cbk(s, p, r) ==
  LET new == IF r.st = "ok" THEN [s EXCEPT !.cache[p] = sp_cache_add_entries(@, r.ents)] ELSE s IN
  Unwind(new, p, IF r.st = "ok" THEN 0 ELSE -1,
         IF r.ents = <<>> THEN 0 ELSE Last(r.ents).n, r.ver)

sp_getdents_cbk(s, p, r) ==
  Unwind(IF r.st = "ok" THEN [s EXCEPT !.cache[p] = sp_cache_remove_entry(@, SpLinks)] ELSE s,
         p, IF r.st = "ok" THEN 0 ELSE -1, 0, r.ver)

Callback(s, p, r) ==
  IF r.what = "lookup" THEN sp_lookup_cbk(s, p, r)
  ELSE IF s.op[p].fop = "readdir" THEN sp_readdir_cbk(s, p, r)
  ELSE IF s.op[p].fop = "getdents" THEN sp_getdents_cbk(s, p, r)
  ELSE Unwind(s, p, IF r.st = "ok" THEN 0 ELSE -1, r.ino, r.ver)

-----------------------------------------------------------------------------
(***************************************************************************)
(* The calls.  The kernel (external) knows a file by the inode its last    *)
(* lookup found.                                                           *)
(***************************************************************************)
Firsts(p, fop) ==
  CASE fop \in {"create", "mknod"}       -> {n \in SpName \ (SpDirs \cup SpLinks) : known[n] = 0}
    [] fop = "mkdir"                     -> {n \in SpDirs : known[n] = 0}
    [] fop = "symlink"                   -> {n \in SpLinks : known[n] = 0}
    [] fop \in {"lookup", "lookup_xattr", "setdents"} -> SpName
    [] fop = "rmdir"                     -> {n \in SpDirs : known[n] # 0}
    [] fop = "readlink"                  -> {n \in SpLinks : known[n] # 0}
    [] fop \in {"readdir", "getdents"}   -> {0}
    [] fop = "opendir"                   -> {0}
    [] Kind(fop) = "fd" \/ fop = "pass"  -> {ffd[p].name}
    [] OTHER                             -> {n \in SpName \ SpDirs : known[n] # 0}

\* The kernel carries out a rename of two names of one inode without asking.
Seconds(fop, n) ==
  CASE fop = "rename" -> {m \in SpName \ (SpDirs \cup {n}) : known[m] # known[n]}
    [] fop = "link"   -> {m \in SpName \ SpDirs : known[m] = 0}
    [] OTHER          -> {0}

Inode(n) == IF n = 0 THEN 0 ELSE known[n]

\* The offsets a process may read on from: where it stands, and the start.
Offsets(p, fop) == IF fop = "readdir" THEN {0, dfd[p].pos} ELSE {0}

Allowed(p, fop) ==
  /\ fop = "opendir" => ~dfd[p].on
  /\ fop = "open" \/ fop = "create" => ffd[p] = NoFile
  /\ fop \in {"readdir", "getdents", "setdents"} => dfd[p].on
  /\ Kind(fop) = "fd" \/ fop = "pass" => ffd[p] # NoFile

Ask(p) ==
  /\ op[p].st = "idle" /\ ncalls < MaxSpCalls
  /\ ncalls' = ncalls + 1
  /\ \E fop \in SpFop : \E n \in Firsts(p, fop) : \E m \in Seconds(fop, n), off \in Offsets(p, fop) :
       LET o == [IdleOp EXCEPT !.st = "busy", !.fop = fop, !.n = n, !.m = m, !.off = off,
                               !.i = CASE Kind(fop) = "fd" \/ fop = "pass" -> ffd[p].ino
                                      [] Kind(fop) = "dir" -> 0
                                      [] OTHER -> Inode(n),
                               !.j = IF fop = "rename" THEN Inode(m) ELSE 0]
       IN
       /\ Allowed(p, fop)
       /\ Become(Entry([State EXCEPT !.op[p] = o], p))
  /\ UNCHANGED <<disk, ver, clock, known, heard, dfd, ffd, mine, nfails, nremote>>

RenameNew(p) ==
  /\ op[p].between # "no"
  /\ Become(sp_rename_new(State, p))
  /\ UNCHANGED <<disk, ver, clock, known, heard, dfd, ffd, mine, ncalls, nfails, nremote>>

\* A callback is about to resume p.  If p has been answered its frame is gone.
AboutToResume(p) == \E c \in resuming : p \in ToSet(c.stubs)
Without(p) ==
  {d \in {[c EXCEPT !.stubs = SelectSeq(@, LAMBDA q : q # p)] : c \in resuming} :
     d.stubs # <<>> \/ d.is_lookup}

\* The answer reaches the kernel: fuse links the inode, and the descriptor is kept.
Return(p) ==
  LET o    == op[p]
      look == Kind(o.fop) \in {"lookup", "lookup_xattr"}
      made == Kind(o.fop) = "new" /\ o.said = 0
      sees == look /\ o.said = 0 /\ o.i \in {0, o.sino}
      links == (sees \/ made) /\ ~ictx[o.sino].on
      seen  == made \/ o.lino = 0 IN
  /\ o.st = "done" /\ o.between = "no"
  /\ op' = [op EXCEPT ![p] = IdleOp]
  /\ resuming' = IF AboutToResume(p) THEN Without(p) ELSE resuming
  /\ known' = IF o.n = 0 THEN known
              ELSE [known EXCEPT
                     ![o.n] = IF sees \/ made THEN o.sino
                              ELSE IF look \/ (o.fop \in {"unlink", "rmdir", "rename"} /\ o.said = 0)
                                THEN 0 ELSE @]
  /\ ictx' = IF links THEN [ictx EXCEPT ![o.sino] = [NoCtx EXCEPT !.on = TRUE,
                                                                 !.looked_up = seen]]
                      ELSE ictx
  /\ heard' = IF links /\ seen THEN heard \cup {o.sino} ELSE heard
  /\ ffd' = IF o.fop \in {"open", "create"} /\ o.said = 0
              THEN [ffd EXCEPT ![p] = [ino |-> IF made THEN o.sino ELSE o.i, name |-> o.n]]
            ELSE ffd
  /\ dfd' = IF o.said # 0 THEN dfd
            ELSE IF o.fop = "opendir" THEN [dfd EXCEPT ![p] = [on |-> TRUE, pos |-> 0]]
            ELSE IF o.fop = "readdir" /\ o.sino # 0 THEN [dfd EXCEPT ![p].pos = o.sino]
            ELSE dfd
  /\ mine' = IF o.said # 0 \/ o.n = 0 \/ look \/ made \/ o.sver = 0 THEN mine
             ELSE [mine EXCEPT ![p] = [n \in SpName |->
                    IF n = o.n \/ (o.fop = "rename" /\ n = o.m) THEN o.sver ELSE @[n]]]
  /\ UNCHANGED <<disk, ver, clock, cache, spoilt, ncalls, nfails, nremote>>

\* close: the file's descriptor is given up.
Close(p) ==
  /\ op[p].st = "idle" /\ ffd[p] # NoFile
  /\ ffd' = [ffd EXCEPT ![p] = NoFile]
  /\ UNCHANGED <<disk, ver, clock, known, ictx, heard, dfd, cache, op, resuming, mine, spoilt,
                 ncalls, nfails, nremote>>

\* closedir: the cache goes with the descriptor.
sp_release(p) ==
  /\ op[p].st = "idle" /\ dfd[p].on
  /\ dfd' = [dfd EXCEPT ![p] = [on |-> FALSE, pos |-> 0]]
  /\ cache' = [cache EXCEPT ![p] = NoCache]
  /\ UNCHANGED <<disk, ver, clock, known, ictx, heard, ffd, op, resuming, mine, spoilt, ncalls,
                 nfails, nremote>>

\* The kernel forgets an inode that nothing uses.
sp_forget(i) ==
  /\ ictx[i].on
  /\ \A p \in Proc : i \notin {op[p].i, op[p].j, ffd[p].ino, op[p].sino}
  /\ ictx' = [ictx EXCEPT ![i] = NoCtx]
  /\ known' = [n \in SpName |-> IF known[n] = i THEN 0 ELSE known[n]]
  /\ heard' = heard \ {i}
  /\ UNCHANGED <<disk, ver, clock, dfd, cache, ffd, op, resuming, mine, spoilt, ncalls, nfails,
                 nremote>>

-----------------------------------------------------------------------------
(***************************************************************************)
(* The volume below (external), and other clients of it.                   *)
(***************************************************************************)
Touches == {"truncate", "setattr", "readlink", "setxattr", "removexattr", "checksum",
            "xattrop", "link", "rename", "ftruncate", "readv", "writev", "fsync", "fxattrop",
            "setdents", "pass"}

\* <<outcome, listing>> of an operation on the names.
OnDisk(o) ==
  LET there == o.n # 0 /\ disk[o.n] # 0 IN
  CASE Kind(o.fop) = "new" ->
         IF there THEN <<"EEXIST", disk>> ELSE <<"ok", [disk EXCEPT ![o.n] = clock + 1]>>
    [] Kind(o.fop) \in {"fd", "pass", "dir", "readdir"} \/ o.n = 0 -> <<"ok", disk>>
    [] ~there -> <<"ENOENT", disk>>
    [] o.fop \in {"unlink", "rmdir"} -> <<"ok", [disk EXCEPT ![o.n] = 0]>>
    [] o.fop = "rename" -> <<"ok", [disk EXCEPT ![o.n] = 0, ![o.m] = disk[o.n]]>>
    [] o.fop = "link" ->
         IF disk[o.m] # 0 THEN <<"EEXIST", disk>> ELSE <<"ok", [disk EXCEPT ![o.m] = disk[o.n]]>>
    [] OTHER -> <<"ok", disk>>

\* The next entries after an offset; the name is the offset.
Listing(off) ==
  LET rest == SetToSortSeq({n \in SpName : n > off /\ disk[n] # 0}, <) IN
  [k \in 1 .. (IF Len(rest) < Page THEN Len(rest) ELSE Page) |->
     [n |-> rest[k], ino |-> disk[rest[k]], ver |-> ver[disk[rest[k]]]]]

\* The file an operation is about: by descriptor, or by name.
Target(o) == IF Kind(o.fop) \in {"fd", "pass"} THEN o.i ELSE IF o.n = 0 THEN 0 ELSE disk[o.n]

Exec(p) ==
  LET o == op[p] IN
  \E r \in o.out :
    LET reply(st, ino, v, ents) ==
          op' = [op EXCEPT ![p].out = (@ \ {r}) \cup
                   {[r EXCEPT !.st = st, !.ino = ino, !.ver = v, !.ents = ents]}]
        res  == OnDisk(o)
        made == Kind(o.fop) = "new" /\ res[1] = "ok"
        new  == made \/ (res[1] = "ok" /\ o.fop \in Touches \cup {"unlink", "rmdir"}) IN
    /\ r.st = "sent"
    /\ IF r.what = "lookup"
         THEN /\ IF disk[r.n] = 0 THEN reply("ENOENT", 0, 0, <<>>)
                                  ELSE reply("ok", disk[r.n], ver[disk[r.n]], <<>>)
              /\ heard' = (heard \cup {r.i}) \ {0}
              /\ UNCHANGED <<disk, ver, clock>>
         ELSE /\ disk' = res[2]
              /\ clock' = IF new THEN clock + 1 ELSE clock
              /\ ver' = IF made THEN [ver EXCEPT ![clock + 1] = clock + 1]
                        ELSE IF new /\ Target(o) # 0 THEN [ver EXCEPT ![Target(o)] = clock + 1]
                        ELSE ver
              /\ UNCHANGED heard
              /\ reply(res[1], IF made THEN clock + 1 ELSE 0,
                       IF new /\ (Kind(o.fop) # "fd" \/ disk[o.n] = o.i) /\ o.fop # "pass"
                         THEN clock + 1 ELSE 0,
                       IF o.fop = "readdir" THEN Listing(o.off) ELSE <<>>)
    /\ UNCHANGED <<known, ictx, dfd, cache, ffd, resuming, mine, spoilt, ncalls, nfails,
                   nremote>>

Fail(p) ==
  \E r \in op[p].out :
    /\ r.st = "sent" /\ nfails < MaxSpFails
    /\ nfails' = nfails + 1
    /\ op' = [op EXCEPT ![p].out = (@ \ {r}) \cup {[r EXCEPT !.st = "EIO"]}]
    /\ heard' = IF r.what = "lookup" THEN (heard \cup {r.i}) \ {0} ELSE heard
    /\ UNCHANGED <<disk, ver, clock, known, ictx, dfd, cache, ffd, resuming, mine, spoilt,
                   ncalls, nremote>>

Answer(p) ==
  \E r \in op[p].out :
    /\ r.st # "sent"
    /\ Become(Callback([State EXCEPT !.op[p].out = @ \ {r}], p, r))
    /\ UNCHANGED <<disk, ver, clock, known, heard, dfd, ffd, mine, ncalls, nfails, nremote>>

\* A callback resumes the next of its stubs, or ends.
Resume ==
  \E c \in resuming :
    LET rest == [c EXCEPT !.stubs = IF @ = <<>> THEN @ ELSE Tail(@)]
        now  == [State EXCEPT !.resuming = @ \ {c}]
        s    == IF c.stubs = <<>> THEN now ELSE call_resume(now, Head(c.stubs)) IN
    /\ Become(IF rest.stubs = <<>> THEN lookup_cbk_end(s, rest)
              ELSE [s EXCEPT !.resuming = @ \cup {rest}])
    /\ UNCHANGED <<disk, ver, clock, known, heard, dfd, ffd, mine, ncalls, nfails, nremote>>

\* Another client removes or changes a file.
Remote(n) ==
  /\ nremote < MaxRemote /\ disk[n] # 0
  /\ nremote' = nremote + 1
  /\ clock' = clock + 1
  /\ \/ disk' = [disk EXCEPT ![n] = 0] /\ UNCHANGED ver
     \/ ver' = [ver EXCEPT ![disk[n]] = clock + 1] /\ UNCHANGED disk
  /\ UNCHANGED <<known, ictx, heard, dfd, cache, ffd, op, resuming, mine, spoilt, ncalls,
                 nfails>>

\* Either nobody has read the directory yet, or the readers have, and have looked every
\* name up in the cache.
Init ==
  /\ disk = [n \in SpName |-> n]
  /\ ver = [i \in Stamp |-> IF i <= Cardinality(SpName) THEN i ELSE 0]
  /\ clock = Cardinality(SpName)
  /\ known = [n \in SpName |-> IF Reader = {} THEN 0 ELSE n]
  /\ ictx = [i \in Stamp |-> [NoCtx EXCEPT !.on = Reader # {} /\ i \in SpName]]
  /\ heard = {}
  /\ dfd = [p \in Proc |-> [on |-> p \in Reader,
                            pos |-> IF p \in Reader THEN Cardinality(SpName) ELSE 0]]
  /\ cache = [p \in Proc |->
                IF p \in Reader
                THEN sp_cache_add_entries(NoCache, [n \in SpName |-> [n |-> n, ino |-> n, ver |-> n]])
                ELSE NoCache]
  /\ resuming = {}
  /\ ffd = [p \in Proc |-> NoFile]
  /\ op = [p \in Proc |-> IdleOp]
  /\ mine = [p \in Proc |-> [n \in SpName |-> 0]]
  /\ spoilt = {}
  /\ ncalls = 0 /\ nfails = 0 /\ nremote = 0

Next ==
  \/ Resume
  \/ \E p \in Proc : Ask(p) \/ RenameNew(p) \/ Exec(p) \/ Fail(p) \/ Answer(p) \/ Return(p)
                      \/ Close(p) \/ sp_release(p)
  \/ \E i \in Stamp : sp_forget(i)
  \/ \E n \in SpName : Remote(n)

Spec == Init /\ [][Next]_spVars

-----------------------------------------------------------------------------
\* A process sees its own changes: its lookup of a name it has changed, through the name
\* or through a descriptor opened by that name, is never answered with attributes older
\* than the change, however many of its answers come from the cache (the
\* sp_cache_remove_entry at the start of each operation).
OwnChangesSeen ==
  \A p \in Proc :
    LET o == op[p] IN
    o.st = "done" /\ Kind(o.fop) \in {"lookup", "lookup_xattr"} /\ o.said = 0 =>
      o.sver >= mine[p][o.n]

\* The translators below see an inode first in a lookup, or in the call that makes it,
\* also when the kernel learnt of it from the cache (lookup-behind: sp_process_inode_ctx),
\* unless a rename has sent two lookups.
LookedUpFirst ==
  \A p \in Proc : \A r \in op[p].out :
    r.what = "fop" /\ r.i # 0 /\ Kind(op[p].fop) # "new" /\ "lookups" \notin spoilt
      => r.i \in heard

\* An operation that waits in an inode's context waits for a lookup that is under way and
\* whose callback will look into that context, or is about to be resumed by one (waiting_ops,
\* sp_lookup_cbk); any other call under way has a request below.  What can go wrong with a
\* rename is left out (spoilt).
WaitsForLookup ==
  \A p \in Proc :
    LET o == op[p] IN
    o.st = "busy" /\ o.out = {} /\ o.between = "no" /\ spoilt = {} =>
      \/ AboutToResume(p)
      \/ \E c \in resuming : c.p = p /\ c.is_lookup
      \/ \E i \in {o.i, o.j} \ {0} :
           /\ p \in ToSet(ictx[i].waiting_ops) /\ ictx[i].lookup_in_progress
           /\ \E q \in Proc :
                \/ op[q].lino = i /\ (\E r \in op[q].out : r.what = "lookup")
                \/ op[q].between # "no" /\ op[q].need /\ op[q].i = i

\* A call is wound at most once and answered at most once, although a rename leaves a stub
\* in two contexts and a lookup's callback wakes callers of all kinds, unless both callbacks
\* have updated their contexts before either resumes the rename.
AnsweredOnce ==
  \A p \in Proc :
    LET o == op[p] IN
    "twice" \notin spoilt =>
      /\ o.winds <= 1
      /\ o.answers = (IF o.st = "done" THEN 1 ELSE 0)
      /\ o.st = "done" => o.out = {}
=============================================================================
