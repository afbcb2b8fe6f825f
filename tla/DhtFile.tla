------------------------------- MODULE DhtFile -------------------------------
(***************************************************************************)
(* The files of a distributed directory: cluster/dht and its variants      *)
(* cluster/nufa and cluster/switch (dht-common.c, dht-rename.c,            *)
(* dht-linkfile.c, nufa.c, switch.c).                                      *)
(*                                                                         *)
(* The hash of a name gives the subvolume it is looked for on.  The file   *)
(* may be on another one, the cached subvolume, and the hashed one has a   *)
(* link file then: an empty sticky file whose attribute names the other.   *)
(* A call is a chain of requests; it goes on in the callbacks.  Calls of   *)
(* several clients overlap, links break with requests on their way.        *)
(***************************************************************************)
EXTENDS Integers, Sequences, FiniteSets, SequencesExt

CONSTANTS Mount,        \* the clients
          Subs,         \* number of subvolumes
          FName,        \* the names of the directory, numbers from 1 on
          SubDirs,      \* those of them that are directories
          Hashed,       \* [FName -> 0 .. Subs], 0 where the layout has a hole
          Scheme,       \* "dht", "nufa" or "switch"
          Local,        \* nufa: the local volume
          Unhashed,     \* option lookup-unhashed
          FileFops,     \* the table of DhtFops.tla
          FileOp,       \* the calls in use
          Page,         \* the entries one readdir of a subvolume returns
          MaxFileCalls, MaxFileFaults

VARIABLES ent,          \* per subvolume and name: what is there
          cache,        \* per client and name: the cached subvolume and file
          call,         \* per client: the frame and its local
          reap,         \* unlinks of stale link files, in frames of their own
          linked,       \* the subvolumes that are connected
          ids,          \* files made so far
          doomed,       \* files somebody asked to remove or to replace
          spoilt,       \* calls overlapped, or one came from stale knowledge
          ncalls, nfaults

fileVars == <<ent, cache, call, reap, linked, ids, doomed, spoilt, ncalls, nfaults>>

Sub == 1 .. Subs
File == FName \ SubDirs

None == <<"none", 0>>
Data(id) == <<"file", id>>
LinkTo(s) == <<"link", s>>      \* 0: the attribute is not there yet
IsData(e) == e[1] = "file"
IsLink(e) == e[1] = "link"

ENOENT == 2
EEXIST == 17
EINVAL == 22
ENOTCONN == 107
ESTALE == 116

\* What fuse knows of a name: nothing, that it is not there, or its inode.
NotCached == [sub |-> 0, id |-> 0]
Absent == [sub |-> 0, id |-> -1]
IdOf(e) == IF IsData(e) THEN e[2] ELSE 0

\* calm: no fault and no other call while this one was running.
Done(f, ret) == [op |-> "done", was |-> f.op, n |-> f.n, n2 |-> f.n2, ret |-> ret,
                 calm |-> f.calm, seen |-> f.seen]
NoCall == [op |-> "done", was |-> "none", n |-> 0, n2 |-> 0, ret |-> 0,
           calm |-> FALSE, seen |-> <<>>]

Init == /\ ent = [s \in Sub |-> [n \in File |-> None]]
        /\ cache = [c \in Mount |-> [n \in File |-> Absent]]
        /\ call = [c \in Mount |-> NoCall]
        /\ reap = {} /\ linked = Sub /\ ids = 0 /\ doomed = {} /\ spoilt = FALSE
        /\ ncalls = 0 /\ nfaults = 0

-----------------------------------------------------------------------------
(* What a callback does: the frame, the inode of a name, link files to     *)
(* remove.  A request is <<callback, name, subvolume, was it sent>>.       *)

Req(cbk, n, subs) == {<<cbk, n, s, s \in linked>> : s \in subs}

Result(f, n, inode, unlink) ==
    [frame |-> f, name |-> n, inode |-> inode, unlink |-> unlink]

Goes(f) == Result(f, 0, NotCached, {})
Ends(f, ret) == Goes(Done(f, ret))

\* dht_layout_preset: the layout of the inode is the subvolume alone.
EndsAt(f, ret, n, s, id) == Result(Done(f, ret), n, [sub |-> s, id |-> id], {})

\* fuse learns that there is no such name.
NotThere(f) == Result(Done(f, ENOENT), f.n, Absent, {})

LastReply(f) == f.out = {}

\* The link file of name n on fromvol, first without its attribute.
dht_linkfile_create(f, n, tovol, fromvol) ==
    [f EXCEPT !.out = @ \cup Req("link_mknod", n, {fromvol}), !.to = tovol]

dht_linkfile_subvol(e) == e[2]

-----------------------------------------------------------------------------
(* lookup                                                                  *)

dht_lookup_everywhere(f) == Goes([f EXCEPT !.out = Req("everywhere", f.n, Sub)])

\* The first file found counts; link files are removed on sight.  The hashed
\* subvolume then gets a link file that leads there.
dht_lookup_everywhere_cbk(f, s, errno, e) ==
    LET g == IF errno = 0 /\ IsData(e) /\ f.sub = 0
               THEN [f EXCEPT !.sub = s, !.id = e[2]] ELSE f
        u == IF errno = 0 /\ IsLink(e) THEN {<<f.n, s>>} ELSE {}
    IN  IF ~ LastReply(f) THEN [Goes(g) EXCEPT !.unlink = u]
        ELSE IF g.sub = 0 THEN [NotThere(f) EXCEPT !.unlink = u]
        ELSE IF Hashed[f.n] = 0
        THEN [EndsAt(g, 0, f.n, g.sub, g.id) EXCEPT !.unlink = u]
        ELSE [Goes(dht_linkfile_create(g, f.n, g.sub, Hashed[f.n])) EXCEPT !.unlink = u]

\* Whether or not the link file could be made.  A mknod that was not even
\* sent comes back without the inode, whose layout is not set then.
dht_lookup_linkfile_create_cbk(f, errno, sent) ==
    IF sent THEN EndsAt(f, 0, f.n, f.sub, f.id)
    ELSE Result(Done(f, 0), f.n, NotCached, {})

\* The link file was followed to s.
dht_lookup_linkfile_cbk(f, s, errno, e) ==
    IF errno = 0 /\ IsData(e) THEN EndsAt(f, 0, f.n, s, e[2])
    ELSE dht_lookup_everywhere(f)

FollowLink(f, e) ==
    IF dht_linkfile_subvol(e) = 0 THEN dht_lookup_everywhere(f)
    ELSE Goes([f EXCEPT !.out = Req("linkfile", f.n, {dht_linkfile_subvol(e)})])

\* All subvolumes are asked as for a directory; one that has a file there
\* makes it a search for a file, and none that has anything ends it.
dht_lookup_dir_cbk(f, errno, e) ==
    LET g == [f EXCEPT !.found = @ \/ errno = 0]
    IN  IF ~ LastReply(f) THEN Goes(g)
        ELSE IF g.found THEN dht_lookup_everywhere([g EXCEPT !.found = FALSE])
        ELSE NotThere(f)

dht_lookup_directory(f) == Goes([f EXCEPT !.out = Req("lookup_dir", f.n, Sub)])

\* The hashed subvolume answered.
dht_lookup_cbk(f, s, errno, e) ==
    CASE errno = ENOENT /\ Unhashed -> dht_lookup_everywhere(f)
      [] errno = ENOTCONN           -> dht_lookup_directory(f)
      [] errno = ENOENT             -> NotThere(f)
      [] errno = 0 /\ IsData(e)     -> EndsAt(f, 0, f.n, s, e[2])
      [] errno = 0 /\ IsLink(e)     -> FollowLink(f, e)

\* The volume that is preferred is asked before the hashed one, which is
\* asked as well unless there was a link file.
nufa_local_lookup_cbk(f, s, errno, e) ==
    IF errno = ENOENT /\ Unhashed THEN dht_lookup_everywhere(f)
    ELSE IF errno = 0 /\ IsLink(e) THEN FollowLink(f, e)
    ELSE IF Hashed[f.n] = 0
    THEN IF errno = 0 THEN EndsAt(f, 0, f.n, s, e[2]) ELSE Ends(f, EINVAL)
    ELSE LET g == [f EXCEPT !.out = Req("lookup", f.n, {Hashed[f.n]})]
         IN  IF errno # 0 THEN Goes(g)
             ELSE Result(g, f.n, [sub |-> s, id |-> e[2]], {})

switch_local_lookup_cbk(f, s, errno, e) == nufa_local_lookup_cbk(f, s, errno, e)

\* The inode is known: its own subvolume says whether the file is there.
dht_revalidate_cbk(f, s, errno, e) ==
    CASE errno # 0 -> Result(Done(f, errno), f.n, NotCached, {})
      [] errno = 0 /\ IsLink(e) -> Result(Done(f, ESTALE), f.n, NotCached, {})
      [] OTHER -> EndsAt(f, 0, f.n, s, f.id)

-----------------------------------------------------------------------------
(* create, mknod and symlink; link; unlink                                 *)

\* dht_newfile_cbk is the same for mknod and symlink.
dht_create_cbk(f, s, errno, e) ==
    IF errno # 0 THEN Ends(f, errno) ELSE EndsAt(f, 0, f.n, s, IdOf(e))

dht_newfile_cbk(f, s, errno, e) == dht_create_cbk(f, s, errno, e)

\* The link file is there: the file itself on the subvolume with room.
dht_create_linkfile_create_cbk(f, errno) ==
    IF errno # 0 THEN Ends(f, errno)
    ELSE Goes([f EXCEPT !.out = Req("create", f.n, {f.sub})])

dht_mknod_linkfile_create_cbk(f, errno) ==
    IF errno # 0 THEN Ends(f, errno)
    ELSE Goes([f EXCEPT !.out = Req("newfile", f.n, {f.sub})])

nufa_create_linkfile_create_cbk(f, errno) == dht_create_linkfile_create_cbk(f, errno)
nufa_mknod_linkfile_cbk(f, errno) == dht_mknod_linkfile_create_cbk(f, errno)
switch_create_linkfile_create_cbk(f, errno) == dht_create_linkfile_create_cbk(f, errno)
switch_mknod_linkfile_cbk(f, errno) == dht_mknod_linkfile_create_cbk(f, errno)

dht_link_cbk(f, s, errno, e) ==
    IF errno # 0 THEN Ends(f, errno) ELSE EndsAt(f, 0, f.n2, f.sub, f.id)

dht_link_linkfile_cbk(f, errno) ==
    IF errno # 0 THEN Ends(f, errno)
    ELSE Goes([f EXCEPT !.out = Req("link", f.n2, {f.sub})])

\* unlink succeeds if it does on the cached or on the hashed subvolume.
dht_unlink_cbk(f, errno) ==
    LET g == IF errno = 0 THEN [f EXCEPT !.found = TRUE] ELSE [f EXCEPT !.errno = errno]
    IN  IF ~ LastReply(f) THEN Goes(g)
        ELSE IF g.found THEN Result(Done(f, 0), f.n, Absent, {})
        ELSE Ends(f, g.errno)

\* dht_attr_cbk, dht_setattr_cbk, dht_err_cbk, dht_fd_cbk, ...: success if
\* one subvolume succeeds.
Collect(f, errno) ==
    LET g == IF errno = 0 THEN [f EXCEPT !.found = TRUE] ELSE [f EXCEPT !.errno = errno]
    IN  IF ~ LastReply(f) THEN Goes(g) ELSE Ends(f, IF g.found THEN 0 ELSE g.errno)

-----------------------------------------------------------------------------
(* rename: sh, sc, dh, dc are src_hashed, src_cached, dst_hashed and       *)
(* dst_cached (0 if there is no such file).                                *)

RenameSubvol(f) == IF f.sc = f.dc THEN f.sc ELSE f.dh

dht_do_rename(f) == Goes([f EXCEPT !.out = Req("rename", f.n, {RenameSubvol(f)})])

\* The inode of the file is the new name's; its layout stays what it was.
Renamed(f) == Result(Done(f, 0), f.n2, [sub |-> f.sc, id |-> f.id], {})

dht_rename_unlink_cbk(f, errno) == IF LastReply(f) THEN Renamed(f) ELSE Goes(f)

\* A bug this could have: the old file is removed where it was renamed.
rename_cbk_removes_dst(f, errno) ==
    LET out == Req("rename_unlink", f.n, {f.sc} \ {f.dh, f.dc})
          \cup Req("rename_unlink", f.n, {f.sh} \ {RenameSubvol(f), f.sc})
          \cup Req("rename_unlink", f.n2, {f.dc} \ {0, f.dh})
    IN  IF errno # 0 THEN Ends(f, errno)
        ELSE IF out = {} THEN Renamed(f) ELSE Goes([f EXCEPT !.out = out])

\* What is left of the old name, and of the file the new name had.
dht_rename_cbk(f, errno) ==
    LET out == Req("rename_unlink", f.n, {f.sc} \ {f.dh, f.dc})
          \cup Req("rename_unlink", f.n, {f.sh} \ {RenameSubvol(f), f.sc})
          \cup Req("rename_unlink", f.n2, {f.dc} \ {0, f.dh, f.sc})
    IN  IF errno # 0 THEN Ends(f, errno)
        ELSE IF out = {} THEN Renamed(f) ELSE Goes([f EXCEPT !.out = out])

\* One link that fails ends the rename; the other one stays.
dht_rename_links_cbk(f, errno) ==
    LET g == IF errno # 0 THEN [f EXCEPT !.errno = errno] ELSE f
    IN  IF ~ LastReply(f) THEN Goes(g)
        ELSE IF g.errno # 0 THEN Ends(f, g.errno)
        ELSE dht_do_rename(g)

\* The file gets its new name where it is, and the new name's subvolume a
\* link file under the old name, which the rename there will rename.
dht_rename_create_links(f) ==
    LET link == IF f.sc # f.dh THEN Req("rename_link", f.n2, {f.sc}) ELSE {}
        g    == [f EXCEPT !.out = link]
    IN  IF f.sc = f.dc THEN dht_do_rename(f)
        ELSE IF f.dh # f.sh /\ f.dh # f.sc
        THEN Goes(dht_linkfile_create(g, f.n, f.sc, f.dh))
        ELSE IF link # {} THEN Goes(g)
        ELSE dht_do_rename(f)

-----------------------------------------------------------------------------
(* readdir: an offset names the subvolume and the offset there.  The       *)
(* caller asks again from the offset of the last entry until there is none *)

dht_itransform(s, x) == x * Subs + (s - 1)
dht_deitransform(y) == <<(y % Subs) + 1, y \div Subs>>
dht_subvol_next(s) == IF s < Subs THEN s + 1 ELSE 0
dht_first_up_subvol == IF linked = {} THEN 0 ELSE CHOOSE s \in linked : \A t \in linked : s <= t

\* The entries after offset x of subvolume s, at most a page of them.
Entries(s, x) ==
    LET rest == SelectSeq(SetToSortSeq(FName, <),
                          LAMBDA n : n > x /\ (n \in SubDirs \/ ent[s][n] # None))
    IN  SubSeq(rest, 1, IF Len(rest) < Page THEN Len(rest) ELSE Page)

dht_do_readdir(f, yoff) ==
    LET at == dht_deitransform(yoff)
    IN  Goes([f EXCEPT !.out = Req(f.op, at[2], {at[1]})])

\* Link files are left out, and directories but those of the first
\* subvolume that is up.  A page with nothing left is not the end.
dht_readdirp_cbk(f, s, errno, page) ==
    LET kept == SelectSeq(page, LAMBDA n : IF n \in SubDirs THEN s = dht_first_up_subvol
                                           ELSE ~ IsLink(ent[s][n]))
        next == IF page = <<>> THEN dht_subvol_next(s) ELSE s
    IN  IF kept # <<>>
        THEN dht_do_readdir([f EXCEPT !.seen = @ \o kept], dht_itransform(s, Last(kept)))
        ELSE IF next = 0 THEN Ends(f, 0)
        ELSE Goes([f EXCEPT !.out =
                     Req("readdirp", IF page = <<>> THEN 0 ELSE Last(page), {next})])

\* The entries of a plain readdir have no attributes to tell them apart.
dht_readdir_cbk(f, s, errno, page) ==
    IF page # <<>>
    THEN dht_do_readdir([f EXCEPT !.seen = @ \o page], dht_itransform(s, Last(page)))
    ELSE IF dht_subvol_next(s) = 0 THEN Ends(f, 0)
    ELSE Goes([f EXCEPT !.out = Req("readdir", 0, {dht_subvol_next(s)})])

dht_readdir(f) == dht_do_readdir(f, 0)
dht_readdirp(f) == dht_do_readdir(f, 0)

-----------------------------------------------------------------------------
(* The calls                                                               *)

Frame(c, op, n, n2) ==
    [op |-> op, n |-> n, n2 |-> n2, out |-> {}, sub |-> 0, id |-> 0, to |-> 0,
     found |-> FALSE, errno |-> 0, sh |-> 0, sc |-> 0, dh |-> 0, dc |-> 0,
     calm |-> /\ linked = Sub /\ reap = {}
              /\ \A d \in Mount : call[d].op = "done",
     seen |-> <<>>]

\* The subvolume of an inode's preset layout.
dht_subvol_get_cached(c, n) == cache[c][n].sub

dht_lookup(f, c) ==
    IF dht_subvol_get_cached(c, f.n) # 0
    THEN Goes([f EXCEPT !.out = Req("revalidate", f.n, {dht_subvol_get_cached(c, f.n)}),
                        !.id = cache[c][f.n].id])
    ELSE IF Hashed[f.n] = 0 THEN dht_lookup_directory(f)
    ELSE Goes([f EXCEPT !.out = Req("lookup", f.n, {Hashed[f.n]})])

nufa_lookup(f, c) ==
    IF dht_subvol_get_cached(c, f.n) # 0 THEN dht_lookup(f, c)
    ELSE Goes([f EXCEPT !.out = Req("local", f.n, {Local})])

\* get_switch_matching_subvol: the pattern of the name leads to s.
switch_lookup(f, c, s) ==
    IF dht_subvol_get_cached(c, f.n) # 0 \/ Hashed[f.n] \in {0, s} THEN dht_lookup(f, c)
    ELSE Goes([f EXCEPT !.out = Req("local", f.n, {s})])

\* avail: the hashed subvolume, or the one with most room if that is filled.
dht_create(f, avail) ==
    IF Hashed[f.n] = 0 THEN Ends(f, ENOENT)
    ELSE IF avail = Hashed[f.n]
    THEN Goes([f EXCEPT !.out = Req("create", f.n, {avail})])
    ELSE Goes(dht_linkfile_create([f EXCEPT !.sub = avail], f.n, avail, Hashed[f.n]))

dht_mknod(f, avail) ==
    IF Hashed[f.n] = 0 THEN Ends(f, ENOENT)
    ELSE IF avail = Hashed[f.n]
    THEN Goes([f EXCEPT !.out = Req("newfile", f.n, {avail})])
    ELSE Goes(dht_linkfile_create([f EXCEPT !.sub = avail], f.n, avail, Hashed[f.n]))

\* nufa: avail is the local volume; switch: that of the name's pattern; both:
\* the one with most room if that is filled.
nufa_create(f, avail) == dht_create(f, avail)
nufa_mknod(f, avail) == dht_mknod(f, avail)
switch_create(f, avail) == dht_create(f, avail)
switch_mknod(f, avail) == dht_mknod(f, avail)

dht_symlink(f) ==
    IF Hashed[f.n] = 0 THEN Ends(f, ENOENT)
    ELSE Goes([f EXCEPT !.out = Req("newfile", f.n, {Hashed[f.n]})])

dht_unlink(f, c) ==
    IF dht_subvol_get_cached(c, f.n) = 0 \/ Hashed[f.n] = 0 THEN Ends(f, EINVAL)
    ELSE Goes([f EXCEPT !.out =
                 Req("unlink", f.n, {dht_subvol_get_cached(c, f.n), Hashed[f.n]})])

dht_link(f, c) ==
    LET sub == dht_subvol_get_cached(c, f.n)
        g   == [f EXCEPT !.sub = sub, !.id = cache[c][f.n].id]
    IN  IF sub = 0 \/ Hashed[f.n2] = 0 THEN Ends(f, EINVAL)
        ELSE IF Hashed[f.n2] = sub
        THEN Goes([g EXCEPT !.out = Req("link", f.n2, {sub})])
        ELSE Goes(dht_linkfile_create(g, f.n2, sub, Hashed[f.n2]))

dht_rename(f, c) ==
    IF Hashed[f.n] = 0 \/ dht_subvol_get_cached(c, f.n) = 0 \/ Hashed[f.n2] = 0
    THEN Ends(f, EINVAL)
    ELSE dht_rename_create_links(
           [f EXCEPT !.sh = Hashed[f.n], !.sc = dht_subvol_get_cached(c, f.n),
                     !.dh = Hashed[f.n2], !.dc = dht_subvol_get_cached(c, f.n2),
                     !.id = cache[c][f.n].id])

\* Any other fop.
Simple(f, c) ==
    LET sub == IF FileFops[f.op] = "all" THEN Sub ELSE {dht_subvol_get_cached(c, f.n)} \ {0}
    IN  IF sub = {} THEN Ends(f, EINVAL)
        ELSE Goes([f EXCEPT !.out = Req("fop", f.n, sub), !.id = cache[c][f.n].id])

\* What the kernel has looked up: a file of that name, that there is none.
Known(c) == {n \in File : cache[c][n].id > 0}
Missing(c) == {n \in File : cache[c][n] = Absent}

Entry(c, op) ==
    CASE op = "lookup" ->
           {IF Scheme = "nufa" THEN nufa_lookup(Frame(c, op, n, 0), c)
            ELSE IF Scheme = "dht" THEN dht_lookup(Frame(c, op, n, 0), c)
            ELSE switch_lookup(Frame(c, op, n, 0), c, s) : n \in File, s \in Sub}
      [] op = "create"  ->
           {CASE Scheme = "dht"    -> dht_create(Frame(c, op, n, 0), s)
              [] Scheme = "nufa"   -> nufa_create(Frame(c, op, n, 0), s)
              [] Scheme = "switch" -> switch_create(Frame(c, op, n, 0), s) :
              n \in Missing(c), s \in Sub}
      [] op = "mknod"   ->
           {CASE Scheme = "dht"    -> dht_mknod(Frame(c, op, n, 0), s)
              [] Scheme = "nufa"   -> nufa_mknod(Frame(c, op, n, 0), s)
              [] Scheme = "switch" -> switch_mknod(Frame(c, op, n, 0), s) :
              n \in Missing(c), s \in Sub}
      [] op = "symlink" -> {dht_symlink(Frame(c, op, n, 0)) : n \in Missing(c)}
      [] op = "unlink"  -> {dht_unlink(Frame(c, op, n, 0), c) : n \in Known(c)}
      [] op = "link"    ->
           {dht_link(Frame(c, op, n, n2), c) : n \in Known(c), n2 \in Missing(c)}
      [] op = "rename"  ->
           {dht_rename(Frame(c, op, p[1], p[2]), c) :
              p \in {q \in Known(c) \X (Known(c) \cup Missing(c)) :
                       cache[c][q[1]] # cache[c][q[2]]}}
      [] op = "readdirp" -> {dht_readdirp(Frame(c, op, 0, 0))}
      [] op = "readdir"  -> {dht_readdir(Frame(c, op, 0, 0))}
      [] OTHER -> {Simple(Frame(c, op, n, 0), c) : n \in Known(c)}

\* Something happens that the calls other than c's do not know of.
Upset(calls, c) ==
    [d \in Mount |-> IF d = c THEN calls[d] ELSE [calls[d] EXCEPT !.calm = FALSE]]

\* fuse after a callback: what the reply says of a name; after a rename the
\* old name is gone; after a failure the names are looked up again.
Told(c, f, r) ==
    LET ended == r.frame.op = "done"
    IN  [cache EXCEPT ![c] = [n \in File |->
           IF n = r.name THEN r.inode
           ELSE IF ended /\ n \in {f.n, f.n2} /\ r.frame.ret # 0 THEN NotCached
           ELSE IF ended /\ n = f.n /\ f.op = "rename" THEN Absent ELSE @[n]]]

\* What one of several clients knows of the name is not the truth any more.
Stale(c, n) ==
    Cardinality(Mount) > 1 /\
    IF cache[c][n].sub = 0 THEN \E s \in Sub : ent[s][n] # None
    ELSE ent[cache[c][n].sub][n] # Data(cache[c][n].id)

\* A rename gives up the file the new name had, unlink that of the name; also
\* one that the client does not know of (see Answer).
Gives(c, f) == CASE f.op = "unlink" -> {cache[c][f.n].id}
                 [] f.op = "rename" -> {cache[c][f.n2].id} \ {-1}
                 [] OTHER -> {}

Ask(c) ==
    /\ call[c].op = "done" /\ ncalls < MaxFileCalls
    /\ \E op \in FileOp : \E r \in Entry(c, op) :
         /\ call' = Upset([call EXCEPT ![c] = r.frame], c)
         /\ doomed' = doomed \cup Gives(c, [r.frame EXCEPT !.op = op])
         /\ spoilt' = (spoilt \/ (\E d \in Mount \ {c} : call[d].op # "done")
                             \/ (\E u \in reap : u[1] # c)
                             \/ \E n \in {r.frame.n, r.frame.n2} \cap File :
                                  op # "lookup" /\ Stale(c, n))
    /\ ncalls' = ncalls + 1
    /\ UNCHANGED <<ent, cache, reap, linked, ids, nfaults>>

\* What subvolume s does: the errno, the entry it replies with, its entries.
Exec(f, cbk, n, s) ==
    LET e   == IF n \in File THEN ent[s][n] ELSE None
        row == ent[s]
        is(errno, reply, new) == [errno |-> errno, reply |-> reply, row |-> new]
        put(new) == [row EXCEPT ![n] = new]
        old == row[f.n]
    IN  CASE cbk \in {"lookup", "local", "linkfile", "lookup_dir", "everywhere", "revalidate"} ->
               is(IF e = None THEN ENOENT ELSE 0, e, row)
          [] cbk = "link_mknod" ->
               IF e # None THEN is(EEXIST, e, row) ELSE is(0, e, put(LinkTo(0)))
          [] cbk = "link_xattr" ->
               IF e = None THEN is(ENOENT, e, row)
               ELSE is(0, e, IF IsLink(e) THEN put(LinkTo(f.to)) ELSE row)
          [] cbk \in {"create", "newfile"} ->
               IF e = None THEN is(0, Data(ids + 1), put(Data(ids + 1)))
               ELSE is(IF cbk = "create" THEN 0 ELSE EEXIST, e, row)
          [] cbk \in {"link", "rename_link"} ->
               IF old = None THEN is(ENOENT, e, row)
               ELSE IF e # None THEN is(EEXIST, e, row) ELSE is(0, old, put(old))
          [] cbk = "rename" ->
               IF old = None THEN is(ENOENT, e, row)
               ELSE is(0, old, IF IsData(old) /\ old = row[f.n2] THEN row
                               ELSE [row EXCEPT ![f.n2] = old, ![f.n] = None])
          [] cbk \in {"unlink", "rename_unlink"} ->
               IF e = None THEN is(ENOENT, e, row) ELSE is(0, e, put(None))
          [] cbk = "fop" ->
               IF FileFops[f.op] \in {"fd", "fd_layout"} THEN is(0, Data(f.id), row)
               ELSE IF FileFops[f.op] = "all" THEN is(0, None, row)
               ELSE is(IF e = None THEN ENOENT ELSE 0, e, row)
          [] OTHER -> is(0, None, row)

\* dht_linkfile_create_cbk, dht_linkfile_xattr_cbk: the attribute is next;
\* then the call goes on.
Linked(f, errno, sent) ==
    CASE f.op = "lookup" -> dht_lookup_linkfile_create_cbk(f, errno, sent)
      [] f.op = "create" -> IF Scheme = "nufa" THEN nufa_create_linkfile_create_cbk(f, errno)
                            ELSE IF Scheme = "dht" THEN dht_create_linkfile_create_cbk(f, errno)
                            ELSE switch_create_linkfile_create_cbk(f, errno)
      [] f.op = "mknod"  -> IF Scheme = "nufa" THEN nufa_mknod_linkfile_cbk(f, errno)
                            ELSE IF Scheme = "dht" THEN dht_mknod_linkfile_create_cbk(f, errno)
                            ELSE switch_mknod_linkfile_cbk(f, errno)
      [] f.op = "link"   -> dht_link_linkfile_cbk(f, errno)
      [] f.op = "rename" -> dht_rename_links_cbk(f, errno)

dht_linkfile_create_cbk(f, n, s, errno, sent) ==
    IF errno # 0 THEN Linked(f, errno, sent)
    ELSE Goes([f EXCEPT !.out = @ \cup Req("link_xattr", n, {s})])

dht_linkfile_xattr_cbk(f, errno) == Linked(f, errno, TRUE)

Callback(f, m, errno, e) ==
    LET cbk == m[1]
        s   == m[3]
    IN  CASE cbk = "lookup"      -> dht_lookup_cbk(f, s, errno, e)
          [] cbk = "local"       -> IF Scheme = "nufa" THEN nufa_local_lookup_cbk(f, s, errno, e)
                                    ELSE switch_local_lookup_cbk(f, s, errno, e)
          [] cbk = "linkfile"    -> dht_lookup_linkfile_cbk(f, s, errno, e)
          [] cbk = "lookup_dir"  -> dht_lookup_dir_cbk(f, errno, e)
          [] cbk = "everywhere"  -> dht_lookup_everywhere_cbk(f, s, errno, e)
          [] cbk = "revalidate"  -> dht_revalidate_cbk(f, s, errno, e)
          [] cbk = "link_mknod"  -> dht_linkfile_create_cbk(f, m[2], s, errno, m[4])
          [] cbk = "link_xattr"  -> dht_linkfile_xattr_cbk(f, errno)
          [] cbk = "create"      -> dht_create_cbk(f, s, errno, e)
          [] cbk = "newfile"     -> dht_newfile_cbk(f, s, errno, e)
          [] cbk = "link"        -> dht_link_cbk(f, s, errno, e)
          [] cbk = "unlink"      -> dht_unlink_cbk(f, errno)
          [] cbk = "rename_link" -> dht_rename_links_cbk(f, errno)
          [] cbk = "rename"      -> dht_rename_cbk(f, errno)
          [] cbk = "rename_unlink" -> dht_rename_unlink_cbk(f, errno)
          [] cbk = "readdirp"    ->
               dht_readdirp_cbk(f, s, errno, IF errno = 0 THEN Entries(s, m[2]) ELSE <<>>)
          [] cbk = "readdir"     ->
               dht_readdir_cbk(f, s, errno, IF errno = 0 THEN Entries(s, m[2]) ELSE <<>>)
          [] cbk = "fop"         ->
               Collect(IF errno = 0 THEN [f EXCEPT !.seen = Append(@, IdOf(e))] ELSE f, errno)

\* A request is executed and answered; over a broken link it may have been
\* executed, and the answer is that there is no connection.  A client's
\* requests reach a subvolume in the order they were sent.
Answer(c) ==
    /\ call[c].op # "done"
    /\ \E m \in call[c].out :
         LET s   == m[3]
             did == Exec(call[c], m[1], m[2], s)
             f   == [call[c] EXCEPT !.out = @ \ {m}]
             ok  == s \in linked /\ m[4]
             r   == Callback(f, m, IF ok THEN did.errno ELSE ENOTCONN, did.reply)
         IN  /\ \A u \in reap : ~ (u[1] = c /\ u[3] = s)
             /\ \/ /\ m[4]
                   /\ ent' = [ent EXCEPT ![s] = did.row]
                   /\ ids' = IF Data(ids + 1) \in {did.row[n] : n \in File}
                               THEN ids + 1 ELSE ids
                   /\ doomed' = doomed \cup
                        (CASE m[1] = "rename" -> {IdOf(ent[s][f.n2])} \ {0, f.id}
                           [] m[1] = "unlink" -> {IdOf(ent[s][f.n])} \ {0}
                           [] OTHER -> {})
                \/ ~ ok /\ UNCHANGED <<ent, ids, doomed>>
             /\ call' = [call EXCEPT ![c] = r.frame]
             /\ cache' = Told(c, f, r)
             /\ reap' = reap \cup {<<c, u[1], u[2]>> : u \in r.unlink}
    /\ UNCHANGED <<linked, spoilt, ncalls, nfaults>>

\* dht_linkfile_unlink, in a frame of its own that nobody waits for.
dht_linkfile_unlink(u) ==
    /\ reap' = reap \ {u}
    /\ IF u[3] \in linked THEN ent' = [ent EXCEPT ![u[3]][u[2]] = None]
       ELSE UNCHANGED ent
    /\ UNCHANGED <<cache, call, linked, ids, doomed, spoilt, ncalls, nfaults>>

Break(s) ==
    /\ s \in linked /\ nfaults < MaxFileFaults
    /\ linked' = linked \ {s} /\ nfaults' = nfaults + 1
    /\ call' = Upset(call, 0)
    /\ UNCHANGED <<ent, cache, reap, ids, doomed, spoilt, ncalls>>

Mend(s) ==
    /\ s \notin linked
    /\ linked' = linked \cup {s}
    /\ UNCHANGED <<ent, cache, call, reap, ids, doomed, spoilt, ncalls, nfaults>>

Next == \/ \E c \in Mount : Ask(c) \/ Answer(c)
        \/ \E u \in reap : dht_linkfile_unlink(u)
        \/ \E s \in Sub : Break(s) \/ Mend(s)

Spec == Init /\ [][Next]_fileVars

-----------------------------------------------------------------------------
FilesAt(n) == {s \in Sub : IsData(ent[s][n])}

\* No file is lost: one that was made, and that nobody asked to remove or to
\* replace, is on some subvolume under some name, after every step of every
\* call and whatever broke in the middle of one; calls did not overlap.
DataKept ==
    ~ spoilt => \A id \in 1 .. ids \ doomed : \E s \in Sub, n \in File : ent[s][n] = Data(id)

\* A lookup that was alone tells the truth: a file that it found is where the
\* inode says, and if a fresh one found none there is none, on any subvolume
\* where the unhashed ones are searched.
LookupFinds ==
    \A c \in Mount :
      LET f == call[c]
      IN  f.op = "done" /\ f.calm /\ f.was = "lookup" =>
            /\ f.ret = 0 /\ cache[c][f.n].sub # 0 => cache[c][f.n].sub \in FilesAt(f.n)
            /\ cache[c][f.n] = Absent /\ Unhashed => FilesAt(f.n) = {}

\* Where a fresh lookup finds the name without a search: its hashed
\* subvolume, or the one the link file there leads to.
Reach(n) ==
    LET e == ent[Hashed[n]][n]
    IN  IF Hashed[n] = 0 THEN 0
        ELSE IF IsData(e) THEN e[2]
        ELSE IF IsLink(e) /\ e[2] # 0 THEN IdOf(ent[e[2]][n]) ELSE 0

\* With no overlap and no fault a call that succeeded has done what it says,
\* for every client that looks the name up where it hashes to: the file made,
\* linked or renamed is found, and the name that was removed is not.
CallsTakeEffect ==
    \A c \in Mount :
      LET f == call[c]
      IN  f.op = "done" /\ f.calm /\ f.ret = 0 /\ ~ spoilt /\ nfaults = 0 =>
            /\ f.was \in {"create", "mknod", "symlink"} =>
                 Reach(f.n) = cache[c][f.n].id /\ Cardinality(FilesAt(f.n)) = 1
            /\ f.was \in {"link", "rename"} => Reach(f.n2) = cache[c][f.n2].id
            /\ f.was \in {"unlink", "rename"} => \A s \in Sub : ent[s][f.n] = None

\* A listing that was alone has every file and every directory once.
ListedOnce ==
    \A c \in Mount :
      LET f == call[c]
      IN  f.op = "done" /\ f.calm /\ f.was = "readdirp" /\ ~ spoilt /\ nfaults = 0 =>
            /\ ToSet(f.seen) = SubDirs \cup {n \in File : FilesAt(n) # {}}
            /\ Len(f.seen) = Cardinality(ToSet(f.seen))

\* A fop goes to the file of its inode, never to a link file of that name: the
\* subvolume that create, lookup, link and rename left with the inode is the
\* one that has the file, whatever broke in between (another client did not
\* change the name meanwhile).
FopOnItsFile ==
    \A c \in Mount :
      LET f == call[c]
      IN  f.op = "done" /\ f.ret = 0 /\ ~ spoilt /\ f.was \in DOMAIN FileFops /\ FileFops[f.was] # "all" =>
            f.seen = <<cache[c][f.n].id>>

\* A call that was not answered has a request on its way.
NeverForgotten == \A c \in Mount : call[c].op # "done" => call[c].out # {}
=============================================================================
