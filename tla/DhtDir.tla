-------------------------------- MODULE DhtDir -------------------------------
(***************************************************************************)
(* A directory of cluster/dht, kept on every subvolume, and the mkdir,     *)
(* lookup, rmdir and revalidate calls of several clients on it             *)
(* (dht-common.c, dht-selfheal.c).                                         *)
(*                                                                         *)
(* Every subvolume has its own copy of the directory with an interval of   *)
(* the hash ring as an extended attribute.  A call sends one request to    *)
(* several subvolumes and goes on in the callback of the last reply; the   *)
(* requests of all clients are executed in any order.  Links may break     *)
(* with requests on their way, which are then executed or not.             *)
(***************************************************************************)
EXTENDS DhtLayout

CONSTANTS Client,       \* the mounts
          N,            \* subvolumes 1..N; their names are in this order
          HashedDir,    \* the subvolume the directory's own name belongs to
          SearchUnhashed, \* option lookup-unhashed
          Fullness,     \* the sets of subvolumes a client may take for filled
          DirOp,        \* the calls in use
          MaxDirCalls, MaxDirFaults, MaxFiles

VARIABLES dir,          \* per subvolume: is it there, its interval, its entries
          up,           \* the subvolumes that are connected
          ctx,          \* per client: the layout in the inode, <<>> if none
          stale,        \* per client: conf->gen is ahead of the layout's gen
          call,         \* per client: the frame and its local
          ncalls, nfaults, nfiles

dirVars == <<dir, up, ctx, stale, call, ncalls, nfaults, nfiles>>

Sub == 1 .. N

NoDir == [here |-> FALSE, range |-> NoRange, files |-> 0]

\* A call that was answered; calm: nothing else happened since it was made,
\* when the directory was on the subvolumes had.
Done(f, ret) ==
    [op |-> "done", was |-> f.op, ret |-> ret, calm |-> f.calm,
     had |-> IF f.calm THEN f.had ELSE {}]
NoCall == [op |-> "done", was |-> "none", ret |-> 0, calm |-> FALSE, had |-> {}]

Init == /\ dir = [s \in Sub |-> NoDir]
        /\ up = Sub
        /\ ctx = [c \in Client |-> <<>>]
        /\ stale = [c \in Client |-> FALSE]
        /\ call = [c \in Client |-> NoCall]
        /\ ncalls = 0 /\ nfaults = 0 /\ nfiles = 0

-----------------------------------------------------------------------------
(* What the callbacks do to the frame of the call and to the inode.  A     *)
(* request on its way is <<the callback, the subvolume, was it sent>>.     *)

To(cbk, subs) == {<<cbk, s, s \in up>> : s \in subs}

Subs(list, P(_)) == {list[i].sub : i \in {j \in DOMAIN list : P(list[j])}}

\* set: the inode gets the layout of the call, and so its generation.
Result(f, inode, set) == [frame |-> f, inode |-> inode, set |-> set]

\* The call goes on, or is answered; the inode keeps its layout.
Goes(f) == Result(f, f.old, FALSE)
Ends(f, ret) == Result(Done(f, ret), f.old, FALSE)

dht_layout_set(f) == Result(Done(f, 0), f.list, TRUE)

\* dht_lookup_selfheal_cbk, dht_mkdir_selfheal_cbk: the healed layout becomes
\* the inode's; dht_rmdir_selfheal_cbk: the layout is the inode's.
dht_selfheal_dir_finish(f) ==
    IF f.op = "rmdir" THEN Result(Done(f, f.errno), f.list, FALSE)
    ELSE dht_layout_set(f)

\* The intervals are written on the directories that have none.
dht_selfheal_dir_xattr(f) ==
    LET todo == Subs(f.list, LAMBDA e : e.err = -1 /\ e.stop # 0)
    IN  IF todo = {} THEN dht_selfheal_dir_finish(f)
        ELSE Goes([f EXCEPT !.out = To("xattr", todo)])

\* The directories that are missing are made first.
dht_selfheal_dir_mkdir(f, force) ==
    LET todo == Subs(f.list, LAMBDA e : e.err = ENOENT \/ force)
    IN  IF todo = {} THEN dht_selfheal_dir_xattr(f)
        ELSE Goes([f EXCEPT !.out = To("heal_mkdir", todo)])

\* Nothing is repaired while a subvolume is down, full or in error.
dht_selfheal_directory(f) ==
    LET found == dht_layout_anomalies(f.list)
        named == dht_layout_sort_volname(f.list)
    IN  IF found.down > 0 \/ found.misc > 0 THEN dht_selfheal_dir_finish(f)
        ELSE dht_selfheal_dir_mkdir(
               [f EXCEPT !.list = dht_selfheal_dir_getafix(named, found)], FALSE)

dht_selfheal_new_directory(f) ==
    dht_selfheal_dir_xattr([f EXCEPT !.list =
        dht_selfheal_layout_new_directory(dht_layout_sort_volname(f.list))])

\* The directory again on every subvolume of the layout.
dht_selfheal_restore(f) == dht_selfheal_dir_mkdir([f EXCEPT !.list = f.old], TRUE)

SetErr(list, s, err) ==
    [i \in DOMAIN list |-> IF list[i].sub = s THEN [list[i] EXCEPT !.err = err]
                           ELSE list[i]]

LastReply(f) == f.out = {}

dht_selfheal_dir_mkdir_cbk(s, f, errno) ==
    LET g == IF errno \in {0, EEXIST}
               THEN [f EXCEPT !.list = SetErr(@, s, -1)] ELSE f
    IN  IF LastReply(f) THEN dht_selfheal_dir_xattr(g) ELSE Goes(g)

dht_selfheal_dir_xattr_cbk(s, f, errno) ==
    LET g == [f EXCEPT !.list = SetErr(@, s, errno)]
    IN  IF LastReply(f) THEN dht_selfheal_dir_finish(g) ELSE Goes(g)

-----------------------------------------------------------------------------
(* lookup                                                                  *)

dht_lookup_directory(f) ==
    Goes([f EXCEPT !.out = To("lookup_dir", Sub), !.list = <<>>, !.behind = FALSE,
                   !.ok = FALSE])

dht_lookup_everywhere(f) ==
    Goes([f EXCEPT !.out = To("everywhere", Sub), !.ok = FALSE])

\* The subvolume of the name is asked first; unless it says that the name is
\* not there, all are.
dht_lookup_cbk(f, errno) ==
    IF errno = ENOENT
      THEN IF SearchUnhashed THEN dht_lookup_everywhere(f)
           ELSE Ends(f, ENOENT)
      ELSE dht_lookup_directory(f)

\* The name is a directory if it is one anywhere.
dht_lookup_everywhere_cbk(f, errno) ==
    LET g == [f EXCEPT !.ok = @ \/ errno = 0]
    IN  IF ~ LastReply(f) THEN Goes(g)
        ELSE IF g.ok THEN dht_lookup_directory(g)
        ELSE Ends(f, ENOENT)

\* The replies make up a layout, which is repaired if need be.
dht_lookup_dir_cbk(s, f, errno, range) ==
    LET g == [f EXCEPT !.list = dht_layout_merge(@, s, errno, range),
                       !.ok = @ \/ errno = 0]
        h == [g EXCEPT !.list = dht_layout_sort(@)]
    IN  IF ~ LastReply(f) THEN Goes(g)
        ELSE IF ~ g.ok THEN Ends(f, ENOENT)
        ELSE IF dht_layout_normalize(h.list) THEN dht_selfheal_directory(h)
        ELSE dht_layout_set(h)

\* A known directory: its layout is compared with what the subvolumes have.
dht_revalidate_cbk(s, f, errno, range) ==
    LET g == IF errno # 0 THEN [f EXCEPT !.errno = errno]
             ELSE IF dht_layout_dir_mismatch(f.old, s, range)
             THEN [f EXCEPT !.mismatch = TRUE]
             ELSE [f EXCEPT !.ok = TRUE]
    IN  IF ~ LastReply(f) THEN Goes(g)
        ELSE Ends(f, IF g.mismatch THEN ESTALE
                     ELSE IF g.ok THEN 0 ELSE g.errno)

-----------------------------------------------------------------------------
(* mkdir and rmdir                                                         *)

\* What goes into the layout for the subvolume; a filled one is to get none.
MkdirErr(f, s, errno) ==
    IF s \in f.filled /\ (errno = 0 \/ s = HashedDir) THEN ENOSPC ELSE errno

\* The other subvolumes follow once the one of the name has the directory.
dht_mkdir_hashed_cbk(s, f, errno) ==
    LET g == [f EXCEPT !.list = dht_layout_merge(@, s, MkdirErr(f, s, errno), NoRange)]
    IN  IF errno # 0 THEN Ends(f, errno)
        ELSE IF N = 1 THEN dht_selfheal_directory(g)
        ELSE Goes([g EXCEPT !.out = To("mkdir", Sub \ {HashedDir})])

dht_mkdir_cbk(s, f, errno) ==
    LET g == [f EXCEPT !.list = dht_layout_merge(@, s, MkdirErr(f, s, errno), NoRange)]
    IN  IF LastReply(f) THEN dht_selfheal_new_directory(g) ELSE Goes(g)

dht_rmdir_do(f) ==
    IF f.errno # 0 THEN Ends(f, f.errno)
    ELSE Goes([f EXCEPT !.out = To("rmdir", Sub)])

dht_rmdir_readdir_cbk(f, errno, files) ==
    LET g == IF errno = 0 /\ files > 0 THEN [f EXCEPT !.errno = ENOTEMPTY] ELSE f
    IN  IF LastReply(f) THEN dht_rmdir_do(g) ELSE Goes(g)

\* A subvolume on which the directory cannot be opened is not read.
dht_rmdir_opendir_cbk(s, f, errno) ==
    IF errno = 0 THEN Goes([f EXCEPT !.out = @ \cup To("rmdir_readdir", {s})])
    ELSE IF LastReply(f) THEN dht_rmdir_do(f) ELSE Goes(f)

\* If it could not be removed everywhere the directory is put back.
dht_rmdir_cbk(f, errno) ==
    LET g == IF errno = 0 THEN f
             ELSE [f EXCEPT !.errno = errno, !.heal = @ \/ errno # ENOENT]
    IN  IF ~ LastReply(f) THEN Goes(g)
        ELSE IF g.heal THEN dht_selfheal_restore(g)
        ELSE Ends(f, g.errno)

-----------------------------------------------------------------------------
(* The calls                                                               *)

\* behind: conf->gen was counted up since the layout of the call was made.
Frame(c, op, out, filled) ==
    [op |-> op, out |-> out, list |-> <<>>, behind |-> FALSE, old |-> ctx[c], ok |-> FALSE, errno |-> 0,
     mismatch |-> FALSE, heal |-> FALSE, filled |-> filled,
     had |-> {s \in Sub : dir[s].here},
     calm |-> up = Sub /\ \A d \in Client \ {c} : call[d].op = "done"]

\* A known directory is revalidated, unless a subvolume came up since.
dht_lookup(c) ==
    IF ctx[c] # <<>> /\ ~ stale[c]
      THEN Frame(c, "revalidate", To("revalidate", {e.sub : e \in ToSet(ctx[c])}), {})
      ELSE Frame(c, "lookup", To("lookup", {HashedDir}), {})

dht_mkdir(c, filled) ==
    [Frame(c, "mkdir", To("mkdir_hashed", {HashedDir}), filled)
       EXCEPT !.calm = @ /\ \A s \in Sub : ~ dir[s].here]

dht_rmdir(c) == Frame(c, "rmdir", To("rmdir_opendir", Sub), {})

\* Something happens that the calls other than c's do not know of.
Upset(calls, c) ==
    [d \in Client |-> IF d = c THEN calls[d]
                      ELSE [calls[d] EXCEPT !.calm = FALSE, !.had = {}]]

Ask(c) ==
    /\ call[c].op = "done" /\ ncalls < MaxDirCalls
    /\ \/ /\ "lookup" \in DirOp
          /\ call' = Upset([call EXCEPT ![c] = dht_lookup(c)], c)
       \/ /\ "mkdir" \in DirOp /\ ctx[c] = <<>>
          /\ \E filled \in Fullness :
               call' = Upset([call EXCEPT ![c] = dht_mkdir(c, filled)], c)
       \/ /\ "rmdir" \in DirOp /\ ctx[c] # <<>>
          /\ call' = Upset([call EXCEPT ![c] = dht_rmdir(c)], c)
    /\ ncalls' = ncalls + 1
    /\ UNCHANGED <<dir, up, ctx, stale, nfaults, nfiles>>

\* The directory of subvolume s after a request, and the errno of the reply.
Exec(f, cbk, s) ==
    LET d == dir[s]
        is(errno, new) == [errno |-> errno, dir |-> new]
    IN  CASE cbk \in {"mkdir", "mkdir_hashed", "heal_mkdir"} ->
               IF d.here THEN is(EEXIST, d) ELSE is(0, [NoDir EXCEPT !.here = TRUE])
          [] cbk = "xattr" ->
               IF ~ d.here THEN is(ENOENT, d)
               ELSE is(0, [d EXCEPT !.range = dht_disk_layout_extract(
                             f.list[SelectInSeq(f.list, LAMBDA e : e.sub = s)])])
          [] cbk = "rmdir" ->
               IF ~ d.here THEN is(ENOENT, d)
               ELSE IF d.files > 0 THEN is(ENOTEMPTY, d) ELSE is(0, NoDir)
          [] cbk = "rmdir_readdir" -> is(0, d)
          [] OTHER -> is(IF d.here THEN 0 ELSE ENOENT, d)

Callback(f, cbk, s, errno, range, files) ==
    CASE cbk = "lookup"        -> dht_lookup_cbk(f, errno)
      [] cbk = "lookup_dir"    -> dht_lookup_dir_cbk(s, f, errno, range)
      [] cbk = "everywhere"    -> dht_lookup_everywhere_cbk(f, errno)
      [] cbk = "revalidate"    -> dht_revalidate_cbk(s, f, errno, range)
      [] cbk = "heal_mkdir"    -> dht_selfheal_dir_mkdir_cbk(s, f, errno)
      [] cbk = "xattr"         -> dht_selfheal_dir_xattr_cbk(s, f, errno)
      [] cbk = "mkdir_hashed"  -> dht_mkdir_hashed_cbk(s, f, errno)
      [] cbk = "mkdir"         -> dht_mkdir_cbk(s, f, errno)
      [] cbk = "rmdir_opendir" -> dht_rmdir_opendir_cbk(s, f, errno)
      [] cbk = "rmdir_readdir" -> dht_rmdir_readdir_cbk(f, errno, files)
      [] cbk = "rmdir"         -> dht_rmdir_cbk(f, errno)

\* A request is executed and answered; over a broken link it may have been
\* executed, and the answer is that there is no connection.
Answer(c) ==
    /\ call[c].op # "done"
    /\ \E m \in call[c].out :
         LET cbk == m[1]
             s   == m[2]
             did == Exec(call[c], cbk, s)
             f   == [call[c] EXCEPT !.out = @ \ {m}]
             ok  == s \in up /\ m[3]
             r   == Callback(f, cbk, s, IF ok THEN did.errno ELSE ENOTCONN,
                             did.dir.range, dir[s].files)
         IN  /\ \/ m[3] /\ dir' = [dir EXCEPT ![s] = did.dir]
                \/ ~ ok /\ UNCHANGED dir
             /\ call' = [call EXCEPT ![c] = r.frame]
             /\ ctx' = [ctx EXCEPT ![c] = r.inode]
             /\ stale' = [stale EXCEPT ![c] = IF r.set THEN f.behind ELSE @]
    /\ UNCHANGED <<up, ncalls, nfaults, nfiles>>

\* The inode is forgotten: also what the kernel does after ESTALE, when the
\* next lookup comes with a new inode.
dht_forget(c) ==
    /\ call[c].op = "done" /\ ctx[c] # <<>>
    /\ ctx' = [ctx EXCEPT ![c] = <<>>]
    /\ stale' = [stale EXCEPT ![c] = FALSE]
    /\ call' = [call EXCEPT ![c] = NoCall]
    /\ UNCHANGED <<dir, up, ncalls, nfaults, nfiles>>

\* A link breaks.
Break(s) ==
    /\ s \in up /\ nfaults < MaxDirFaults
    /\ up' = up \ {s} /\ nfaults' = nfaults + 1
    /\ call' = Upset(call, 0)
    /\ UNCHANGED <<dir, ctx, stale, ncalls, nfiles>>

\* CHILD_UP: conf->gen is counted up, the layouts made so far are old.
dht_notify(s) ==
    /\ s \notin up
    /\ up' = up \cup {s}
    /\ stale' = [c \in Client |-> ctx[c] # <<>>]
    /\ call' = [c \in Client |-> IF call[c].op = "done" THEN call[c]
                                 ELSE [call[c] EXCEPT !.behind = TRUE]]
    /\ UNCHANGED <<dir, ctx, ncalls, nfaults, nfiles>>

\* A file of the directory is made, by dht_create of any client.
MakeFile(s) ==
    /\ s \in up /\ dir[s].here /\ nfiles < MaxFiles
    /\ dir' = [dir EXCEPT ![s].files = @ + 1] /\ nfiles' = nfiles + 1
    /\ UNCHANGED <<up, ctx, stale, call, ncalls, nfaults>>

\* A new, empty subvolume, or one whose disk was replaced.
Replace(s) ==
    /\ \A c \in Client : call[c].op = "done"
    /\ dir[s].here /\ nfaults < MaxDirFaults
    /\ dir' = [dir EXCEPT ![s] = NoDir] /\ nfaults' = nfaults + 1
    /\ call' = Upset(call, 0)
    /\ UNCHANGED <<up, ctx, stale, ncalls, nfiles>>

Next == \/ \E c \in Client : Ask(c) \/ Answer(c) \/ dht_forget(c)
        \/ \E s \in Sub : Break(s) \/ dht_notify(s) \/ MakeFile(s) \/ Replace(s)

Spec == Init /\ [][Next]_dirVars

-----------------------------------------------------------------------------
Owners(hash) ==
    {s \in Sub : dir[s].range # NoRange /\ dir[s].range[1] <= hash
                                        /\ hash <= dir[s].range[2]}

\* A lookup that was alone, or a mkdir where there was no directory, leaves a directory whose intervals, as
\* they are on the subvolumes, give every hash to exactly one of them, and
\* the client's layout sends every hash but 0 there (an entry without an
\* interval is 0..0, which holds the hash 0).
LookupLeavesPartition ==
    \A c \in Client :
      call[c].op = "done" /\ call[c].calm /\ call[c].was \in {"lookup", "mkdir"}
      /\ call[c].ret = 0 =>
        \A h \in Ring : /\ Cardinality(Owners(h)) = 1
                        /\ h # 0 => dht_layout_search(ctx[c], h) \in Owners(h)

\* A revalidation that was alone and found no fault: the layout of the inode
\* is what the copies of the directory have.
RevalidateDetects ==
    \A c \in Client :
      call[c].op = "done" /\ call[c].calm /\ call[c].was = "revalidate"
      /\ call[c].ret = 0 /\ ctx[c] # <<>> =>
        \A i \in DOMAIN ctx[c] :
          LET e == ctx[c][i]
          IN  dir[e.sub].here /\ e.err = 0 =>
                dir[e.sub].range = dht_disk_layout_extract(e)

\* A rmdir that was alone, but for files made in the directory meanwhile,
\* removes it everywhere, or fails and leaves it where it was: what it had
\* removed by then is put back.
RmdirAllOrNothing ==
    \A c \in Client :
      call[c].op = "done" /\ call[c].calm /\ call[c].was = "rmdir" =>
        \/ \A s \in Sub : ~ dir[s].here
        \/ call[c].ret # 0 /\ \A s \in call[c].had : dir[s].here

\* A call that was not answered has a request on its way: no reply, in any
\* order and with any error, leaves a call that nothing continues.
NeverForgotten == \A c \in Client : call[c].op # "done" => call[c].out # {}
=============================================================================
