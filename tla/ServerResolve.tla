--------------------------- MODULE ServerResolve ---------------------------
(***************************************************************************)
(* How protocol/server finds the file a request names, and what the answers  *)
(* of the volume do to the inode table that all clients of a volume share    *)
(* (server-resolve.c, the callbacks of server-protocol.c, inode.c).  The      *)
(* root has one directory, "d", and that holds the names.  A request names a  *)
(* file by the handle of the directory and the entry in it (lookup, mknod,    *)
(* unlink, rename), by its own handle and the path (stat, inodelk), or is     *)
(* about the directory itself (lookup, mkdir, rmdir).  A handle is an inode   *)
(* number and a generation.  A request that is not found in the table is      *)
(* looked up component by component in the volume and resolved a second       *)
(* time.  The volume runs each operation at once, by path, and its answer is   *)
(* applied to the table later, so that answers to two operations may arrive   *)
(* in either order.                                                         *)
(*                                                                         *)
(* storage/posix gives every file a generation of its own, and the number of  *)
(* a removed file may be used again.  So a file is its generation here, and   *)
(* made[g] is the number of file g.  Two inode_t of the table for one file    *)
(* are taken as one.                                                        *)
(*                                                                         *)
(*   disk   the volume: name -> file, 0 for none                            *)
(*   table  the inode table:                                                *)
(*            hash    number -> file, 0 for none: inode_hash                 *)
(*            attic   files that another one pushed out of the hash          *)
(*            dentry  triples directory, name, file; the root is 0           *)
(*            forgot  files whose nlookup is 0: retired with their last use    *)
(*            late    history: files linked by an answer that was no longer    *)
(*                    true                                                  *)
(*   rq     requests: [st |-> "free"] or                                    *)
(*            op, names (one or two), by (the handle: a file)                *)
(*            now     the name being resolved: 1 or 2                        *)
(*            err     for each name "ok", "ENOENT" or "EEXIST"               *)
(*            inode   loc.inode, 0 if there is none                         *)
(*            parent  parent of loc and loc2                                *)
(*            comp    the inodes the component lookups found                 *)
(*            reval   is_revalidate                                         *)
(*            got     what the volume answered: file, 0 for an error          *)
(*            there   history: the file it names has been in the volume,      *)
(*                    under that name, since it arrived                     *)
(*            alone   history: no other request has been in progress         *)
(*            misled  history: refused because of an inode in table.late      *)
(*   asked  requests so far                                                 *)
(***************************************************************************)
EXTENDS Naturals, Sequences, FiniteSets

CONSTANTS Name, Ino, Made0, Disk0, Slot, MaxAsked

VARIABLES disk, made, table, rq, asked

resolveVars == <<disk, made, table, rq, asked>>

DirIno == 0            \* the number of every directory "d"
Path == Name \cup {"d"}
Root == 0

Free == [st |-> "free"]
Busy == {q \in Slot : rq[q] # Free}

Init ==
    /\ disk = Disk0
    /\ made = Made0
    /\ table = [hash |-> [i \in Ino \cup {DirIno} |-> 0], attic |-> {}, dentry |-> {},
                forgot |-> {}, late |-> {}]
    /\ rq = [q \in Slot |-> Free]
    /\ asked = 0

\* The type each decoder asks for.
Type(r) ==
    CASE r.op = "lookup" -> "DONTCARE"
      [] r.op \in {"mknod", "mkdir"} -> "NOT"
      [] r.op = "rename" /\ r.now = 2 -> "MAY"
      [] r.op = "inodelk" -> "EXACT"
      [] OTHER -> "MUST"

Name1(r) == r.names[1]
Now(r) == r.names[r.now]

(***************************************************************************)
(* The inode table.                                                        *)
(***************************************************************************)
Hashed(T) == {T.hash[i] : i \in DOMAIN T.hash} \ {0}
Known(T) == Hashed(T) \cup T.attic

Entries(T, p, n) == {e \in T.dentry : e[1] = p /\ e[2] = n}

inode_grep(p, n) ==
    IF Entries(table, p, n) = {} THEN 0 ELSE (CHOOSE e \in Entries(table, p, n) : TRUE)[3]

\* Without a generation: the hashed inode of that number.  With one: that one,
\* from the hash or the attic.
inode_get(i, g) == IF g = 0 THEN table.hash[i] ELSE IF g \in Known(table) THEN g ELSE 0

\* A dentry refers to its parent, a request to all it found.
InUse(T, R) ==
    LET held(r) == IF r = Free THEN {} ELSE {r.inode, r.parent[1], r.parent[2]} \cup r.comp
    IN  {e[1] : e \in T.dentry} \cup UNION {held(R[q]) : q \in Slot}

\* The inode an answer with file g is linked to, when it came for a new inode_t:
\* the one that has the number, unless that is of an older generation.
Linked(T, g) == IF T.hash[made[g]] > g THEN T.hash[made[g]] ELSE g

\* g gets its number in the hash; who had it moves to the attic.
Hash(T, g) ==
    LET old == T.hash[made[g]]
    IN  [T EXCEPT !.hash[made[g]] = g,
                  !.attic = (@ \cup {old}) \ {0, g}]

\* __inode_link with a parent, and inode_lookup: new says that the answer came
\* for a new inode_t, and true whether the volume has g under that name.
inode_link(T, g, new, p, n, true) ==
    LET i == IF new THEN Linked(T, g) ELSE g
        H == IF new /\ i = g THEN Hash(T, g) ELSE T
    IN  [H EXCEPT !.dentry = (@ \ Entries(T, p, n)) \cup {<<p, n, i>>},
                  !.forgot = @ \ {i},
                  !.late = IF true THEN @ \ {i} ELSE @ \cup {i}]

\* Dentries are found by the number of the parent.
inode_unlink(T, g, n) ==
    {[T EXCEPT !.dentry = @ \ {e}] : e \in {e \in T.dentry : e[2] = n /\ e[3] = g}}
    \cup {U \in {T} : \A e \in T.dentry : <<e[2], e[3]>> # <<n, g>>}

\* __inode_retire
Retired(T, I) ==
    [T EXCEPT !.hash = [i \in DOMAIN @ |-> IF @[i] \in I THEN 0 ELSE @[i]],
              !.attic = @ \ I, !.forgot = @ \ I, !.late = @ \ I,
              !.dentry = {e \in @ : e[3] \notin I}]

\* inode_unref by a request that is over: what nobody has looked up and nobody
\* uses is retired, and perhaps the directory with its last dentry.
inode_unref(T, R) ==
    LET U == Retired(T, T.forgot \ InUse(T, R))
    IN  Retired(U, U.forgot \ InUse(U, R))

(***************************************************************************)
(* Resolving one name: the error it leaves, the inodes of the loc, and       *)
(* whether looking the path up in the volume may still help.                *)
(***************************************************************************)
Outcome(r, e, p, i, deep) ==
    [req |-> [r EXCEPT !.err[r.now] = e, !.parent[r.now] = p,
                       !.inode = IF r.now = 1 THEN i ELSE @],
     deep |-> deep]

\* An inode of another generation decides: the handle is taken for stale.
Stale(r, i) ==
    Outcome([r EXCEPT !.misled = @ \/ (r.now = 1 /\ i \in table.late)], "ENOENT", 0, 0, FALSE)

\* The parent the table has for the handle of the request, 0 for none; the root
\* is always there.
Parent(r) == IF Now(r) = "d" THEN Root ELSE inode_get(DirIno, 0)

\* Mutant of resolve_entry_simple: an entry that is not in the table is not
\* looked up in the volume.
entry_table_only(r) ==
    LET p == Parent(r)
        i == inode_grep(p, Now(r))
        type == Type(r)
        found == p # 0 \/ Now(r) = "d"
        stale == Now(r) # "d" /\ p # r.by
    IN  CASE ~ found -> Outcome(r, "ENOENT", p, 0, TRUE)
          [] found /\ stale -> Stale(r, p)
          [] found /\ ~ stale /\ i = 0 ->
                 Outcome(r, IF type = "MUST" THEN "ENOENT" ELSE "ok", p, 0, FALSE)
          [] found /\ ~ stale /\ i # 0 /\ type = "NOT" -> Outcome(r, "EEXIST", p, 0, FALSE)
          [] OTHER -> Outcome(r, "ok", p, i, FALSE)

resolve_entry_simple(r) ==
    LET p == Parent(r)
        i == inode_grep(p, Now(r))
        type == Type(r)
        found == p # 0 \/ Now(r) = "d"
        stale == Now(r) # "d" /\ p # r.by
    IN  CASE ~ found -> Outcome(r, "ENOENT", p, 0, TRUE)
          [] found /\ stale -> Stale(r, p)
          [] found /\ ~ stale /\ i = 0 /\ type \in {"DONTCARE", "NOT"} ->
                 Outcome(r, "ok", p, 0, FALSE)
          [] found /\ ~ stale /\ i = 0 /\ type = "MAY" -> Outcome(r, "ok", p, 0, TRUE)
          [] found /\ ~ stale /\ i = 0 /\ type = "MUST" -> Outcome(r, "ENOENT", p, 0, TRUE)
          [] found /\ ~ stale /\ i # 0 /\ type = "NOT" -> Outcome(r, "EEXIST", p, 0, FALSE)
          [] OTHER -> Outcome(r, "ok", p, i, FALSE)

\* A lock asks for the exact inode, which may be in the attic.
resolve_inode_simple(r) ==
    LET i == inode_get(made[r.by], IF Type(r) = "EXACT" THEN r.by ELSE 0)
    IN  CASE i = 0 -> Outcome(r, "ENOENT", 0, 0, TRUE)
          [] i # 0 /\ i # r.by -> Stale(r, i)
          [] OTHER -> Outcome(r, "ok", 0, i, FALSE)

ByInode == {"stat", "inodelk"}

Simple(r) == IF r.op \in ByInode THEN resolve_inode_simple(r) ELSE resolve_entry_simple(r)

(***************************************************************************)
(* Requests.                                                               *)
(***************************************************************************)
\* What a request is after is in the volume: the directory of the handle and the
\* name in it, or the file of the handle.
Holds(D, op, names, by) ==
    IF op \in ByInode THEN D[names[1]] = by
    ELSE D[names[1]] # 0 /\ (names[1] = "d" \/ D["d"] = by)

Arrive(q, op, names, by) ==
    /\ rq[q] = Free /\ asked < MaxAsked
    /\ LET r == [st |-> "try", op |-> op, names |-> names, by |-> by, now |-> 1,
                 err |-> [i \in 1 .. 2 |-> "ok"], inode |-> 0, parent |-> <<0, 0>>, comp |-> {},
                 reval |-> 0, got |-> 0, misled |-> FALSE, alone |-> Busy = {},
                 there |-> Holds(disk, op, names, by)]
       IN  rq' = [p \in Slot |-> IF p = q THEN r
                                 ELSE IF rq[p] = Free THEN Free
                                 ELSE [rq[p] EXCEPT !.alone = FALSE]]
    /\ asked' = asked + 1
    /\ UNCHANGED <<disk, made, table>>

\* server_resolve_entry and server_resolve_inode, first attempt.
server_resolve(q) ==
    /\ rq[q].st = "try"
    /\ LET s == Simple(rq[q])
       IN  rq' = [rq EXCEPT ![q] =
             IF s.deep THEN [s.req EXCEPT !.st = "deep", !.parent[rq[q].now] = 0]
             ELSE [s.req EXCEPT !.st = "resolved"]]
    /\ UNCHANGED <<disk, made, table, asked>>

\* resolve_path_deep: the root is looked up, then the directory.
resolve_path_deep(q) ==
    /\ rq[q].st = "deep"
    /\ rq' = [rq EXCEPT ![q].st = "deep d", ![q].got = disk["d"]]
    /\ UNCHANGED <<disk, made, table, asked>>

\* resolve_deep_cbk for the directory: the last component is looked up in it.
resolve_deep_cbk_dir(q) ==
    /\ rq[q].st = "deep d"
    /\ LET g == rq[q].got
           i == Linked(table, g)
       IN  IF g = 0
           THEN /\ rq' = [rq EXCEPT ![q].st = "again"]
                /\ UNCHANGED table
           ELSE /\ table' = inode_link(table, g, TRUE, Root, "d", disk["d"] = g)
                /\ rq' = [rq EXCEPT ![q].comp = @ \cup {i}, ![q].parent[rq[q].now] = i,
                                    ![q].st = IF Now(rq[q]) = "d" THEN "again" ELSE "deep last"]
    /\ UNCHANGED <<disk, made, asked>>

\* The volume looks the last component up, by path.
LookupComponent(q) ==
    /\ rq[q].st = "deep last"
    /\ rq' = [rq EXCEPT ![q].st = "deep answer", ![q].got = disk[Now(rq[q])]]
    /\ UNCHANGED <<disk, made, table, asked>>

resolve_deep_cbk(q) ==
    /\ rq[q].st = "deep answer"
    /\ LET g == rq[q].got
           n == Now(rq[q])
       IN  IF g = 0
           THEN /\ rq' = [rq EXCEPT ![q].st = "again"]
                /\ UNCHANGED table
           ELSE /\ table' = inode_link(table, g, TRUE, rq[q].parent[rq[q].now], n, disk[n] = g)
                /\ rq' = [rq EXCEPT ![q].st = "again", ![q].comp = @ \cup {Linked(table, g)}]
    /\ UNCHANGED <<disk, made, asked>>

resolve_deep_continue(q) ==
    /\ rq[q].st = "again"
    /\ rq' = [rq EXCEPT ![q] = [Simple(rq[q]).req EXCEPT !.st = "resolved", !.got = 0]]
    /\ UNCHANGED <<disk, made, table, asked>>

\* The second name after the first, whatever became of it; then the resume
\* function, which winds only if every name was resolved.
server_resolve_all(q) ==
    /\ rq[q].st = "resolved"
    /\ LET r == rq[q]
       IN  rq' = [rq EXCEPT ![q] =
             IF r.now < Len(r.names) THEN [r EXCEPT !.st = "try", !.now = 2]
             ELSE IF \E i \in 1 .. 2 : r.err[i] # "ok" THEN [r EXCEPT !.st = "refused"]
             ELSE [r EXCEPT !.st = "wind",
                            !.reval = IF r.op = "lookup" /\ r.inode # 0 THEN 1 ELSE 0]]
    /\ UNCHANGED <<disk, made, table, asked>>

\* The request is over.
Drop(q, T) ==
    LET R == [rq EXCEPT ![q] = Free]
    IN  /\ rq' = R
        /\ table' = inode_unref(T, R)

Refuse(q) ==
    /\ rq[q].st = "refused"
    /\ Drop(q, table)
    /\ UNCHANGED <<disk, made, asked>>

(***************************************************************************)
(* The volume (external): each operation at once, by path.                  *)
(***************************************************************************)
OnDisk == {made[disk[n]] : n \in {m \in Path : disk[m] # 0}}

\* A new file under name n, with a generation and a number of its own
Creates(n, numbers) ==
    {[d |-> [disk EXCEPT ![n] = Len(made) + 1], m |-> Append(made, i), got |-> Len(made) + 1] :
       i \in numbers \ OnDisk}

Changes(d, got) == {[d |-> d, m |-> made, got |-> got]}

Effect(r) ==
    LET n == Name1(r)
        fails == Changes(disk, 0)
    IN  CASE r.op \in {"lookup", "stat", "inodelk"} -> Changes(disk, disk[n])
          [] r.op = "mknod" -> IF disk[n] # 0 \/ disk["d"] = 0 THEN fails ELSE Creates(n, Ino)
          [] r.op = "mkdir" -> IF disk[n] # 0 THEN fails ELSE Creates(n, {DirIno})
          [] r.op = "unlink" -> Changes([disk EXCEPT ![n] = 0], disk[n])
          [] r.op = "rmdir" -> IF \E m \in Name : disk[m] # 0 THEN fails
                               ELSE Changes([disk EXCEPT ![n] = 0], disk[n])
          [] OTHER -> IF disk[n] = 0 THEN fails
                      ELSE Changes([disk EXCEPT ![r.names[2]] = disk[n], ![n] = 0], disk[n])

Execute(q) ==
    /\ rq[q].st = "wind"
    /\ \E e \in Effect(rq[q]) :
           /\ disk' = e.d
           /\ made' = e.m
           /\ rq' = [p \in Slot |->
                       IF rq[p] = Free THEN Free
                       ELSE LET s == rq[p]
                                r == [s EXCEPT !.there = @ /\ e.d[Name1(s)] = disk[Name1(s)]
                                                           /\ Holds(e.d, s.op, s.names, s.by)]
                            IN  IF p = q THEN [r EXCEPT !.st = "answer", !.got = e.got] ELSE r]
    /\ UNCHANGED <<table, asked>>

(***************************************************************************)
(* The callbacks.                                                          *)
(***************************************************************************)
\* A revalidating lookup links the inode it came with, whatever file the volume
\* has there now.
server_lookup_cbk(q) ==
    LET r == rq[q]
        n == Name1(r)
    IN  \/ /\ r.reval = 1 /\ r.got = 0
           /\ rq' = [rq EXCEPT ![q].reval = 2, ![q].st = "wind"]
           /\ UNCHANGED table
        \/ /\ r.reval = 1 /\ r.got # 0
           /\ Drop(q, inode_link(table, r.inode, FALSE, r.parent[1], n, disk[n] = r.inode))
        \/ /\ r.reval # 1 /\ r.got # 0
           /\ Drop(q, inode_link(table, r.got, TRUE, r.parent[1], n, disk[n] = r.got))
        \/ /\ r.reval = 2 /\ r.got = 0
           /\ \E T \in inode_unlink(table, r.inode, n) : Drop(q, T)
        \/ /\ r.reval = 0 /\ r.got = 0
           /\ Drop(q, table)

\* server_mknod_cbk and server_mkdir_cbk
server_mknod_cbk(q) ==
    LET r == rq[q]
        n == Name1(r)
    IN  Drop(q, IF r.got = 0 THEN table
                ELSE inode_link(table, r.got, TRUE, r.parent[1], n, disk[n] = r.got))

\* server_unlink_cbk and server_rmdir_cbk: an inode without a dentry is forgotten.
server_unlink_cbk(q) ==
    LET r == rq[q]
        Forgets(T) == IF \E e \in T.dentry : e[3] = r.inode THEN T
                      ELSE [T EXCEPT !.forgot = @ \cup {r.inode}]
    IN  IF r.got = 0 THEN Drop(q, table)
        ELSE \E T \in inode_unlink(table, r.inode, Name1(r)) : Drop(q, Forgets(T))

\* inode_rename: linked under the new name, then taken from the old.
server_rename_cbk(q) ==
    LET r == rq[q]
        m == r.names[2]
        both == inode_link(table, r.inode, FALSE, r.parent[2], m, disk[m] = r.inode)
    IN  IF r.got = 0 THEN Drop(q, table)
        ELSE \E T \in inode_unlink(both, r.inode, Name1(r)) : Drop(q, T)

Callback(q) ==
    /\ rq[q].st = "answer"
    /\ \/ rq[q].op = "lookup" /\ server_lookup_cbk(q)
       \/ rq[q].op \in {"mknod", "mkdir"} /\ server_mknod_cbk(q)
       \/ rq[q].op \in {"unlink", "rmdir"} /\ server_unlink_cbk(q)
       \/ rq[q].op = "rename" /\ server_rename_cbk(q)
       \/ rq[q].op \in ByInode /\ Drop(q, table)
    /\ UNCHANGED <<disk, made, asked>>

\* An inode that nobody uses falls off the end of the table's lru list.
inode_table_prune(g) ==
    /\ g \in Known(table) \ InUse(table, rq)
    /\ table' = inode_unref(Retired(table, {g}), rq)
    /\ UNCHANGED <<disk, made, rq, asked>>

\* A client's handle of the directory, or of a file, is one it was once given.
Calls ==
    LET of(numbers) == {g \in DOMAIN made : made[g] \in numbers}
        two == {p \in Name \X Name : p[1] # p[2]}
    IN  {<<op, <<n>>, g>> : op \in {"lookup", "mknod", "unlink"}, n \in Name, g \in of({DirIno})}
        \cup {<<"rename", p, g>> : p \in two, g \in of({DirIno})}
        \cup {<<op, <<n>>, g>> : op \in ByInode, n \in Name, g \in of(Ino)}
        \cup {<<op, <<"d">>, 0>> : op \in {"lookup", "mkdir", "rmdir"}}

Next ==
    \/ \E q \in Slot, c \in Calls : Arrive(q, c[1], c[2], c[3])
    \/ \E q \in Busy :
           \/ server_resolve(q) \/ resolve_path_deep(q) \/ resolve_deep_cbk_dir(q)
           \/ LookupComponent(q) \/ resolve_deep_cbk(q) \/ resolve_deep_continue(q)
           \/ server_resolve_all(q) \/ Refuse(q) \/ Execute(q) \/ Callback(q)
    \/ \E g \in DOMAIN made : inode_table_prune(g)

Spec == Init /\ [][Next]_resolveVars

(***************************************************************************)
(* Properties.                                                             *)
(***************************************************************************)
\* A file that is in the volume is found: whatever the table's limit and earlier
\* requests did to the table, a request that is the only one in progress is
\* refused with ENOENT only if the volume does not have what it names.  The one
\* exception is a refusal by the generation check, where the table holds the
\* number of the handle for a file that an answer put there which had been
\* overtaken when it was applied (resolve_entry_simple, resolve_inode_simple).
NoFalseEnoent ==
    \A q \in Busy :
        rq[q].st = "refused" /\ rq[q].err[1] = "ENOENT" /\ rq[q].alone /\ rq[q].there
          => rq[q].misled

\* The table never names an inode it does not hold, one inode has a number, and
\* an inode in use by a request stays in the table.
EntriesKnown ==
    /\ \A e \in table.dentry : e[1] \in Known(table) \cup {Root} /\ e[3] \in Known(table)
    /\ \A e, f \in table.dentry : e[1] = f[1] /\ e[2] = f[2] => e = f
    /\ \A q \in Busy : {rq[q].inode, rq[q].parent[1], rq[q].parent[2]} \ {0} \subseteq Known(table)
=============================================================================
