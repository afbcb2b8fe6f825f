------------------------------- MODULE Posix -------------------------------
(***************************************************************************)
(* storage/posix (xlators/storage/posix/src/posix.c): the operations of     *)
(* PosixFops run one system call at a time, as the threads of io-threads    *)
(* interleave them, over one directory of the local file system.  Calls on  *)
(* one open file are never concurrent, which is what io-threads (OrderKept  *)
(* of IoThreads) or the server's single thread gives this translator.       *)
(* Any system call may fail, and the process may die and be started again.  *)
(***************************************************************************)
EXTENDS Integers, FiniteSets, PosixFops

CONSTANTS
    PosixName,      \* the names in the directory
    Landfill,       \* those of them that are in the landfill
    PosixReq,       \* the operations that can run at the same time
    Fd,             \* the fd_t objects
    Descs,          \* how many descriptors the process may have open
    MaxFiles,       \* how many files can be made
    MaxFaults, MaxOps, MaxBoots,
    Width,          \* bits of an xattrop counter (32 in the code)
    GenPerBoot,     \* generation numbers between two starts (2^32 in the code)
    PosixFop        \* the operations callers use, a subset of DOMAIN fops

VARIABLES
    entry,      \* the directory: the file a name stands for, or Absent
    file,       \* the files made so far: type, generation, counter
    desc,       \* the process' descriptors: file and position
    fd,         \* fd_t objects with what posix keeps in their context
    op,         \* the operations in progress
    gen_seq,    \* priv->gen_seq
    janitor,    \* priv->janitor_fds
    nr_files,   \* priv->stats.nr_files
    used,       \* system calls that failed, operations called, starts
    added,      \* the sum of the increments every file's counter was given
    spoilt      \* some open failed after its context was set

posixVars == <<entry, file, desc, fd, op, gen_seq, janitor, nr_files, used,
               added, spoilt>>
kernel == <<entry, file, desc>>

Absent == 0
Closed == [file |-> Absent, pos |-> 0]
NoPfd == [st |-> "free", d |-> 0, dir |-> FALSE]
PosixIdle == [st |-> "idle"]
Running == {r \in PosixReq : op[r].st # "idle"}
Opens == {"open", "create", "opendir"}

Init ==
    /\ entry = [n \in PosixName |-> Absent]
    /\ file = <<>>
    /\ desc = [d \in 1 .. Descs |-> Closed]
    /\ fd = [f \in Fd |-> NoPfd]
    /\ op = [r \in PosixReq |-> PosixIdle]
    /\ gen_seq = GenPerBoot
    /\ janitor = <<>>
    /\ nr_files = 0
    /\ used = [faults |-> 0, ops |-> 0, boots |-> 1]
    /\ added = <<>>
    /\ spoilt = FALSE

-----------------------------------------------------------------------------
(* A caller asks for an operation.                                         *)
ByFd(prog) == \E k \in DOMAIN prog : prog[k] = Ctx[1]
Names(q) == {q.path, q.path2}

UsesFd(q) == ByFd(q.prog) \/ q.op \in Opens

Start(r) ==
    /\ op[r].st = "idle"
    /\ used.ops < MaxOps
    /\ \E name \in PosixFop : \E prog \in fops[name] :
       \E path \in PosixName, path2 \in PosixName, f \in Fd, off \in 0 .. 1 :
         LET with == {s \in Running : Names(op[s]) \cap {path, path2} # {}}
             q == [st |-> "run", op |-> name, prog |-> prog, pc |-> 1,
                   path |-> path, path2 |-> path2, fd |-> f, off |-> off,
                   ret |-> TRUE, noted |-> FALSE, present |-> TRUE,
                   d |-> 0, drawn |-> 0, held |-> 0, count |-> 0, got |-> -1,
                   alone |-> with = {}, before |-> entry]
         IN  /\ path2 # path => name \in {"rename", "link"}
             /\ off # 0 => name \in {"readv", "writev", "rchecksum"}
             /\ IF UsesFd(q)
                THEN /\ fd[f].st = IF name \in Opens THEN "free" ELSE "given"
                     /\ \A s \in Running : UsesFd(op[s]) => op[s].fd # f
                ELSE f = CHOOSE x \in Fd : TRUE
             /\ op' = [s \in PosixReq |->
                         IF s = r THEN q
                         ELSE IF s \in with THEN [op[s] EXCEPT !.alone = FALSE]
                         ELSE op[s]]
    /\ used' = [used EXCEPT !.ops = @ + 1]
    /\ UNCHANGED <<kernel, fd, gen_seq, janitor, nr_files, added, spoilt>>

-----------------------------------------------------------------------------
(* The system calls (external): what a call returns and leaves behind.     *)
On(q) ==
    LET c == q.prog[q.pc] IN
    CASE c.on = "path" -> entry[q.path]
      [] c.on = "path2" -> entry[q.path2]
      [] OTHER -> IF q.d = 0 THEN Absent ELSE desc[q.d].file

TypeOf(i) == IF i = Absent THEN "none" ELSE file[i].type

NewType(sys) ==
    CASE sys \in {"mkdir", "entry_mkdir"} -> "dir"
      [] sys \in {"symlink", "entry_symlink"} -> "lnk"
      [] OTHER -> "reg"
Makes(sys) == sys \in {"mknod", "mkdir", "symlink", "open_excl", "open_creat",
                      "entry_mknod", "entry_mkdir", "entry_symlink"}
Stats(sys) == sys \in {"lstat", "fstat"}
OpensFile(sys) == sys \in {"open", "open_excl", "open_creat", "opendir"}
FreeDesc == {d \in DOMAIN desc : desc[d] = Closed}

\* The reasons for which the kernel refuses the call.
Refused(q) ==
    LET sys == q.prog[q.pc].sys
        on == q.prog[q.pc].on
        i == On(q)
        old == entry[q.path]
    IN  \/ sys \in {"mknod", "mkdir", "symlink", "open_excl"} /\ i # Absent
        \/ sys \in {"entry_mknod", "entry_mkdir", "entry_symlink"}
             /\ i # Absent /\ TypeOf(i) # NewType(sys)
        \/ Makes(sys) /\ i = Absent /\ Len(file) = MaxFiles
        \/ OpensFile(sys) /\ FreeDesc = {}
        \/ sys \in {"open", "open_creat"} /\ TypeOf(i) = "dir"
        \/ sys = "opendir" /\ TypeOf(i) # "dir"
        \/ sys = "isdir" /\ ~fd[q.fd].dir
        \/ sys = "ctx" /\ fd[q.fd].d = 0
        \/ sys = "readlink" /\ TypeOf(i) # "lnk"
        \/ sys = "truncate" /\ TypeOf(i) # "reg"
        \/ sys = "unlink" /\ TypeOf(i) = "dir"
        \/ sys = "rmdir" /\ TypeOf(i) # "dir"
        \/ sys = "link" /\ (TypeOf(old) \in {"none", "dir"} \/ i # Absent)
        \/ sys = "rename"
             /\ \/ old = Absent
                \/ i # Absent /\ (TypeOf(i) = "dir") # (TypeOf(old) = "dir")
        \/ sys = "enosys"
        \/ /\ on # "parent" /\ i = Absent
           /\ ~Makes(sys)
           /\ sys \notin {"link", "rename", "ctx", "isdir", "setctx", "count",
                          "statvfs", "enosys", "scan"}

\* The call is done; op_ret is 0.
Done(q) == [q EXCEPT !.ret = TRUE, !.drawn = 0, !.pc = @ + 1]

\* It failed, with ENOENT or with another error.
Failed(q, enoent) ==
    LET fails == q.prog[q.pc].fails
        p == [q EXCEPT !.drawn = 0, !.held = 0]
    IN  CASE fails = "fail" -> [p EXCEPT !.ret = FALSE, !.st = "out"]
          [] fails = "errno" -> [p EXCEPT !.ret = FALSE, !.st = "out", !.present = TRUE]
          [] fails = "last" -> [p EXCEPT !.st = "out"]
          [] fails = "note" -> [p EXCEPT !.noted = TRUE, !.pc = @ + 1]
          [] fails = "probe" -> [p EXCEPT !.ret = FALSE, !.pc = @ + 1,
                                          !.present = @ /\ ~enoent]
          [] fails = "skip" -> [p EXCEPT !.pc = @ + 1]

Goes(r, q) == op' = [op EXCEPT ![r] = q]

\* posix_lstat_with_gen, posix_fstat_with_gen: a file without a generation is
\* given the number drawn under gen_lock by a call of its own.
StatWithGen(r, q, i) ==
    IF q.drawn # 0
    THEN /\ file' = [file EXCEPT ![i].gen = q.drawn]
         /\ Goes(r, Done(q))
         /\ UNCHANGED gen_seq
    ELSE IF q.prog[q.pc].on = "parent" \/ file[i].gen # 0
    THEN /\ Goes(r, Done(q))
         /\ UNCHANGED <<file, gen_seq>>
    ELSE /\ gen_seq' = gen_seq + 1
         /\ Goes(r, [q EXCEPT !.drawn = gen_seq'])
         /\ UNCHANGED file

\* A listing gives every entry it stats a generation.
Scan(r, q) ==
    LET S == {i \in {entry[n] : n \in PosixName} : i # Absent /\ file[i].gen = 0}
    IN  IF S = {} THEN Goes(r, Done(q)) /\ UNCHANGED <<file, gen_seq>>
        ELSE /\ gen_seq' = gen_seq + 1
             /\ \E i \in S : file' = [file EXCEPT ![i].gen = gen_seq']
             /\ UNCHANGED op

OpenOrMake(r, q, i, sys) ==
    LET new == Makes(sys) /\ i = Absent
        id == IF new THEN Len(file) + 1 ELSE i
        d == CHOOSE d \in FreeDesc : TRUE
    IN  /\ file' = IF new THEN Append(file, [type |-> NewType(sys), gen |-> 0,
                                             count |-> 0])
                   ELSE file
        /\ added' = IF new THEN Append(added, 0) ELSE added
        /\ entry' = IF new THEN [entry EXCEPT ![q.path] = id] ELSE entry
        /\ IF OpensFile(sys)
           THEN /\ desc' = [desc EXCEPT ![d] = [file |-> id, pos |-> 0]]
                /\ Goes(r, [Done(q) EXCEPT !.d = d])
           ELSE Goes(r, Done(q)) /\ UNCHANGED desc

\* rename does nothing when both names are the same file's
Renamed(old, new) ==
    IF entry[old] = entry[new] THEN entry
    ELSE [entry EXCEPT ![new] = entry[old], ![old] = Absent]

Unlinked(n) == IF TypeOf(entry[n]) = "dir" THEN entry
               ELSE [entry EXCEPT ![n] = Absent]

\* do_xattrop: the sum of the value read before and the caller's
Add(i, n) == (n + 1) % 2 ^ Width
\* Mutant of Locked: no inode->lock.
never_locked(i) == FALSE

Locked(i) == \E s \in Running : op[s].held = i

Perform(r, q, i) ==
    LET sys == q.prog[q.pc].sys
    IN  \/ /\ Stats(sys) /\ StatWithGen(r, q, i)
           /\ UNCHANGED <<entry, desc, fd, nr_files, added>>
        \/ /\ sys = "scan" /\ Scan(r, q)
           /\ UNCHANGED <<entry, desc, fd, nr_files, added>>
        \/ /\ Makes(sys) \/ OpensFile(sys)
           /\ OpenOrMake(r, q, i, sys)
           /\ UNCHANGED <<fd, gen_seq, nr_files>>
        \/ /\ sys \in {"unlink", "rmdir", "rename", "link"}
           /\ entry' = CASE sys = "rename" -> Renamed(q.path, q.path2)
                         [] sys = "link" ->
                              [entry EXCEPT ![q.path2] = entry[q.path]]
                         [] OTHER -> [entry EXCEPT ![q.path] = Absent]
           /\ Goes(r, Done(q))
           /\ UNCHANGED <<file, desc, fd, gen_seq, nr_files, added>>
        \/ /\ sys \in {"lseek", "read", "writev"}
           /\ desc' = [desc EXCEPT ![q.d].pos = IF sys = "lseek" THEN q.off ELSE 2]
           /\ Goes(r, [Done(q) EXCEPT !.got = IF sys = "lseek" THEN -1
                                              ELSE desc[q.d].pos])
           /\ UNCHANGED <<entry, file, fd, gen_seq, nr_files, added>>
        \/ /\ sys = "getcount" /\ ~Locked(i)
           /\ Goes(r, [Done(q) EXCEPT !.held = i, !.count = file[i].count])
           /\ UNCHANGED <<kernel, fd, gen_seq, nr_files, added>>
        \/ /\ sys = "setcount"
           /\ file' = [file EXCEPT ![i].count = Add(i, q.count)]
           \* a rename since the first call: the count is another file's
           /\ added' = [added EXCEPT ![i] =
                           IF i = q.held THEN (@ + 1) % 2 ^ Width
                           ELSE Add(i, q.count)]
           /\ Goes(r, [Done(q) EXCEPT !.held = 0])
           /\ UNCHANGED <<entry, desc, fd, gen_seq, nr_files>>
        \/ /\ sys = "ctx"
           /\ Goes(r, [Done(q) EXCEPT !.d = fd[q.fd].d])
           /\ UNCHANGED <<kernel, fd, gen_seq, nr_files, added>>
        \/ /\ sys = "setctx"
           /\ fd' = [fd EXCEPT ![q.fd].d = q.d, ![q.fd].dir = q.op = "opendir"]
           /\ Goes(r, Done(q))
           /\ UNCHANGED <<kernel, gen_seq, nr_files, added>>
        \/ /\ sys = "count"
           /\ nr_files' = nr_files + 1
           /\ Goes(r, Done(q))
           /\ UNCHANGED <<kernel, fd, gen_seq, added>>
        \/ /\ ~(Stats(sys) \/ Makes(sys) \/ OpensFile(sys))
           /\ sys \notin {"scan", "unlink", "rmdir", "rename", "link", "lseek",
                          "read", "writev", "getcount", "setcount", "ctx",
                          "setctx", "count"}
           /\ Goes(r, Done(q))
           /\ UNCHANGED <<kernel, fd, gen_seq, nr_files, added>>

NoCall == {"ctx", "isdir", "setctx", "count", "enosys"}

SystemCall(r) ==
    LET q == op[r] IN
    /\ q.st = "run" /\ q.pc <= Len(q.prog)
    /\ \/ /\ q.prog[q.pc].sys \notin NoCall
          /\ used.faults < MaxFaults
          /\ used' = [used EXCEPT !.faults = @ + 1]
          /\ Goes(r, Failed(q, FALSE))
          /\ UNCHANGED <<kernel, fd, gen_seq, nr_files, added>>
       \/ /\ Refused(q)
          /\ Goes(r, Failed(q, TRUE))
          /\ UNCHANGED <<kernel, fd, gen_seq, nr_files, added, used>>
       \/ /\ ~Refused(q)
          /\ Perform(r, q, On(q))
          /\ UNCHANGED used
    /\ UNCHANGED <<janitor, spoilt>>

-----------------------------------------------------------------------------
(* The label out: what a failed operation takes back, and the reply.        *)
\* The second name of rename and link, which is the first of the others.
NewName(q) == q.path2

closes_at_out(q) ==
    /\ q.d # 0
    /\ \/ q.op \in {"unlink", "checksum"}
       \/ q.op \in {"open", "create"} /\ ~q.ret

\* Mutant of unlinks_at_out: create unlinks whatever was there.
unlinks_present(q) == q.op = "create" /\ ~q.ret /\ q.d # 0

\* posix_create, before the reply
unlinks_at_out(q) == q.op = "create" /\ ~q.ret /\ q.d # 0 /\ ~q.present

\* posix_mknod, posix_mkdir, posix_symlink, posix_link, posix_rename, after it
unlinks_after_reply(q) ==
    /\ q.op \in {"mknod", "mkdir", "symlink", "link", "rename"}
    /\ ~q.ret /\ ~q.present

Out(r) ==
    LET q == op[r] IN
    /\ q.st = "out" \/ (q.st = "run" /\ q.pc > Len(q.prog))
    /\ desc' = IF closes_at_out(q) THEN [desc EXCEPT ![q.d] = Closed] ELSE desc
    /\ entry' = IF unlinks_at_out(q) THEN Unlinked(q.path) ELSE entry
    /\ fd' = IF q.op \in Opens
             THEN [fd EXCEPT ![q.fd].st =
                     IF q.ret \/ fd[q.fd].d # 0 THEN "given" ELSE "free"]
             ELSE fd
    /\ spoilt' = (spoilt \/ (q.op = "open" /\ ~q.ret /\ fd[q.fd].d # 0))
    /\ Goes(r, IF unlinks_after_reply(q) THEN [q EXCEPT !.st = "undo"]
               ELSE PosixIdle)
    /\ UNCHANGED <<file, gen_seq, janitor, nr_files, used, added>>

Undo(r) ==
    /\ op[r].st = "undo"
    /\ entry' = Unlinked(NewName(op[r]))
    /\ Goes(r, PosixIdle)
    /\ UNCHANGED <<file, desc, fd, gen_seq, janitor, nr_files, used, added, spoilt>>

-----------------------------------------------------------------------------
(* The last reference to an fd_t is gone; the janitor thread; a restart.    *)
posix_release(f) ==
    /\ ~fd[f].dir
    /\ nr_files' = nr_files - 1
    /\ janitor' = Append(janitor, fd[f].d)

posix_releasedir(f) ==
    /\ fd[f].dir
    /\ janitor' = Append(janitor, fd[f].d)
    /\ UNCHANGED nr_files

Release(f) ==
    /\ fd[f].st = "given"
    /\ \A s \in Running : UsesFd(op[s]) => op[s].fd # f
    /\ \/ fd[f].d # 0 /\ (posix_release(f) \/ posix_releasedir(f))
       \/ fd[f].d = 0 /\ UNCHANGED <<nr_files, janitor>>
    /\ fd' = [fd EXCEPT ![f] = NoPfd]
    /\ UNCHANGED <<kernel, op, gen_seq, used, added, spoilt>>

janitor_get_next_fd == Head(janitor)

posix_janitor_thread_proc ==
    /\ janitor # <<>>
    /\ desc' = [desc EXCEPT ![janitor_get_next_fd] = Closed]
    /\ janitor' = Tail(janitor)
    /\ UNCHANGED <<entry, file, fd, op, gen_seq, nr_files, used, added, spoilt>>

\* the nftw over the landfill, every janitor_sleep_duration seconds
janitor_walker(n) ==
    /\ n \in Landfill /\ entry[n] # Absent
    /\ entry' = [entry EXCEPT ![n] = Absent]
    /\ UNCHANGED <<file, desc, fd, op, gen_seq, janitor, nr_files, used, added,
                   spoilt>>

\* init: gen_seq = time << 32
posix_init(boot) == boot * GenPerBoot

Boot ==
    /\ used.boots < MaxBoots
    /\ used' = [used EXCEPT !.boots = @ + 1]
    /\ gen_seq' = posix_init(used.boots + 1)
    /\ desc' = [d \in 1 .. Descs |-> Closed]
    /\ fd' = [f \in Fd |-> NoPfd]
    /\ op' = [r \in PosixReq |-> PosixIdle]
    /\ janitor' = <<>>
    /\ nr_files' = 0
    /\ spoilt' = FALSE
    /\ UNCHANGED <<entry, file, added>>

Next ==
    \/ \E r \in PosixReq : Start(r) \/ SystemCall(r) \/ Out(r) \/ Undo(r)
    \/ \E f \in Fd : Release(f)
    \/ posix_janitor_thread_proc
    \/ \E n \in Landfill : janitor_walker(n)
    \/ Boot

Fairness == WF_posixVars(posix_janitor_thread_proc)

Spec == Init /\ [][Next]_posixVars /\ Fairness

-----------------------------------------------------------------------------
(* An operation that makes a name and fails leaves its names as they were,  *)
(* whichever of its system calls failed, when no other operation ran on     *)
(* them meanwhile.  Not mkdir, whose clean-up calls unlink on a directory,  *)
(* nor rename, whose clean-up unlinks what was already renamed.             *)
Finishes(r) == op[r].st # "idle" /\ op'[r].st = "idle"

FailureTakesBack ==
    \A r \in PosixReq :
      /\ Finishes(r) /\ used'.boots = used.boots /\ ~spoilt
      /\ op[r].op \in {"mknod", "symlink", "link", "create"}
      /\ op[r].alone /\ ~op[r].ret
      => \A n \in Names(op[r]) \ Landfill : entry'[n] = op[r].before[n]

(* No two files have the same generation, before and after restarts: the    *)
(* generation is what tells a file from one that had its inode number.      *)
GenerationsDiffer ==
    \A i, j \in DOMAIN file : file[i].gen = file[j].gen => i = j \/ file[i].gen = 0

(* The increments of concurrent xattrop calls all arrive: a counter is the  *)
(* sum of what was added to it, whether by path or by descriptor.           *)
CountersAddUp == \A i \in DOMAIN file : file[i].count = added[i]

(* Every open descriptor is owned once, by an fd_t's context, by the        *)
(* janitor's list or by an operation that has not handed it over; every     *)
(* context's descriptor is open; and nr_files counts the open files.  An    *)
(* O_CREAT open that fails after fd_ctx_set closes the descriptor its       *)
(* context keeps, and all of this is lost (spoilt).                         *)
Owners(d) ==
    {<<"fd", f>> : f \in {x \in Fd : fd[x].d = d}}
    \cup {<<"janitor", k>> : k \in {x \in DOMAIN janitor : janitor[x] = d}}
    \cup {<<"op", r>> : r \in {x \in Running :
           /\ op[x].d = d
           /\ ~(ByFd(op[x].prog))
           /\ op[x].op \in Opens => fd[op[x].fd].d = 0
           /\ op[x].st # "undo"}}

DescriptorsOwned ==
    ~spoilt =>
      /\ \A d \in DOMAIN desc :
           Cardinality(Owners(d)) = IF desc[d] = Closed THEN 0 ELSE 1
      /\ nr_files = Cardinality({f \in Fd : fd[f].d # 0 /\ ~fd[f].dir})
                     - Cardinality({r \in Running :
                          /\ op[r].op \in {"open", "create"}
                          /\ fd[op[r].fd].d # 0
                          /\ op[r].pc <= Len(op[r].prog)})

(* The bytes of a read or a write are those at the offset asked for.        *)
AtTheOffset == \A r \in Running : op[r].got \in {-1, op[r].off}

(* A descriptor handed to the janitor is closed.                            *)
WithJanitor(d) == \E k \in DOMAIN janitor : janitor[k] = d

=============================================================================
