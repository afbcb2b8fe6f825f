------------------------------ MODULE CallStub ------------------------------
(***************************************************************************)
(* Call stubs (libglusterfs/src/call-stub.c): a call, or the answer to a   *)
(* call, put aside with its arguments to be continued later, possibly by   *)
(* another thread.  A stub owns what it stores: it takes a reference to    *)
(* every fd, inode, dictionary and buffer and a copy of every name and     *)
(* path.  Whoever holds the stub either resumes it (call_resume) or drops  *)
(* it (call_stub_destroy), and both give the arguments back.  There are    *)
(* forty-five kinds of call and as many kinds of answer, and for each kind *)
(* four switch statements have to agree with the function that made the    *)
(* stub.  Only the owned fields are modelled, not the numbers and the stat *)
(* buffers that are copied by value.                                       *)
(***************************************************************************)
EXTENDS Naturals, FiniteSets

VARIABLE
    stub    \* the stub followed from its making to the end of its life

-----------------------------------------------------------------------------
(* What the makers store.  takes: always; given: when the caller passes   *)
(* it; ok, pos: when the answer's op_ret is >= 0, > 0.                     *)

Wind(fop, takes, given) ==
    [fop |-> fop, wind |-> TRUE, takes |-> takes, given |-> given,
     ok |-> {}, pos |-> {}]

Unwind(fop, given, ok, pos) ==
    [fop |-> fop, wind |-> FALSE, takes |-> {}, given |-> given,
     ok |-> ok, pos |-> pos]

(* The functions that make stubs, by their place in the file: the stub of  *)
(* a call and the stub of its answer are made by neighbours.               *)

makers_lookup_stat_fstat ==
    {Wind("lookup", {"loc"}, {"xattr_req"}),
     Unwind("lookup", {"inode", "dict"}, {}, {}),
     Wind("stat", {"loc"}, {}), Unwind("stat", {}, {}, {}),
     Wind("fstat", {}, {"fd"}), Unwind("fstat", {}, {}, {})}

makers_truncate_ftruncate_access ==
    {Wind("truncate", {"loc"}, {}), Unwind("truncate", {}, {}, {}),
     Wind("ftruncate", {}, {"fd"}), Unwind("ftruncate", {}, {}, {}),
     Wind("access", {"loc"}, {}), Unwind("access", {}, {}, {})}

makers_readlink_mknod_mkdir ==
    {Wind("readlink", {"loc"}, {}), Unwind("readlink", {"buf"}, {}, {}),
     Wind("mknod", {"loc"}, {}), Unwind("mknod", {"inode"}, {}, {}),
     Wind("mkdir", {"loc"}, {})}

makers_mkdir_unlink_rmdir_symlink ==
    {Unwind("mkdir", {"inode"}, {}, {}), Wind("unlink", {"loc"}, {}),
     Unwind("unlink", {}, {}, {}), Wind("rmdir", {"loc"}, {}),
     Unwind("rmdir", {}, {}, {}),
     Wind("symlink", {"linkname", "loc"}, {})}

makers_symlink_rename_link ==
    {Unwind("symlink", {"inode"}, {}, {}),
     Wind("rename", {"old", "new"}, {}), Unwind("rename", {}, {}, {}),
     Wind("link", {"oldloc", "newloc"}, {}),
     Unwind("link", {"inode"}, {}, {})}

makers_create_open_readv ==
    {Wind("create", {"loc"}, {"fd"}),
     Unwind("create", {"fd", "inode"}, {}, {}),
     Wind("open", {"loc"}, {"fd"}), Unwind("open", {"fd"}, {}, {}),
     Wind("read", {}, {"fd"})}

makers_readv_writev_flush ==
    {Unwind("read", {}, {"vector", "iobref"}, {}),
     Wind("write", {"vector", "iobref"}, {"fd"}),
     Unwind("write", {}, {}, {}), Wind("flush", {}, {"fd"}),
     Unwind("flush", {}, {}, {})}

makers_fsync_opendir_getdents ==
    {Wind("fsync", {}, {"fd"}), Unwind("fsync", {}, {}, {}),
     Wind("opendir", {"loc"}, {"fd"}),
     Unwind("opendir", {"fd"}, {}, {}), Wind("getdents", {}, {"fd"})}

makers_getdents_fsyncdir_statfs_setxattr ==
    {Unwind("getdents", {}, {"entries"}, {}),
     Wind("fsyncdir", {}, {"fd"}), Unwind("fsyncdir", {}, {}, {}),
     Wind("statfs", {"loc"}, {}), Unwind("statfs", {}, {}, {}),
     Wind("setxattr", {"loc"}, {"dict"})}

makers_setxattr_getxattr_fsetxattr_fgetxattr ==
    {Unwind("setxattr", {}, {}, {}),
     Wind("getxattr", {"loc"}, {"name"}),
     Unwind("getxattr", {"dict"}, {}, {}),
     Wind("fsetxattr", {"fd"}, {"dict"}),
     Unwind("fsetxattr", {}, {}, {}),
     Wind("fgetxattr", {"fd"}, {"name"})}

makers_fgetxattr_removexattr_lk_inodelk ==
    {Unwind("getxattr", {"dict"}, {}, {}),
     Wind("removexattr", {"loc", "name"}, {}),
     Unwind("removexattr", {}, {}, {}), Wind("lk", {}, {"fd"}),
     Unwind("lk", {}, {}, {}), Wind("inodelk", {"loc"}, {"volume"})}

makers_inodelk_finodelk_entrylk_fentrylk ==
    {Unwind("inodelk", {}, {}, {}),
     Wind("finodelk", {}, {"fd", "volume"}),
     Unwind("finodelk", {}, {}, {}),
     Wind("entrylk", {"loc"}, {"volume", "name"}),
     Unwind("entrylk", {}, {}, {}),
     Wind("fentrylk", {}, {"volume", "fd", "name"})}

makers_fentrylk_setdents_readdirp ==
    {Unwind("fentrylk", {}, {}, {}),
     Wind("setdents", {}, {"fd", "entries"}),
     Unwind("setdents", {}, {}, {}),
     Unwind("readdirp", {}, {}, {"entries"})}

makers_readdir_readdirp_checksum ==
    {Unwind("readdir", {}, {}, {"entries"}),
     Wind("readdir", {"fd"}, {}), Wind("readdirp", {"fd"}, {}),
     Wind("checksum", {"loc"}, {}),
     Unwind("checksum", {}, {"file_checksum", "dir_checksum"}, {})}

makers_rchecksum_xattrop_fxattrop ==
    {Wind("rchecksum", {"fd"}, {}),
     Unwind("rchecksum", {}, {"strong_checksum"}, {}),
     Unwind("xattrop", {}, {}, {}),
     Unwind("fxattrop", {"xattr"}, {}, {}),
     Wind("xattrop", {"loc", "xattr"}, {}),
     Wind("fxattrop", {"fd", "xattr"}, {})}

makers_lock_notify_lock_fnotify_setattr_fsetattr ==
    {Unwind("lock_notify", {}, {}, {}),
     Wind("lock_notify", {"loc"}, {}),
     Unwind("lock_fnotify", {}, {}, {}),
     Wind("lock_fnotify", {"fd"}, {}), Unwind("setattr", {}, {}, {}),
     Unwind("fsetattr", {}, {}, {})}

makers_setattr_fsetattr ==
    {Wind("setattr", {"loc"}, {}), Wind("fsetattr", {}, {"fd"})}

Stubs ==
    makers_lookup_stat_fstat \cup makers_truncate_ftruncate_access
    \cup makers_readlink_mknod_mkdir \cup
    makers_mkdir_unlink_rmdir_symlink \cup makers_symlink_rename_link
    \cup makers_create_open_readv \cup makers_readv_writev_flush \cup
    makers_fsync_opendir_getdents \cup
    makers_getdents_fsyncdir_statfs_setxattr \cup
    makers_setxattr_getxattr_fsetxattr_fgetxattr \cup
    makers_fgetxattr_removexattr_lk_inodelk \cup
    makers_inodelk_finodelk_entrylk_fentrylk \cup
    makers_fentrylk_setdents_readdirp \cup
    makers_readdir_readdirp_checksum \cup
    makers_rchecksum_xattrop_fxattrop \cup
    makers_lock_notify_lock_fnotify_setattr_fsetattr \cup
    makers_setattr_fsetattr

-----------------------------------------------------------------------------
(* The owned fields each switch statement names for a kind of call.        *)

Pick(tables, fop) ==
    UNION {t[fop] : t \in {u \in tables : fop \in DOMAIN u}}

\* what call_resume_wind hands to the function the stub was made with
resume_wind_names ==
    [open |-> {"loc", "fd"}, create |-> {"loc", "fd"}, stat |-> {"loc"},
     readlink |-> {"loc"}, mknod |-> {"loc"}, mkdir |-> {"loc"},
     unlink |-> {"loc"}, rmdir |-> {"loc"}, symlink |-> {"linkname", "loc"},
     rename |-> {"old", "new"}, link |-> {"oldloc", "newloc"},
     truncate |-> {"loc"}, read |-> {"fd"}, write |-> {"fd", "vector", "iobref"},
     statfs |-> {"loc"}]

resume_wind_attrs ==
    [flush |-> {"fd"}, fsync |-> {"fd"}, setxattr |-> {"loc", "dict"},
     getxattr |-> {"loc", "name"}, fsetxattr |-> {"fd", "dict"},
     fgetxattr |-> {"fd", "name"}, removexattr |-> {"loc", "name"},
     opendir |-> {"loc", "fd"}, getdents |-> {"fd"}, fsyncdir |-> {"fd"},
     access |-> {"loc"}, ftruncate |-> {"fd"}, fstat |-> {"fd"}, lk |-> {"fd"},
     inodelk |-> {"volume", "loc"}, finodelk |-> {"volume", "fd"}]

resume_wind_rest ==
    [entrylk |-> {"volume", "loc", "name"},
     fentrylk |-> {"volume", "fd", "name"}, lookup |-> {"loc", "xattr_req"},
     setdents |-> {"fd", "entries"}, checksum |-> {"loc"},
     rchecksum |-> {"fd"}, readdir |-> {"fd"}, readdirp |-> {"fd"},
     xattrop |-> {"loc", "xattr"}, fxattrop |-> {"fd", "xattr"},
     lock_notify |-> {"loc"}, lock_fnotify |-> {"fd"}, setattr |-> {"loc"},
     fsetattr |-> {"fd"}]

call_resume_wind(fop) ==
    Pick({resume_wind_names, resume_wind_attrs, resume_wind_rest}, fop)

\* what call_resume_unwind itself gives back after the callback
call_resume_unwind(fop) ==
    Pick({[mkdir |-> {"inode"}, lookup |-> {"dict", "inode"},
           checksum |-> {"file_checksum", "dir_checksum"},
           rchecksum |-> {"strong_checksum"}, fxattrop |-> {"xattr"}]}, fop)

\* what call_stub_destroy_wind gives back
destroy_wind_names ==
    [open |-> {"loc", "fd"}, create |-> {"loc", "fd"}, stat |-> {"loc"},
     readlink |-> {"loc"}, mknod |-> {"loc"}, mkdir |-> {"loc"},
     unlink |-> {"loc"}, rmdir |-> {"loc"}, symlink |-> {"linkname", "loc"},
     rename |-> {"old", "new"}, link |-> {"oldloc", "newloc"},
     truncate |-> {"loc"}, read |-> {"fd"}, write |-> {"fd", "vector", "iobref"},
     statfs |-> {"loc"}, flush |-> {"fd"}, fsync |-> {"fd"},
     setxattr |-> {"loc", "dict"}, getxattr |-> {"name", "loc"},
     fsetxattr |-> {"fd", "dict"}, fgetxattr |-> {"name", "fd"}]

destroy_wind_rest ==
    [removexattr |-> {"loc", "name"}, opendir |-> {"loc", "fd"},
     getdents |-> {"fd"}, fsyncdir |-> {"fd"}, access |-> {"loc"},
     ftruncate |-> {"fd"}, fstat |-> {"fd"}, lk |-> {"fd"},
     inodelk |-> {"volume", "loc"}, finodelk |-> {"volume", "fd"},
     entrylk |-> {"volume", "name", "loc"},
     fentrylk |-> {"volume", "name", "fd"}, lookup |-> {"loc", "xattr_req"},
     setdents |-> {"fd", "entries"}, checksum |-> {"loc"},
     rchecksum |-> {"fd"}, readdir |-> {"fd"}, readdirp |-> {"fd"},
     xattrop |-> {"loc", "xattr"}, fxattrop |-> {"fd", "xattr"},
     lock_notify |-> {"loc"}, lock_fnotify |-> {"fd"}, setattr |-> {"loc"},
     fsetattr |-> {"fd"}]

call_stub_destroy_wind(fop) ==
    Pick({destroy_wind_names, destroy_wind_rest}, fop)

\* what call_stub_destroy_unwind gives back
destroy_unwind_names ==
    [open |-> {"fd"}, create |-> {"fd", "inode"}, readlink |-> {"buf"},
     mknod |-> {"inode"}, mkdir |-> {"inode"}, symlink |-> {"inode"},
     link |-> {"inode"}, read |-> {"vector", "iobref"}, getxattr |-> {"dict"},
     fgetxattr |-> {"dict"}, opendir |-> {"fd"}, getdents |-> {"entries"}]

destroy_unwind_rest ==
    [lookup |-> {"inode", "dict"},
     checksum |-> {"file_checksum", "dir_checksum"},
     rchecksum |-> {"strong_checksum"}, readdir |-> {"entries"},
     readdirp |-> {"entries"}, xattrop |-> {"xattr"}, fxattrop |-> {"xattr"}]

call_stub_destroy_unwind(fop) ==
    Pick({destroy_unwind_names, destroy_unwind_rest}, fop)

-----------------------------------------------------------------------------
(* Giving a field back a second time is recorded in twice.                 *)
Release(s, fields) ==
    [s EXCEPT !.held = @ \ fields,
              !.twice = @ \cup ((fields \cap s.taken) \ s.held)]

Released(s) == IF s.wind THEN call_stub_destroy_wind(s.fop)
                         ELSE call_stub_destroy_unwind(s.fop)

call_stub_destroy(s) == [Release(s, Released(s)) EXCEPT !.at = "freed"]

\* The call or the callback is made with the stored arguments, and then the
\* stub goes.
call_resume(s) ==
    IF s.wind
    THEN call_stub_destroy([s EXCEPT
             !.passed = call_resume_wind(s.fop) \cap s.held])
    ELSE call_stub_destroy(Release([s EXCEPT !.passed = s.held],
                                   call_resume_unwind(s.fop)))

\* The answers the tree resumes: write-behind's answer to a flush.  The
\* answers libglusterfsclient stores are read and destroyed.
ResumedAnswers == {"flush"}

None == [at |-> "none", fop |-> "none", wind |-> TRUE, taken |-> {},
         held |-> {}, passed |-> {}, twice |-> {}]

stub_new(d, fields) ==
    [None EXCEPT !.at = "made", !.fop = d.fop, !.wind = d.wind,
                 !.taken = fields, !.held = fields]

Init == stub = None

Make ==
    /\ stub.at # "made"
    /\ \E d \in Stubs :
         \E given \in SUBSET d.given :
         \E answer \in {{}, d.ok, d.ok \cup d.pos} :
            stub' = stub_new(d, d.takes \cup given \cup answer)

Resume ==
    /\ stub.at = "made"
    /\ stub.wind \/ stub.fop \in ResumedAnswers
    /\ stub' = call_resume(stub)

Destroy ==
    /\ stub.at = "made"
    /\ stub' = call_stub_destroy(stub)

Next == Make \/ Resume \/ Destroy

Spec == Init /\ [][Next]_stub

-----------------------------------------------------------------------------
(* A stub that is gone has given back everything its maker took, each      *)
(* field once: for every kind of call and every combination of optional    *)
(* arguments the switch in the maker, the one in call_resume and the one   *)
(* in call_stub_destroy agree.                                             *)
RefsReturned ==
    /\ stub.at = "freed" => stub.held = {}
    /\ stub.twice = {}

(* A resumed call gets every argument that was stored, and gets it before  *)
(* the stub gives it back.                                                 *)
ResumesWithAll ==
    Resume => stub'.passed = stub.taken

=============================================================================
