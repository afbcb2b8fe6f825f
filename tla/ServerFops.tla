----------------------------- MODULE ServerFops -----------------------------
(***************************************************************************)
(* What protocol/server does with each file operation a client asks for     *)
(* (xlators/protocol/server/src/server-protocol.c).  server_X decodes the    *)
(* request and says what has to be found before the operation can run, and  *)
(* which function resumes it; server_X_resume winds an operation to the      *)
(* volume with a callback, or answers with an error through a callback when  *)
(* nothing was found; server_X_cbk applies the result to the connection's    *)
(* and the volume's tables and replies.                                     *)
(*                                                                         *)
(*   by        what names the file: a descriptor number, an inode number, a  *)
(*             name in a directory                                          *)
(*   type      what resolving must find (server_resolve_type_t)             *)
(*   second    the type of a second name, "none" when there is only one       *)
(*   resume    the function the resolver calls                              *)
(*   undecoded the callback run at once when the request's dictionary or    *)
(*             buffer is unusable                                           *)
(***************************************************************************)
EXTENDS TLC

Answers(op, does) == [op |-> op, does |-> does]
Reply(op) == Answers(op, {})
Winds(fop, done, refused) ==
    [fop |-> fop, cbk |-> done, refused |-> refused, creates |-> FALSE]
\* A resume function that calls fd_create before it winds.
WindsNewFile(fop, done, refused) == [Winds(fop, done, refused) EXCEPT !.creates = TRUE]
Request(by, type, second, resume) ==
    [by |-> by, type |-> type, second |-> second, resume |-> resume, undecoded |-> {}]
ByFd(resume) == Request("fd", "MUST", "none", resume)
ByInode(type, resume) == Request("inode", type, "none", resume)
ByEntry(type, resume) == Request("entry", type, "none", resume)
Two(by, type, second, resume) == Request(by, type, second, resume)
Decoded(r, done) == [r EXCEPT !.undecoded = {done}]

(***************************************************************************)
(* Callbacks: the operation the reply names, and the tables they change,    *)
(* in the order of the file.                                                *)
(***************************************************************************)
cbk_setdents_lk_inodelk ==
    [setdents |-> Reply("setdents"), lk |-> Reply("lk"),
     inodelk |-> Answers("inodelk", {"locker"})]

cbk_finodelk_entrylk_fentrylk ==
    [finodelk |-> Answers("finodelk", {"locker"}),
     entrylk |-> Answers("entrylk", {"locker"}),
     fentrylk |-> Answers("fentrylk", {"locker"})]

cbk_access_rmdir_mkdir ==
    [access |-> Reply("access"), rmdir |-> Answers("rmdir", {"unlink"}),
     mkdir |-> Answers("mkdir", {"link"})]

cbk_mknod_fsyncdir ==
    [mknod |-> Answers("mknod", {"link"}), fsyncdir |-> Reply("fsyncdir")]

cbk_getdents_readdir ==
    [getdents |-> Reply("getdents"), readdir |-> Reply("readdir")]

cbk_opendir_statfs_removexattr ==
    [opendir |-> Answers("opendir", {"number"}),
     statfs |-> Reply("statfs"), removexattr |-> Reply("removexattr")]

cbk_getxattr_fgetxattr_setxattr ==
    [getxattr |-> Reply("getxattr"), fgetxattr |-> Reply("fgetxattr"),
     setxattr |-> Reply("setxattr")]

cbk_fsetxattr_rename_unlink ==
    [fsetxattr |-> Reply("fsetxattr"),
     rename |-> Answers("rename", {"rename"}),
     unlink |-> Answers("unlink", {"unlink"})]

cbk_symlink_link ==
    [symlink |-> Answers("symlink", {"link"}),
     link |-> Answers("link", {"link"})]

cbk_truncate_fstat_ftruncate ==
    [truncate |-> Reply("truncate"), fstat |-> Reply("fstat"),
     ftruncate |-> Reply("ftruncate")]

cbk_flush_fsync ==
    [flush |-> Reply("flush"), fsync |-> Reply("fsync")]

cbk_writev_readv_open ==
    [writev |-> Reply("writev"), readv |-> Reply("readv"),
     open |-> Answers("open", {"number"})]

cbk_create_readlink ==
    [create |-> Answers("create", {"link", "number"}),
     readlink |-> Reply("readlink")]

cbk_stat_setattr_fsetattr ==
    [stat |-> Reply("stat"), setattr |-> Reply("setattr"),
     fsetattr |-> Reply("fsetattr")]

cbk_lookup ==
    [lookup |-> Answers("lookup", {"link", "unlink"})]

cbk_xattrop_fxattrop ==
    [xattrop |-> Reply("xattrop"), fxattrop |-> Reply("fxattrop")]

cbk_readdirp ==
    [readdirp |-> Reply("readdirp")]

cbk_checksum_rchecksum ==
    [checksum |-> Reply("checksum"), rchecksum |-> Reply("rchecksum")]

CBK ==
    cbk_setdents_lk_inodelk @@ cbk_finodelk_entrylk_fentrylk @@
    cbk_access_rmdir_mkdir @@ cbk_mknod_fsyncdir @@ cbk_getdents_readdir
    @@ cbk_opendir_statfs_removexattr @@ cbk_getxattr_fgetxattr_setxattr
    @@ cbk_fsetxattr_rename_unlink @@ cbk_symlink_link @@
    cbk_truncate_fstat_ftruncate @@ cbk_flush_fsync @@
    cbk_writev_readv_open @@ cbk_create_readlink @@
    cbk_stat_setattr_fsetattr @@ cbk_lookup @@ cbk_xattrop_fxattrop @@
    cbk_readdirp @@ cbk_checksum_rchecksum

(***************************************************************************)
(* Requests.  server_X decodes, server_X_resume winds; a descriptor is      *)
(* looked up the same way whatever the type says, and server_lk sets none.  *)
(***************************************************************************)
\* The resume function of op that winds op with its own callback.
OwnWind(op) == Winds(op, CBK[op], CBK[op])
OwnWindNewFile(op) == WindsNewFile(op, CBK[op], CBK[op])

req_lookup_stat ==
    [lookup |-> Decoded(ByEntry("DONTCARE", OwnWind("lookup")), CBK.lookup),
     stat |-> ByInode("MUST", OwnWind("stat"))]

req_setattr_fsetattr_readlink ==
    [setattr |-> ByInode("MUST", OwnWind("setattr")),
     fsetattr |-> ByFd(OwnWind("fsetattr")),
     readlink |-> ByInode("MUST", OwnWind("readlink"))]

req_create_open_readv ==
    [create |-> ByEntry("NOT", OwnWindNewFile("create")),
     open |-> ByInode("MUST", OwnWindNewFile("open")),
     readv |-> ByFd(OwnWind("readv"))]

req_writev_fsync ==
    [writev |-> ByFd(OwnWind("writev")), fsync |-> ByFd(OwnWind("fsync"))]

req_flush_ftruncate_fstat ==
    [flush |-> ByFd(OwnWind("flush")),
     ftruncate |-> ByFd(OwnWind("ftruncate")),
     fstat |-> ByFd(OwnWind("fstat"))]

req_truncate_unlink ==
    [truncate |-> ByInode("MUST", OwnWind("truncate")),
     unlink |-> ByEntry("MUST", OwnWind("unlink"))]

req_setxattr_fsetxattr ==
    [setxattr |-> Decoded(ByInode("MUST", OwnWind("setxattr")), CBK.setxattr),
     fsetxattr |-> Decoded(ByFd(Winds("fsetxattr", CBK.setxattr, CBK.fsetxattr)),
                           CBK.setxattr)]

req_fxattrop_xattrop ==
    [fxattrop |-> Decoded(ByFd(OwnWind("fxattrop")), CBK.fxattrop),
     xattrop |-> Decoded(ByInode("MUST", OwnWind("xattrop")), CBK.xattrop)]

req_getxattr_fgetxattr_removexattr ==
    [getxattr |-> ByInode("MUST", OwnWind("getxattr")),
     fgetxattr |-> ByFd(OwnWind("fgetxattr")),
     removexattr |-> ByInode("MUST", OwnWind("removexattr"))]

req_statfs_opendir ==
    [statfs |-> ByInode("MUST", OwnWind("statfs")),
     opendir |-> ByInode("MUST", OwnWindNewFile("opendir"))]

req_getdents_readdirp ==
    [getdents |-> ByFd(OwnWind("getdents")),
     readdirp |-> ByFd(OwnWind("readdirp"))]

req_readdir_fsyncdir ==
    [readdir |-> ByFd(OwnWind("readdir")),
     fsyncdir |-> ByFd(OwnWind("fsyncdir"))]

req_mknod_mkdir_rmdir ==
    [mknod |-> ByEntry("NOT", OwnWind("mknod")),
     mkdir |-> ByEntry("NOT", OwnWind("mkdir")),
     rmdir |-> ByEntry("MUST", OwnWind("rmdir"))]

req_inodelk_finodelk ==
    [inodelk |-> ByInode("EXACT", OwnWind("inodelk")),
     finodelk |-> ByFd(OwnWind("finodelk"))]

req_entrylk_fentrylk_access ==
    [entrylk |-> ByInode("EXACT", OwnWind("entrylk")),
     fentrylk |-> ByFd(OwnWind("finodelk")),
     access |-> ByInode("MUST", OwnWind("access"))]

req_symlink_link ==
    [symlink |-> ByEntry("NOT", OwnWind("symlink")),
     link |-> Two("inode", "MUST", "NOT", OwnWind("link"))]

req_rename_lk ==
    [rename |-> Two("entry", "MUST", "MAY", OwnWind("rename")),
     lk |-> ByFd(OwnWind("lk"))]

req_setdents ==
    [setdents |-> Decoded(ByFd(OwnWind("setdents")), CBK.setdents)]

req_checksum_rchecksum ==
    [checksum |-> ByInode("MAY", OwnWind("checksum")),
     rchecksum |-> ByFd(OwnWind("rchecksum"))]

gf_fops ==
    req_lookup_stat @@ req_setattr_fsetattr_readlink @@
    req_create_open_readv @@ req_writev_fsync @@ req_flush_ftruncate_fstat
    @@ req_truncate_unlink @@ req_setxattr_fsetxattr @@
    req_fxattrop_xattrop @@ req_getxattr_fgetxattr_removexattr @@
    req_statfs_opendir @@ req_getdents_readdirp @@ req_readdir_fsyncdir @@
    req_mknod_mkdir_rmdir @@ req_inodelk_finodelk @@
    req_entrylk_fentrylk_access @@ req_symlink_link @@ req_rename_lk @@
    req_setdents @@ req_checksum_rchecksum
=============================================================================
