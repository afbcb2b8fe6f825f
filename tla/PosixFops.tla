----------------------------- MODULE PosixFops -----------------------------
(***************************************************************************)
(* storage/posix (xlators/storage/posix/src/posix.c): what each file        *)
(* operation does, as the sequence of system calls it makes.  A call names  *)
(* what it is made on (the path of the operation, its second path, the      *)
(* parent directory, the open descriptor) and what the operation does when  *)
(* it fails:                                                               *)
(*   fail   op_ret = -1, go to out                                         *)
(*   note   go on, the operation fails at the end                          *)
(*   probe  go on; ENOENT clears was_present                               *)
(*   skip   go on                                                          *)
(*   last   go to out with op_ret as the call before left it               *)
(*   errno  go to out with op_ret = -errno, which is not the -1 that the    *)
(*          clean-up after a failure looks for                              *)
(* lstat and fstat are posix_lstat_with_gen and posix_fstat_with_gen.       *)
(***************************************************************************)
EXTENDS Sequences

Call(sys, on, fails) == <<[sys |-> sys, on |-> on, fails |-> fails]>>
Must(sys, on) == Call(sys, on, "fail")
Note(sys, on) == Call(sys, on, "note")
Probe(on) == Call("lstat", on, "probe")
Try(sys, on) == Call(sys, on, "skip")
Last(sys, on) == Call(sys, on, "last")
If(cond, calls) == IF cond THEN calls ELSE <<>>

\* fd_ctx_get: the posix_fd of the open file, or an error
Ctx == Must("ctx", "fd")
\* the parent directory's attributes, before and after
Parent == Must("lstat", "parent")

setgid_override == Call("lstat", "parent", "errno")

_posix_xattr_get_set == Try("getxattr", "path")
posix_lookup_xattr_fill == _posix_xattr_get_set

posix_lookup == Note("lstat", "path") \o posix_lookup_xattr_fill \o Parent
posix_stat == Must("lstat", "path")

posix_do_chmod == Must("chmod", "path")
posix_do_chown == Must("lchown", "path")
posix_do_utimes == Must("utimes", "path")

posix_setattr(valid) ==
    Must("lstat", "path")
    \o If("mode" \in valid, posix_do_chmod)
    \o If("owner" \in valid, posix_do_chown)
    \o If("time" \in valid, posix_do_utimes)
    \o If(valid = {}, Must("lchown", "path"))
    \o Must("lstat", "path")

posix_do_fchown == Must("fchown", "fd")
posix_do_fchmod == Must("fchmod", "fd")
\* errno = ENOSYS, always
posix_do_futimes == Must("enosys", "fd")

posix_fsetattr(valid) ==
    Ctx \o Must("fstat", "fd")
    \o If("mode" \in valid, posix_do_fchmod)
    \o If("owner" \in valid, posix_do_fchown)
    \o If("time" \in valid, posix_do_futimes)
    \o If(valid = {}, Must("fchown", "fd"))
    \o Must("fstat", "fd")

posix_opendir == Must("opendir", "path") \o Must("setctx", "fd")
posix_getdents == Ctx \o Must("isdir", "fd") \o Must("scan", "fd")
posix_readlink == Must("readlink", "path") \o Must("lstat", "path")

\* The inode is made and given to the caller's user.
Make(sys, chown) ==
    Probe("path") \o setgid_override \o Parent \o Must(sys, "path")
    \o Must(chown, "path") \o Must("lstat", "path") \o Parent

\* A file system that cannot mknod a regular file is asked to creat it, with
\* the same outcomes.
posix_mknod == Make("mknod", "lchown")
posix_mkdir == Make("mkdir", "chown")
posix_symlink == Make("symlink", "lchown")

posix_unlink(background) ==
    Parent \o If(background, Must("open", "path")) \o Must("unlink", "path")
    \o Parent
posix_rmdir == Parent \o Must("rmdir", "path") \o Parent

posix_rename ==
    Parent \o Parent \o Probe("path2") \o Must("rename", "path2")
    \o Must("lstat", "path2") \o Parent \o Parent
posix_link ==
    Probe("path2") \o Parent \o Must("link", "path2")
    \o Must("lstat", "path2") \o Parent

posix_truncate ==
    Must("lstat", "path") \o Must("truncate", "path") \o Must("lstat", "path")

\* No flags means O_EXCL.
posix_create(excl) ==
    setgid_override \o Parent \o Probe("path")
    \o Last(IF excl THEN "open_excl" ELSE "open_creat", "path")
    \o Try("chown", "path") \o Must("fstat", "fd") \o Parent
    \o Must("setctx", "fd") \o Must("count", "fd")

posix_open(creat) ==
    setgid_override \o Probe("path")
    \o Last(IF creat THEN "open_creat" ELSE "open", "path")
    \o Must("setctx", "fd")
    \o If(creat, Must("chown", "path") \o Must("lstat", "path"))
    \o Must("count", "fd")

posix_readv ==
    Ctx \o Must("lseek", "fd") \o Must("read", "fd") \o Must("fstat", "fd")
posix_writev ==
    Ctx \o Must("fstat", "fd") \o Must("lseek", "fd") \o Must("writev", "fd")
    \o Try("fsync", "fd") \o Must("fstat", "fd")

posix_statfs == Must("statvfs", "path")
posix_flush == Ctx
posix_fsync(datasync) ==
    Ctx \o Must("fstat", "fd")
    \o Call("fsync", "fd", IF datasync THEN "skip" ELSE "fail")
    \o Must("fstat", "fd")

\* Without XATTR_REPLACE nothing is written.
set_file_contents(replace) ==
    If(replace, Must("open_file", "path") \o Must("write_file", "path"))
handle_pair(content, replace) ==
    IF content THEN set_file_contents(replace) ELSE Must("lsetxattr", "path")
posix_setxattr(content, replace) == handle_pair(content, replace)

get_file_contents == Must("lstat", "path") \o Must("read_file", "path")
posix_getxattr(name) ==
    If(name = "content", get_file_contents)
    \o If(name # "location",
          Must("llistxattr", "path") \o Try("getxattr", "path"))
posix_fgetxattr == Ctx \o Must("flistxattr", "fd") \o Try("fgetxattr", "fd")
fhandle_pair == Must("fsetxattr", "fd")
posix_fsetxattr == Ctx \o fhandle_pair
posix_removexattr == Must("lremovexattr", "path")
posix_fsyncdir == Ctx

\* inode->lock is held from the first call to the second.
do_xattrop(on) == Must("getcount", on) \o Must("setcount", on)
posix_xattrop == do_xattrop("path")
posix_fxattrop == Ctx \o do_xattrop("fd")

posix_access == Must("access", "path")
posix_ftruncate ==
    Ctx \o Must("fstat", "fd") \o Must("ftruncate", "fd") \o Must("fstat", "fd")

\* An entry of the right type that is already there is taken as it is.
create_entry(type, dirOnly) ==
    If(type = "dir" \/ ~dirOnly,
       Must(CASE type = "dir" -> "entry_mkdir"
              [] type = "reg" -> "entry_mknod"
              [] type = "lnk" -> "entry_symlink", "path"))
    \o If(type # "lnk", Must("utimes", "path"))
posix_setdents(type, dirOnly) ==
    Ctx \o Must("isdir", "fd") \o create_entry(type, dirOnly)
    \o If(type # "lnk", Must("chmod", "path")) \o Must("lchown", "path")

posix_fstat == Ctx \o Must("fstat", "fd")

posix_lk == Must("enosys", "fd")
posix_inodelk == Must("enosys", "path")
posix_finodelk == Must("enosys", "fd")
posix_entrylk == Must("enosys", "path")
posix_fentrylk == Must("enosys", "fd")

posix_do_readdir == Ctx \o Must("isdir", "fd") \o Must("scan", "fd")
posix_readdir == posix_do_readdir
posix_readdirp == posix_do_readdir
posix_stats == Must("statvfs", "path")
posix_checksum == Must("opendir", "path") \o Must("scan", "fd")
posix_rchecksum == Ctx \o Must("pread", "fd")

-----------------------------------------------------------------------------
(* The variants of an operation that its arguments and the volume's options *)
(* select.                                                                 *)
fops ==
    [lookup |-> {posix_lookup}, stat |-> {posix_stat},
     setattr |-> {posix_setattr(v) : v \in SUBSET {"mode", "owner", "time"}},
     fsetattr |-> {posix_fsetattr(v) : v \in SUBSET {"mode", "owner", "time"}},
     opendir |-> {posix_opendir}, getdents |-> {posix_getdents},
     readlink |-> {posix_readlink}, mknod |-> {posix_mknod},
     mkdir |-> {posix_mkdir}, symlink |-> {posix_symlink},
     unlink |-> {posix_unlink(b) : b \in BOOLEAN}, rmdir |-> {posix_rmdir},
     rename |-> {posix_rename}, link |-> {posix_link},
     truncate |-> {posix_truncate},
     create |-> {posix_create(e) : e \in BOOLEAN},
     open |-> {posix_open(c) : c \in BOOLEAN},
     readv |-> {posix_readv}, writev |-> {posix_writev},
     statfs |-> {posix_statfs}, flush |-> {posix_flush},
     fsync |-> {posix_fsync(d) : d \in BOOLEAN},
     setxattr |-> {posix_setxattr(c, r) : c \in BOOLEAN, r \in BOOLEAN},
     getxattr |-> {posix_getxattr(n) : n \in {"content", "location", "any"}},
     fgetxattr |-> {posix_fgetxattr}, fsetxattr |-> {posix_fsetxattr},
     removexattr |-> {posix_removexattr}, fsyncdir |-> {posix_fsyncdir},
     xattrop |-> {posix_xattrop}, fxattrop |-> {posix_fxattrop},
     access |-> {posix_access}, ftruncate |-> {posix_ftruncate},
     setdents |-> {posix_setdents(t, d) : t \in {"dir", "reg", "lnk"},
                                          d \in BOOLEAN},
     fstat |-> {posix_fstat}, lk |-> {posix_lk}, inodelk |-> {posix_inodelk},
     finodelk |-> {posix_finodelk}, entrylk |-> {posix_entrylk},
     fentrylk |-> {posix_fentrylk}, readdir |-> {posix_readdir},
     readdirp |-> {posix_readdirp}, stats |-> {posix_stats},
     checksum |-> {posix_checksum}, rchecksum |-> {posix_rchecksum}]

=============================================================================
