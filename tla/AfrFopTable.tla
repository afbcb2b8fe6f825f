---------------------------- MODULE AfrFopTable ----------------------------
(***************************************************************************)
(* cluster/afr: the operations (afr-dir-write.c, afr-inode-write.c,        *)
(* afr-inode-read.c, afr-dir-read.c, afr.c).  A transaction has a type,    *)
(* the rule its wind_cbk follows (the errors that count against the child, *)
(* and when the caller is answered) and the descriptor it locks through:   *)
(* "noctx" is a descriptor of opendir, on which afr keeps no context.      *)
(***************************************************************************)
EXTENDS TLC

AnyError == {"ENOTCONN", "EIO", "EAGAIN", "EEXIST", "ENOENT", "ENOTEMPTY", "ENODATA"}

AtLast  == "last"    \* when the last child has answered
AtFirst == "first"   \* at the first success
AtRead  == "read"    \* at a success, once the child to read from has answered
AtDone  == "done"    \* when the transaction is over

afr_create_wind_cbk      == [dead |-> AnyError, unwind |-> AtLast]
afr_mknod_wind_cbk       == [dead |-> AnyError, unwind |-> AtLast]
afr_mkdir_wind_cbk       == [dead |-> AnyError, unwind |-> AtLast]
afr_link_wind_cbk        == [dead |-> AnyError, unwind |-> AtLast]
afr_symlink_wind_cbk     == [dead |-> AnyError, unwind |-> AtLast]
afr_rename_wind_cbk      == [dead |-> AnyError, unwind |-> AtLast]
afr_unlink_wind_cbk      == [dead |-> AnyError, unwind |-> AtLast]
afr_rmdir_wind_cbk       == [dead |-> AnyError \ {"ENOTEMPTY"}, unwind |-> AtLast]
afr_setdents_wind_cbk    == [dead |-> AnyError, unwind |-> AtDone]
afr_setattr_wind_cbk     == [dead |-> AnyError, unwind |-> AtRead]
afr_fsetattr_wind_cbk    == [dead |-> AnyError, unwind |-> AtRead]
afr_setxattr_wind_cbk    == [dead |-> {}, unwind |-> AtFirst]
afr_removexattr_wind_cbk == [dead |-> {}, unwind |-> AtFirst]

Transaction(type, fd, makes, cbk) ==
  [kind |-> "transaction", type |-> type, fd |-> fd, makes |-> makes, cbk |-> cbk]

afr_create      == Transaction("entry", "none", TRUE, afr_create_wind_cbk)
afr_mknod       == Transaction("entry", "none", TRUE, afr_mknod_wind_cbk)
afr_mkdir       == Transaction("entry", "none", TRUE, afr_mkdir_wind_cbk)
afr_link        == Transaction("entry", "none", TRUE, afr_link_wind_cbk)
afr_symlink     == Transaction("entry", "none", TRUE, afr_symlink_wind_cbk)
afr_rename      == Transaction("rename", "none", FALSE, afr_rename_wind_cbk)
afr_unlink      == Transaction("entry", "none", FALSE, afr_unlink_wind_cbk)
afr_rmdir       == Transaction("entry", "none", FALSE, afr_rmdir_wind_cbk)
afr_setdents    == Transaction("entry", "noctx", FALSE, afr_setdents_wind_cbk)
afr_setattr     == Transaction("meta", "none", FALSE, afr_setattr_wind_cbk)
afr_fsetattr    == Transaction("meta", "open", FALSE, afr_fsetattr_wind_cbk)
afr_setxattr    == Transaction("meta", "none", FALSE, afr_setxattr_wind_cbk)
afr_removexattr == Transaction("meta", "none", FALSE, afr_removexattr_wind_cbk)

\* A read: where it starts, and whether it goes on to the other children.
Read(start, on) == [kind |-> "read", start |-> start, on |-> on]

afr_access   == Read("read_child", TRUE)
afr_stat     == Read("read_child", TRUE)
afr_fstat    == Read("read_child", TRUE)
afr_readlink == Read("read_child", TRUE)
afr_getxattr == Read("read_child", TRUE)
afr_readv    == Read("read_child", TRUE)
afr_readdir_readdirp ==
  [readdir |-> Read("first_up", FALSE), readdirp |-> Read("first_up", FALSE)]
afr_getdents == Read("first_up", TRUE)

\* Wound to every child that is up; one success is enough.
ToAll == [kind |-> "all"]

afr_fsync    == ToAll
afr_fsyncdir_xattrop  == [fsyncdir |-> ToAll, xattrop |-> ToAll]
afr_fxattrop_inodelk  == [fxattrop |-> ToAll, inodelk |-> ToAll]
afr_finodelk_entrylk  == [finodelk |-> ToAll, entrylk |-> ToAll]
afr_fentrylk_checksum == [fentrylk |-> ToAll, checksum |-> ToAll]
afr_statfs   == ToAll

afr_lk == [kind |-> "lk"]

fops ==
  [create |-> afr_create, mknod |-> afr_mknod, mkdir |-> afr_mkdir, link |-> afr_link,
   symlink |-> afr_symlink, rename |-> afr_rename, unlink |-> afr_unlink,
   rmdir |-> afr_rmdir, setdents |-> afr_setdents, setattr |-> afr_setattr,
   fsetattr |-> afr_fsetattr, setxattr |-> afr_setxattr, removexattr |-> afr_removexattr,
   access |-> afr_access, stat |-> afr_stat, fstat |-> afr_fstat,
   readlink |-> afr_readlink, getxattr |-> afr_getxattr, readv |-> afr_readv,
   getdents |-> afr_getdents, fsync |-> afr_fsync, statfs |-> afr_statfs, lk |-> afr_lk]
  @@ afr_readdir_readdirp @@ afr_fsyncdir_xattrop @@ afr_fxattrop_inodelk
  @@ afr_finodelk_entrylk @@ afr_fentrylk_checksum

=============================================================================
