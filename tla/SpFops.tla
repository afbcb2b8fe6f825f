------------------------------- MODULE SpFops -------------------------------
(***************************************************************************)
(* performance/stat-prefetch (stat-prefetch.c): the operations.  A path    *)
(* operation goes through the inode's context; it first removes the        *)
(* entries of the names in clears.  An fd operation removes the entry of   *)
(* the name its file was opened by.  A table has the operations of a       *)
(* stretch of the file.                                                    *)
(***************************************************************************)
EXTENDS TLC

Path(clears) == [kind |-> "path", clears |-> clears]
Fd           == [kind |-> "fd", clears |-> {"fd"}]
New          == [kind |-> "new", clears |-> {}]
Dir(clears)  == [kind |-> "dir", clears |-> clears]

sp_open_calls == [open |-> Path({})]
sp_create_calls == [create |-> New]
sp_opendir_calls == [opendir |-> Path({})]
sp_mkdir_mknod == [mkdir |-> New, mknod |-> New]
sp_symlink_calls == [symlink |-> New]
sp_link_calls == [link |-> Path({"old"})]
sp_truncate_ftruncate == [truncate |-> Path({"old"}), ftruncate |-> Fd]
sp_setattr_calls == [setattr |-> Path({"old"})]
sp_readlink_calls == [readlink |-> Path({"old"})]
sp_unlink_calls == [unlink |-> Path({"old"})]
sp_rmdir_calls == [rmdir |-> Path({"old"})]
sp_readv_writev_fsync == [readv |-> Fd, writev |-> Fd, fsync |-> Fd]
sp_rename_calls == [rename |-> Path({"old", "new"})]
sp_setxattr_calls == [setxattr |-> Path({"old"})]
sp_removexattr_calls == [removexattr |-> Path({"old"})]
sp_getxattr_setdents == [getxattr |-> Path({}), setdents |-> Dir({"old"})]
sp_getdents_calls == [getdents |-> Dir({})]
sp_checksum_calls == [checksum |-> Path({"old"})]
sp_xattrop_fxattrop == [xattrop |-> Path({"old"}), fxattrop |-> Fd]
sp_stat_access == [stat |-> Path({}), access |-> Path({})]
sp_inodelk_entrylk == [inodelk |-> Path({}), entrylk |-> Path({})]

fops ==
  sp_open_calls @@ sp_create_calls @@ sp_opendir_calls @@ sp_mkdir_mknod @@ sp_symlink_calls
  @@ sp_link_calls @@ sp_truncate_ftruncate @@ sp_setattr_calls @@ sp_readlink_calls
  @@ sp_unlink_calls @@ sp_rmdir_calls @@ sp_readv_writev_fsync @@ sp_rename_calls
  @@ sp_setxattr_calls @@ sp_removexattr_calls @@ sp_getxattr_setdents @@ sp_getdents_calls
  @@ sp_checksum_calls @@ sp_xattrop_fxattrop @@ sp_stat_access @@ sp_inodelk_entrylk

=============================================================================
