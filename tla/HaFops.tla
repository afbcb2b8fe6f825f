------------------------------- MODULE HaFops -------------------------------
(***************************************************************************)
(* cluster/ha (xlators/cluster/ha/src/ha.c): how every fop goes about the   *)
(* children.  "inode" and "fd" ask one child of the inode's or the open     *)
(* file's state array and fail over to the next; "make" makes an inode on   *)
(* one child and looks it up on the others; "lookup", "open" and "create"   *)
(* ask all; "mop" and "statfs" ask any; "lk" asks none.  A table has the    *)
(* fops of a stretch of the file.                                          *)
(***************************************************************************)
EXTENDS TLC

ha_stat_setattr_fsetattr == [stat |-> "inode", setattr |-> "inode", fsetattr |-> "fd"]
ha_truncate_ftruncate == [truncate |-> "inode", ftruncate |-> "fd"]
ha_access_readlink == [access |-> "inode", readlink |-> "inode"]
ha_mkdir_unlink == [mkdir |-> "make", unlink |-> "inode"]
ha_symlink_rename == [symlink |-> "make", rename |-> "inode"]
ha_readv_writev == [readv |-> "fd", writev |-> "fd"]
ha_flush_fsync == [flush |-> "fd", fsync |-> "fd"]
ha_fstat_calls == [fstat |-> "fd"]
ha_opendir_calls == [opendir |-> "open"]
ha_getdents_setdents == [getdents |-> "fd", setdents |-> "fd"]
ha_setxattr_getxattr == [setxattr |-> "inode", getxattr |-> "inode"]
ha_xattrop_fxattrop == [xattrop |-> "inode", fxattrop |-> "fd"]
ha_checksum_readdir == [checksum |-> "inode", readdir |-> "fd", readdirp |-> "fd"]
ha_getspec_calls == [getspec |-> "mop"]

fops ==
  ha_stat_setattr_fsetattr @@ ha_truncate_ftruncate @@ ha_access_readlink
  @@ ha_mkdir_unlink @@ ha_symlink_rename @@ ha_readv_writev
  @@ ha_flush_fsync @@ ha_fstat_calls @@ ha_opendir_calls
  @@ ha_getdents_setdents @@ ha_setxattr_getxattr @@ ha_xattrop_fxattrop
  @@ ha_checksum_readdir @@ ha_getspec_calls
  @@ [lookup |-> "lookup", mknod |-> "make", rmdir |-> "inode",
      link |-> "make", create |-> "create", open |-> "open",
      fsyncdir |-> "fd", statfs |-> "statfs", removexattr |-> "inode",
      lk |-> "lk", stats |-> "mop"]

=============================================================================
