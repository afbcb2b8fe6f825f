------------------------------- MODULE DhtFops -------------------------------
(***************************************************************************)
(* cluster/dht (dht-common.c): who answers every fop.  "cached" is the     *)
(* subvolume that has the file, by the name, "fd" the same for an open     *)
(* file; "layout" and "fd_layout" are the subvolumes of the inode's        *)
(* layout, "all" all of them.  A table has the fops of a stretch of the    *)
(* file.                                                                   *)
(***************************************************************************)
EXTENDS TLC

dht_stat_fstat_truncate ==
  [stat |-> "layout", fstat |-> "fd_layout", truncate |-> "cached"]
dht_ftruncate_calls == [ftruncate |-> "fd"]
dht_access_readlink == [access |-> "cached", readlink |-> "cached"]
dht_getxattr_setxattr_removexattr ==
  [getxattr |-> "cached", setxattr |-> "cached", removexattr |-> "cached"]
dht_open_readv == [open |-> "cached", readv |-> "fd"]
dht_writev_flush_fsync == [writev |-> "fd", flush |-> "fd", fsync |-> "fd"]
dht_lk_statfs == [lk |-> "fd", statfs |-> "all"]
dht_opendir_calls == [opendir |-> "all"]
dht_fsyncdir_calls == [fsyncdir |-> "all"]
dht_xattrop_fxattrop_inodelk ==
  [xattrop |-> "cached", fxattrop |-> "fd", inodelk |-> "cached"]
dht_finodelk_entrylk_fentrylk ==
  [finodelk |-> "fd", entrylk |-> "cached", fentrylk |-> "fd"]
dht_setattr_fsetattr == [setattr |-> "layout", fsetattr |-> "fd_layout"]

fops ==
  dht_stat_fstat_truncate @@ dht_ftruncate_calls @@ dht_access_readlink
  @@ dht_getxattr_setxattr_removexattr @@ dht_open_readv @@ dht_writev_flush_fsync
  @@ dht_lk_statfs @@ dht_opendir_calls @@ dht_fsyncdir_calls
  @@ dht_xattrop_fxattrop_inodelk @@ dht_finodelk_entrylk_fentrylk @@ dht_setattr_fsetattr

=============================================================================
