----------------------------- MODULE StripeFops -----------------------------
(***************************************************************************)
(* cluster/stripe (xlators/cluster/stripe/src/stripe.c): when every fop is *)
(* refused, and how its callback makes one answer of those of the          *)
(* children.                                                               *)
(*   any     success of one child is success, ENOTCONN of one is failure   *)
(*   all     failure of one is failure                                     *)
(*   last    the last answer is the answer                                 *)
(*   one     success of one child is success, whatever the others say      *)
(*   first   the answer of the first child, ENOTCONN of one is failure     *)
(*   alone   only the first child is asked                                 *)
(*   io      readv and writev, which ask the children that have the blocks *)
(* chain: the first child is asked before the others.  A table has the     *)
(* fops, or the callbacks, of a stretch of the file.                       *)
(***************************************************************************)
EXTENDS TLC

Fop(refused, collect) ==
  [refused |-> refused, collect |-> collect, chain |-> FALSE]
Chain(f) == [f EXCEPT !.chain = TRUE]

stack_unwind_fsync_cbks == [stack_unwind |-> "any", fsync |-> "any"]
unlink_truncate_cbks == [unlink |-> "any", truncate |-> "any"]
buf_inode_cbks == [buf |-> "any", common_inode |-> "alone", inode |-> "any"]
stripe_stack_rename_cbk == "any"
stripe_open_cbk == "all"

stripe_lookup_stat ==
  [lookup |-> Fop("never", "any"), stat |-> Fop("first", buf_inode_cbks.buf)]
stripe_statfs_truncate ==
  [statfs |-> Fop("never", "one"), truncate |-> Fop("first", unlink_truncate_cbks.truncate)]
stripe_setattr_fsetattr ==
  [setattr |-> Fop("first", "any"), fsetattr |-> Fop("never", "any")]
stripe_rename_unlink ==
  [rename |-> Chain(Fop("any", stripe_stack_rename_cbk)),
   unlink |-> Fop("any", unlink_truncate_cbks.unlink)]
stripe_rmdir_calls == [rmdir |-> Chain(Fop("any", unlink_truncate_cbks.unlink))]

\* A regular file; anything else is made on the first child alone.
stripe_mknod_calls ==
  [mknod |-> Fop("any", "all"), mknod_special |-> Fop("first", buf_inode_cbks.common_inode)]
stripe_mkdir_link ==
  [mkdir |-> Fop("first", buf_inode_cbks.inode), link |-> Fop("any", buf_inode_cbks.inode)]
stripe_create_calls == [create |-> Fop("any", "all")]
stripe_open_calls == [open |-> Fop("first", stripe_open_cbk)]
stripe_opendir_calls == [opendir |-> Fop("first", "last")]
stripe_lk_setdents ==
  [lk |-> Fop("never", "first"), setdents |-> Fop("never", stack_unwind_fsync_cbks.stack_unwind)]
stripe_flush_fsync_fstat ==
  [flush |-> Fop("first", stack_unwind_fsync_cbks.stack_unwind),
   fsync |-> Fop("never", stack_unwind_fsync_cbks.fsync),
   fstat |-> Fop("never", buf_inode_cbks.buf)]
stripe_ftruncate_fsyncdir ==
  [ftruncate |-> Fop("never", unlink_truncate_cbks.truncate),
   fsyncdir |-> Fop("never", stack_unwind_fsync_cbks.stack_unwind)]
stripe_stats_calls == [stats |-> Fop("never", "all")]

fops ==
  stripe_lookup_stat @@ stripe_statfs_truncate @@ stripe_setattr_fsetattr
  @@ stripe_rename_unlink @@ stripe_rmdir_calls @@ stripe_mknod_calls @@ stripe_mkdir_link
  @@ stripe_create_calls @@ stripe_open_calls @@ stripe_opendir_calls @@ stripe_lk_setdents
  @@ stripe_flush_fsync_fstat @@ stripe_ftruncate_fsyncdir @@ stripe_stats_calls
  @@ [readv |-> Fop("never", "io"), writev |-> Fop("never", "io")]

=============================================================================
