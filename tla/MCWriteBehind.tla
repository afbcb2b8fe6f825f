----------------------------- MODULE MCWriteBehind --------------------------
(* Instances of WriteBehind for TLC. *)
EXTENDS WriteBehind

Setting(flush_behind, callers, aggregate, in_order) ==
  [flush_behind |-> flush_behind, aggregate_size |-> aggregate, callers |-> callers,
   in_order |-> in_order]

(* Two callers whose writes are gathered; and writes that are sent one by one to
   a child that answers them in any order. *)
GatheredOrNot ==
  {Setting(TRUE, 2, 2, TRUE), Setting(FALSE, 2, 2, TRUE), Setting(TRUE, 1, 1, FALSE),
   Setting(FALSE, 2, 1, FALSE)}
=============================================================================
