------------------------------- MODULE Stripe -------------------------------
(***************************************************************************)
(* cluster/stripe: a file spread over all children, block after block.     *)
(* Child c keeps the whole offset range and has data only in its blocks.   *)
(*                                                                         *)
(* piece[c] is what child c holds of the one file of the model: the stripe *)
(* index in its extended attributes (-1: none) and its bytes (0 is what a  *)
(* gap reads as).  fctx is the stripe_fd_ctx_t of the open file.  call is  *)
(* the frame under way, out the calls it has wound, heal the frame of the  *)
(* entry self heal, stray the calls whose frame was unwound before their   *)
(* answers.  good holds the bytes of the file while every write to it      *)
(* succeeded.                                                              *)
(*                                                                         *)
(* The children are external: they answer in any order, from any thread,   *)
(* with success, an error or ENOTCONN.                                     *)
(***************************************************************************)
EXTENDS Integers, Sequences, FiniteSets, SequencesExt

CONSTANTS
  Children,    \* how many children
  StripeSize,  \* local->stripe_size, in cells
  Io,          \* the <<offset, size>> of reads and writes
  StripeFops,  \* the table of StripeFops.tla
  StripeFop,   \* the fops asked for
  MaxStripeOps,
  MaxStripeFaults

VARIABLES piece, up, heard, told, first_child_down, nodes_down, fctx, call,
          out, stray, heal, good, nops, faults

stripeVars == <<piece, up, heard, told, first_child_down, nodes_down, fctx,
                call, out, stray, heal, good, nops, faults>>

Child == 0 .. Children - 1
First == 0

NoPiece == [has |-> FALSE, index |-> -1, data |-> <<>>]
NoFctx  == [known |-> FALSE, arr |-> <<>>]

Refused(f) ==
  \/ StripeFops[f].refused \in {"first", "any"} /\ first_child_down
  \/ StripeFops[f].refused = "any" /\ nodes_down > 0

(***************************************************************************)
(* The child's side: what it may answer to operation ph and what it does.  *)
(***************************************************************************)
NeedsPiece == {"open", "getxattr", "setxattr", "unlink", "readv", "writev",
               "truncate", "ftruncate", "lookup", "stat", "fstat"}

Result(c, ph) ==
  CASE ~up[c] -> "notconn"
    [] ph \in NeedsPiece /\ ~piece[c].has -> "enoent"
    [] ph = "mknod" /\ piece[c].has -> "eexist"
    [] OTHER -> "ok"

\* Writing the cells at off ..: a gap before them reads as zero.
Put(data, off, cells) ==
  [k \in 1 .. (IF Len(data) > off + Len(cells) THEN Len(data)
                                               ELSE off + Len(cells)) |->
     IF k > off /\ k <= off + Len(cells) THEN cells[k - off]
     ELSE IF k <= Len(data) THEN data[k] ELSE 0]

Cut(data, n) ==
  [k \in 1 .. n |-> IF k <= Len(data) THEN data[k] ELSE 0]

Get(data, off, n) ==
  SubSeq(data, off + 1, IF off + n < Len(data) THEN off + n ELSE Len(data))

Effect(p, ph, o) ==
  CASE ph \in {"create", "mknod"} -> [p EXCEPT !.has = TRUE]
    [] ph = "setxattr" -> [p EXCEPT !.index = o.index]
    [] ph = "unlink" -> NoPiece
    [] ph \in {"truncate", "ftruncate"} -> [p EXCEPT !.data = Cut(@, o.off)]
    [] ph = "writev" -> [p EXCEPT !.data = Put(@, o.off, o.cells)]
    [] OTHER -> p

----------------------------------------------------------------------------
(* Frames.  A call wound is [c, ph, i, off, n, cells, index]: the child,   *)
(* the operation, its place among the replies, and its arguments.          *)

Wound(c, ph) ==
  [c |-> c, ph |-> ph, i |-> 0, off |-> call.off, n |-> 0, cells |-> <<>>,
   index |-> -1]

Frame(f, off, n) ==
  [st |-> "run", fop |-> f, phase |-> f, count |-> 0, wind_count |-> 0,
   unwind |-> FALSE, ret |-> "fail", failed |-> FALSE, dead |-> FALSE,
   off |-> off, n |-> n, sent |-> 0, sum |-> 0, entry_count |-> 0,
   arr |-> <<>>, need |-> FALSE, replies |-> <<>>, testing |-> 0,
   raced |-> FALSE, early |-> FALSE]

Idle == [Frame("stat", 0, 0) EXCEPT !.st = "idle"]

Unwind(cl, ret) == call' = [cl EXCEPT !.st = "done", !.ret = ret]

\* STACK_WIND of ph to the children of C: cl waits for their answers.
WindTo(cl, ph, C, rest) ==
  /\ call' = [cl EXCEPT !.phase = ph, !.count = Cardinality(C)]
  /\ out' = rest \cup {[Wound(c, ph) EXCEPT !.off = cl.off] : c \in C}

\* setxattr with the size, the count and the index of each child.
WindTags(cl, rest) ==
  /\ call' = [cl EXCEPT !.phase = "setxattr", !.count = Children]
  /\ out' = rest \cup {[Wound(c, "setxattr") EXCEPT !.index = c] : c \in Child}

----------------------------------------------------------------------------
(* Reads and writes. *)

\* The child that holds offset off, by the array of the open file.
idx(off) == (off \div StripeSize) % Len(fctx.arr)

\* Up to the end of the block, or of the request.
fill_size(off, remaining) ==
  LET room == StripeSize - (off % StripeSize)
  IN  IF room > remaining THEN remaining ELSE room

\* All the reads are wound; the answers are kept by their place.
RECURSIVE Chunks(_, _)
Chunks(off, n) ==
  IF n = 0 THEN <<>>
  ELSE LET k == fill_size(off, n)
       IN  <<[off |-> off, n |-> k]>> \o Chunks(off + k, n - k)

stripe_readv(cl) ==
  LET ch == Chunks(cl.off, cl.n) IN
  /\ call' = [cl EXCEPT !.wind_count = Len(ch),
                        !.replies = [i \in 1 .. Len(ch) |-> <<>>]]
  /\ out' = {[Wound(fctx.arr[idx(ch[i].off) + 1], "readv") EXCEPT
                !.i = i, !.off = ch[i].off, !.n = ch[i].n] :
             i \in 1 .. Len(ch)}

stripe_readv_cbk(cl, o, res, rest) ==
  LET l == [cl EXCEPT
              !.count = @ + 1,
              !.failed = @ \/ res # "ok",
              !.dead = @ \/ res = "notconn",
              !.replies[o.i] = IF res = "ok"
                               THEN Get(piece[o.c].data, o.off, o.n)
                               ELSE <<>>]
  IN  /\ out' = rest
      /\ IF l.count # l.wind_count THEN call' = l
         ELSE Unwind([l EXCEPT !.replies = FlattenSeq(@)],
                     IF l.failed THEN "fail" ELSE "ok")

\* The bytes a write of the model carries: the operation's number.
Cells(n) == [k \in 1 .. n |-> nops]

\* One round of the loop of stripe_writev: the answers to the rounds before
\* may come in between.  wind_count and unwind are set without the lock;
\* raced records that a callback was between its tests of the two when the
\* last round set them.
stripe_writev ==
  LET cl   == call
      off  == cl.off + cl.sent
      k    == fill_size(off, cl.n - cl.sent)
      last == cl.sent + k = cl.n
  IN
  /\ cl.st = "run" /\ cl.fop = "writev" /\ cl.sent < cl.n
  /\ call' = [cl EXCEPT !.wind_count = @ + 1, !.sent = @ + k,
                        !.unwind = last,
                        !.raced = last /\ cl.testing > 0]
  /\ out' = out \cup {[Wound(fctx.arr[idx(off) + 1], "writev") EXCEPT
                         !.i = cl.wind_count + 1, !.off = off, !.n = k,
                         !.cells = Cells(k)]}
  /\ UNCHANGED <<piece, up, heard, told, first_child_down, nodes_down, fctx,
                 stray, heal, good, nops, faults>>

\* Under the lock: the answer is counted.  op_ret is -1 at a failure, and a
\* later success is added to that.  The count, compared with wind_count
\* after the lock, can only fall behind it; so the comparison is made here.
\* testing is how many callbacks found them equal and go on to test unwind.
stripe_writev_cbk(cl, o, res, rest) ==
  /\ out' = rest
  /\ call' = [cl EXCEPT !.count = @ + 1,
                        !.dead = @ \/ res = "notconn",
                        !.sum = IF res = "ok" THEN @ + o.n ELSE -1,
                        !.testing = @ + (IF cl.count + 1 = cl.wind_count
                                         THEN 1 ELSE 0)]

\* ... && local->unwind.  The frame goes, whatever is still out for it.
writev_cbk_end ==
  LET l == [call EXCEPT !.testing = @ - 1] IN
  /\ call.st = "run" /\ call.testing > 0
  /\ IF l.unwind
     THEN /\ Unwind([l EXCEPT !.early = out # {}],
                    IF l.sum = l.n THEN "ok" ELSE "fail")
          /\ stray' = stray \cup out /\ out' = {}
     ELSE call' = l /\ UNCHANGED <<out, stray>>
  /\ UNCHANGED <<piece, up, heard, told, first_child_down, nodes_down, fctx,
                 heal, good, nops, faults>>

\* A child still does what a frame that is gone had asked of it.
Stray(o) ==
  /\ o \in stray /\ stray' = stray \ {o}
  /\ piece' = IF Result(o.c, o.ph) = "ok"
              THEN [piece EXCEPT ![o.c] = Effect(@, o.ph, o)] ELSE piece
  /\ UNCHANGED <<up, heard, told, first_child_down, nodes_down, fctx, call,
                 out, heal, good, nops, faults>>

----------------------------------------------------------------------------
(* create, mknod and open take several rounds. *)

Tally(cl, c, res) ==
  LET how == StripeFops[cl.fop].collect
      ok  == res = "ok"
  IN  [cl EXCEPT
         !.count = @ - 1,
         !.dead = @ \/ res = "notconn",
         !.failed = @ \/ (~ok /\ how = "all")
                      \/ (res = "notconn" /\ how \in {"any", "first"}),
         !.need = @ \/ res = "enoent",
         !.ret = IF how = "last" THEN (IF ok THEN "ok" ELSE "fail")
                 ELSE IF ok /\ (how = "first" => c = First) THEN "ok" ELSE @]

Total(cl) == IF cl.failed THEN "fail" ELSE cl.ret

stripe_create_cbk(cl, c, res, rest) ==
  LET l == Tally(cl, c, res) IN
  IF l.count # 0
  THEN call' = l /\ out' = rest /\ UNCHANGED fctx
  ELSE IF Total(l) # "ok"
  THEN Unwind(l, "fail") /\ out' = rest /\ UNCHANGED fctx
  ELSE /\ fctx' = [known |-> TRUE, arr |-> [i \in 1 .. Children |-> i - 1]]
       /\ WindTags(l, rest)

stripe_create_setxattr_cbk(cl, c, res, rest) ==
  LET l == Tally(cl, c, res) IN
  IF l.count # 0 THEN call' = l /\ out' = rest
  ELSE IF Total(l) = "ok" THEN Unwind(l, "ok") /\ out' = rest
  ELSE WindTo(l, "unlink", Child, rest)

stripe_create_fail_unlink_cbk(cl, c, res, rest) ==
  LET l == [cl EXCEPT !.count = @ - 1] IN
  /\ out' = rest
  /\ IF l.count # 0 THEN call' = l ELSE Unwind(l, "fail")

stripe_mknod_ifreg_cbk(cl, c, res, rest) ==
  LET l == Tally(cl, c, res) IN
  IF l.count # 0 THEN call' = l /\ out' = rest
  ELSE IF Total(l) # "ok" THEN Unwind(l, "fail") /\ out' = rest
  ELSE WindTags(l, rest)

\* The list of children is never set: the pieces are not taken back and
\* nobody answers the caller.
stripe_mknod_ifreg_setxattr_cbk(cl, c, res, rest) ==
  LET l == Tally(cl, c, res) IN
  /\ out' = rest
  /\ IF l.count # 0 THEN call' = l
     ELSE IF Total(l) = "ok" THEN Unwind(l, "ok")
     ELSE call' = [l EXCEPT !.st = "forgotten"]

\* The array of the open file from the index of each piece.  All pieces the
\* model makes carry the same size and count.
stripe_open_getxattr_cbk(cl, o, res, rest) ==
  LET ix  == piece[o.c].index
      tag == res = "ok" /\ ix # -1
      l   == [cl EXCEPT
                !.count = @ - 1,
                !.dead = @ \/ res = "notconn",
                !.failed = @ \/ res = "notconn",
                !.arr = IF ~tag THEN @
                        ELSE [(IF @ = <<>> THEN [i \in 1 .. Children |-> -1]
                                           ELSE @) EXCEPT ![ix + 1] = o.c],
                !.entry_count = @ + (IF tag THEN 1 ELSE 0)]
  IN  IF l.count # 0 THEN call' = l /\ out' = rest
      ELSE IF l.entry_count # Children THEN Unwind(l, "fail") /\ out' = rest
      ELSE WindTo(l, "open", Child, rest)

OpenDone(cl, c, res, rest) ==
  LET l == Tally(cl, c, res) IN
  /\ out' = rest
  /\ IF l.count # 0 THEN call' = l /\ UNCHANGED fctx
     ELSE /\ Unwind(l, Total(l))
          /\ fctx' = IF Total(l) = "ok"
                     THEN [known |-> TRUE, arr |-> l.arr] ELSE fctx

----------------------------------------------------------------------------
(* lookup, and the entry self heal behind it. *)

\* mknod on every child; no attribute is set.
stripe_entry_self_heal == heal \cup {[c |-> c, ph |-> "make"] : c \in Child}

stripe_lookup_cbk(cl, c, res, rest) ==
  LET l == [Tally(cl, c, res) EXCEPT
              !.arr = IF res = "ok" /\ c = First THEN <<1>> ELSE @]
  IN
  /\ out' = rest
  /\ IF l.count # 0 THEN call' = l /\ UNCHANGED heal
     ELSE /\ Unwind(l, Total(l))
          /\ heal' = IF l.ret = "ok" /\ l.need /\ l.arr = <<1>>
                     THEN stripe_entry_self_heal ELSE heal

stripe_sh_make_entry_cbk(c) ==
  /\ [c |-> c, ph |-> "make"] \in heal
  /\ piece' = IF up[c] THEN [piece EXCEPT ![c].has = TRUE] ELSE piece
  /\ heal' = (heal \ {[c |-> c, ph |-> "make"]})
               \cup {[c |-> c, ph |-> "chown"]}
  /\ UNCHANGED <<up, heard, told, first_child_down, nodes_down, fctx, call,
                 out, stray, good, nops, faults>>

stripe_sh_chown_cbk(c) ==
  /\ [c |-> c, ph |-> "chown"] \in heal
  /\ heal' = heal \ {[c |-> c, ph |-> "chown"]}
  /\ UNCHANGED <<piece, up, heard, told, first_child_down, nodes_down, fctx,
                 call, out, stray, good, nops, faults>>

----------------------------------------------------------------------------
(* rename, rmdir: the first child, then the others. *)

\* Mutant of stripe_first_cbk: the first child is still counted.
first_cbk_keeps_count(cl, c, res, rest) ==
  IF res # "ok"
  THEN Unwind([cl EXCEPT !.dead = res = "notconn"], "fail") /\ out' = rest
  ELSE /\ call' = [cl EXCEPT !.phase = "others", !.count = Children]
       /\ out' = {Wound(d, "others") : d \in Child \ {First}}

stripe_first_cbk(cl, c, res, rest) ==
  IF res # "ok"
  THEN Unwind([cl EXCEPT !.dead = res = "notconn"], "fail") /\ out' = rest
  ELSE WindTo([cl EXCEPT !.ret = IF cl.fop = "rename" THEN "ok" ELSE @],
              "others", Child \ {First}, rest)

Collect(cl, c, res, rest) ==
  LET l == Tally(cl, c, res) IN
  /\ out' = rest
  /\ IF l.count # 0 THEN call' = l ELSE Unwind(l, Total(l))

----------------------------------------------------------------------------
Callback(cl, o, res, rest) ==
  CASE cl.fop = "create" /\ o.ph = "create" ->
         stripe_create_cbk(cl, o.c, res, rest) /\ UNCHANGED heal
    [] cl.fop = "create" /\ o.ph = "setxattr" ->
         stripe_create_setxattr_cbk(cl, o.c, res, rest)
         /\ UNCHANGED <<fctx, heal>>
    [] cl.fop = "create" /\ o.ph = "unlink" ->
         stripe_create_fail_unlink_cbk(cl, o.c, res, rest)
         /\ UNCHANGED <<fctx, heal>>
    [] cl.fop = "mknod" /\ o.ph = "mknod" ->
         stripe_mknod_ifreg_cbk(cl, o.c, res, rest) /\ UNCHANGED <<fctx, heal>>
    [] cl.fop = "mknod" /\ o.ph = "setxattr" ->
         stripe_mknod_ifreg_setxattr_cbk(cl, o.c, res, rest)
         /\ UNCHANGED <<fctx, heal>>
    [] cl.fop = "open" /\ o.ph = "getxattr" ->
         stripe_open_getxattr_cbk(cl, o, res, rest) /\ UNCHANGED <<fctx, heal>>
    [] cl.fop = "open" /\ o.ph = "open" ->
         OpenDone(cl, o.c, res, rest) /\ UNCHANGED heal
    [] cl.fop = "readv" ->
         stripe_readv_cbk(cl, o, res, rest) /\ UNCHANGED <<fctx, heal>>
    [] cl.fop = "writev" ->
         stripe_writev_cbk(cl, o, res, rest) /\ UNCHANGED <<fctx, heal>>
    [] cl.fop = "lookup" ->
         stripe_lookup_cbk(cl, o.c, res, rest) /\ UNCHANGED fctx
    [] StripeFops[cl.fop].chain /\ o.ph = cl.fop ->
         stripe_first_cbk(cl, o.c, res, rest) /\ UNCHANGED <<fctx, heal>>
    [] OTHER ->
         Collect(cl, o.c, res, rest) /\ UNCHANGED <<fctx, heal>>

\* A child answers.  A fault is an error it has for reasons of its own.
Answer(o, fault) ==
  LET res == IF fault THEN "err" ELSE Result(o.c, o.ph) IN
  /\ o \in out /\ call.st = "run"
  /\ fault => faults < MaxStripeFaults /\ up[o.c]
  /\ faults' = faults + (IF fault THEN 1 ELSE 0)
  /\ piece' = IF res = "ok"
              THEN [piece EXCEPT ![o.c] = Effect(@, o.ph, o)] ELSE piece
  /\ Callback(call, o, res, out \ {o})
  /\ UNCHANGED <<up, heard, told, first_child_down, nodes_down, stray, good,
                 nops>>

\* A request comes in.
Entry(cl, f) ==
  CASE Refused(f) -> Unwind(cl, "fail") /\ out' = {}
    [] f = "readv"  -> stripe_readv(cl)
    [] f = "writev" -> call' = cl /\ out' = {}
    [] f = "open"   -> WindTo(cl, "getxattr", Child, {})
    [] StripeFops[f].chain \/ StripeFops[f].collect = "alone" ->
         WindTo(cl, f, {First}, {})
    [] OTHER -> WindTo(cl, f, Child, {})

OnFd == {"readv", "writev", "fsetattr", "lk", "flush", "fsync", "fstat",
         "ftruncate", "fsyncdir", "setdents"}

Ask(f, io) ==
  /\ call.st = "idle" /\ nops < MaxStripeOps
  /\ f \in OnFd => fctx.known
  /\ f \in {"open", "create"} => ~fctx.known
  /\ f \notin {"readv", "writev", "truncate", "ftruncate"} => io = <<0, 0>>
  /\ f \in {"readv", "writev"} => io[2] > 0
  /\ f \in {"truncate", "ftruncate"} => io[2] = 0
  /\ nops' = nops + 1
  /\ Entry(Frame(f, io[1], io[2]), f)
  /\ good' =
       CASE f = "writev" /\ good.sure ->
              [good EXCEPT !.data =
                 Put(@, io[1], [k \in 1 .. io[2] |-> nops'])]
         [] f \in {"truncate", "ftruncate"} /\ good.sure /\ ~Refused(f) ->
              [good EXCEPT !.data = Cut(@, io[1])]
         [] f \in {"unlink", "mknod", "create", "rename", "link"} ->
              [sure |-> FALSE, data |-> <<>>]
         [] OTHER -> good
  /\ UNCHANGED <<piece, up, heard, told, first_child_down, nodes_down, fctx,
                 stray, heal, faults>>

\* The caller sees the answer.  What it knows of the bytes: those of a new
\* file from its creation on, until something fails.
Taken ==
  /\ call.st = "done"
  /\ call' = Idle
  /\ good' = CASE call.fop = "create" /\ call.ret = "ok" ->
                    [sure |-> stray = {} /\ \A c \in Child : piece[c].data = <<>>,
                     data |-> <<>>]
               [] call.ret # "ok" /\ call.fop \in
                    {"writev", "truncate", "ftruncate"} ->
                    [sure |-> FALSE, data |-> <<>>]
               [] OTHER -> good
  /\ UNCHANGED <<piece, up, heard, told, first_child_down, nodes_down, fctx,
                 out, stray, heal, nops, faults>>

stripe_release ==
  /\ fctx.known /\ call.st = "idle"
  /\ fctx' = NoFctx
  /\ UNCHANGED <<piece, up, heard, told, first_child_down, nodes_down, call,
                 out, stray, heal, good, nops, faults>>

\* A link breaks or comes back; notify is told of it.
Link(c) ==
  /\ up[c] = (c \in heard)
  /\ up[c] => faults < MaxStripeFaults
  /\ faults' = faults + (IF up[c] THEN 1 ELSE 0)
  /\ up' = [up EXCEPT ![c] = ~@]
  /\ UNCHANGED <<piece, heard, told, first_child_down, nodes_down, fctx,
                 call, out, stray, heal, good, nops>>

\* notify counts the children that are down before it takes the lock under
\* which it stores the count.
notify(c) ==
  /\ up[c] # (c \in heard) /\ \A t \in told : t.c # c
  /\ heard' = IF up[c] THEN heard \cup {c} ELSE heard \ {c}
  /\ told' = told \cup {[c |-> c, up |-> up[c],
                          down |-> Children - Cardinality(heard')]}
  /\ UNCHANGED <<piece, up, first_child_down, nodes_down, fctx, call, out,
                 stray, heal, good, nops, faults>>

notify_locked(t) ==
  /\ t \in told /\ told' = told \ {t}
  /\ nodes_down' = t.down
  /\ first_child_down' = IF t.c = First THEN ~t.up ELSE first_child_down
  /\ UNCHANGED <<piece, up, heard, fctx, call, out, stray, heal, good, nops,
                 faults>>

\* Nothing is there yet, or a file made when the volume file listed the
\* children in another order: its first block need not be on child 0.
Init ==
  /\ up = [c \in Child |-> TRUE] /\ heard = Child /\ told = {}
  /\ first_child_down = FALSE /\ nodes_down = 0
  /\ \/ /\ piece = [c \in Child |-> NoPiece]
        /\ good = [sure |-> FALSE, data |-> <<>>]
     \/ \E order \in [Child -> Child] :
          /\ \A c, d \in Child : c # d => order[c] # order[d]
          /\ piece = [c \in Child |->
                        [has |-> TRUE, index |-> order[c],
                         data |-> IF order[c] = 0 THEN <<99>> ELSE <<>>]]
          /\ good = [sure |-> TRUE, data |-> <<99>>]
  /\ fctx = NoFctx /\ call = Idle /\ out = {} /\ stray = {} /\ heal = {}
  /\ nops = 0 /\ faults = 0

StripeAnswer ==
  \/ stripe_writev
  \/ writev_cbk_end
  \/ \E o \in out, fault \in BOOLEAN : Answer(o, fault)

Next ==
  \/ \E f \in StripeFop, io \in Io \cup {<<0, 0>>} : Ask(f, io)
  \/ StripeAnswer
  \/ Taken
  \/ stripe_release
  \/ \E c \in Child : \/ stripe_sh_make_entry_cbk(c)
                      \/ stripe_sh_chown_cbk(c)
                      \/ Link(c)
                      \/ notify(c)
  \/ \E t \in told : notify_locked(t)
  \/ \E o \in stray : Stray(o)

\* Every child answers every call, with ENOTCONN when its link is gone; the
\* thread that winds a write goes through its loop.
Spec == Init /\ [][Next]_stripeVars /\ WF_stripeVars(StripeAnswer)

----------------------------------------------------------------------------
\* The frame is unwound once, when nothing it wound is out and, for a write,
\* when the loop has wound everything and no callback may still unwind it.
\* A write whose last round came between the two tests of a callback may be
\* unwound early or twice, but never early with the whole count.
UnwoundLast ==
  call.st = "done" =>
    LET last == /\ out = {} /\ ~call.early
                /\ call.fop = "writev" => call.sent = call.n
    IN  /\ last \/ (call.raced /\ call.ret = "fail")
        /\ call.testing = 0 \/ call.raced

\* A file whose creation was acknowledged has a piece on every child, each
\* with the attributes an open needs.
CreatedIsWhole ==
  call.st = "done" /\ call.fop \in {"create", "mknod"} /\ call.ret = "ok" =>
    \A c \in Child : piece[c].has /\ piece[c].index = c

\* An open file is addressed by the index its pieces carry, whatever order
\* the volume file gives the children.
OpenByIndex ==
  fctx.known /\ call.st = "done" /\ call.fop = "open" /\ call.ret = "ok" =>
    \A c \in Child : fctx.arr[piece[c].index + 1] = c

\* What was written, in whatever portions, reads back in any other portions,
\* if the file has no gaps.
ReadsBack ==
  /\ call.st = "done" /\ call.fop = "readv" /\ call.ret = "ok"
  /\ good.sure /\ \A k \in 1 .. Len(good.data) : good.data[k] # 0
  => call.replies = Get(good.data, call.off, call.n)

\* An operation that reached a child without connection is not reported as
\* done, except by statfs, which takes any answer, and opendir, which takes
\* the last.
DeadChildReported ==
  call.st = "done" /\ call.ret = "ok" /\ call.dead =>
    call.fop \in {"statfs", "opendir"}

\* Every call is answered, but for a mknod whose attributes were refused.
EveryCallAnswered ==
  call.st = "run" ~> call.st \in {"done", "forgotten"}
=============================================================================
