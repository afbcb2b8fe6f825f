------------------------------ MODULE QuickRead ------------------------------
(***************************************************************************)
(* performance/quick-read: a lookup brings the contents of a small file    *)
(* along, reads are answered from them, and the open of a file whose       *)
(* contents are there is put off until some fop on the descriptor needs    *)
(* it.  Fops that come while that open is under way wait in the            *)
(* descriptor's context.                                                   *)
(*                                                                         *)
(* There is one file.  disk is what the volume has: the contents, as the   *)
(* number of the change that made them, their size and st_mtime.  qfile is *)
(* the qr_file_t of the inode; cached stands for xattr.  fdctx is the      *)
(* qr_fd_ctx_t of a descriptor.  call is a frame: at says where it is      *)
(* ("list" in waiting_ops, "open" and "wind" below, after an open or its   *)
(* own fop), rep the answer on its way back.                               *)
(*                                                                         *)
(* The volume is external: it carries requests out in any order and its    *)
(* answers come in any order.  mine, overlap, refused, gone and asof are   *)
(* history.                                                                *)
(***************************************************************************)
EXTENDS Integers, Sequences, FiniteSets, SequencesExt

CONSTANTS
  QCall, QFd,
  QrOp,         \* the calls in use
  QFlags,       \* the flags of open in use
  Reads,        \* the <<offset, size>> of reads
  QSizes,       \* the sizes a file is given
  PageSize,     \* of the iobuf pool
  MaxFileSize, CacheTimeout,
  MaxQCalls, MaxQFaults, MaxQRemote, MaxQClock

VARIABLES disk, qfile, fdctx, fdst, below, call, moved, clock,
          mine, overlap, refused, gone, ncalls, nfaults, nremote

qrVars == <<disk, qfile, fdctx, fdst, below, call, moved, clock,
            mine, overlap, refused, gone, ncalls, nfaults, nremote>>

-----------------------------------------------------------------------------
\* The fops on a descriptor: whether the fop sends the open that was put off, if
\* nobody has; whether the cached contents are dropped before it is wound;
\* whether its callback drops them if the size is another.
Fop(opens, before, after) == [opens |-> opens, before |-> before, after |-> after]

qr_readv_cbk == Fop(TRUE, "keep", "keep")
qr_writev    == Fop(TRUE, "drop", "keep")
qr_fstat     == Fop(TRUE, "keep", "keep")
qr_fsetattr  == Fop(TRUE, "keep", "keep")
qr_fsetxattr == Fop(TRUE, "keep", "keep")
qr_fgetxattr == Fop(TRUE, "keep", "keep")
qr_flush     == Fop(FALSE, "keep", "keep")
qr_fentrylk  == Fop(TRUE, "keep", "keep")
qr_finodelk  == Fop(TRUE, "keep", "keep")
qr_fsync     == Fop(TRUE, "keep", "keep")
qr_ftruncate == Fop(TRUE, "keep", "resized")
qr_lk        == Fop(TRUE, "keep", "keep")

qr_fops ==
  [readv |-> qr_readv_cbk, writev |-> qr_writev, fstat |-> qr_fstat,
   fsetattr |-> qr_fsetattr, fsetxattr |-> qr_fsetxattr, fgetxattr |-> qr_fgetxattr,
   flush |-> qr_flush, fentrylk |-> qr_fentrylk, finodelk |-> qr_finodelk,
   fsync |-> qr_fsync, ftruncate |-> qr_ftruncate, lk |-> qr_lk]

Never == MaxQClock + 1
NoFd  == "none"

NoFile == [has |-> FALSE, cached |-> FALSE, ver |-> 0, size |-> 0, mtime |-> 0,
           tv |-> 0, asof |-> 0]
NoCtx  == [is |-> FALSE, opened |-> FALSE, transit |-> FALSE, waiting |-> <<>>]
NoRep  == [ok |-> FALSE, ver |-> 0, size |-> 0, mtime |-> 0, content |-> FALSE, exec |-> Never]
Idle   == [op |-> "none", fd |-> NoFd, arg |-> <<0, 0>>, at |-> "idle", step |-> "op",
           rep |-> NoRep, ok |-> FALSE, got |-> 0, len |-> 0, lens |-> <<>>, need |-> 0]

-----------------------------------------------------------------------------
(***************************************************************************)
(* A step works on s, the frames, the contexts and the file together.      *)
(***************************************************************************)
Wound(l)      == [l EXCEPT !.at = "wind", !.rep = NoRep]
Unwound(l, r) == [l EXCEPT !.at = "done", !.ok = r.ok, !.got = r.ver, !.rep = NoRep]

Failure == NoRep
Success == [NoRep EXCEPT !.ok = TRUE]

Unwind(s, c, r) == [s EXCEPT !.call[c] = Unwound(@, r)]
Wind(s, c)      == [s EXCEPT !.call[c] = Wound(@)]
Open(s, c)      == [s EXCEPT !.call[c].at = "open", !.call[c].rep = NoRep]
Drop(s)         == [s EXCEPT !.file.cached = FALSE]

\* The path the file was opened by still leads to its directory.
qr_loc_fill == ~moved

\* call_resume of everything that waits.  The fstat of a validation is not
\* wound by the frame whose own open has failed.
Resumed(s, f, opener, failed) ==
  [s EXCEPT !.fdctx[f].waiting = <<>>,
            !.call = [c \in QCall |->
               IF c \notin ToSet(s.fdctx[f].waiting) THEN @[c]
               ELSE IF c = opener /\ failed /\ @[c].step = "validate" THEN Unwound(@[c], Failure)
               ELSE Wound(@[c])]]

qr_resume_pending_ops(s, f) == Resumed(s, f, NoFd, FALSE)

\* Mutant of SendOpen: the flag is not set.
send_open_unmarked(s, c) ==
  LET f == s.call[c].fd
      t == [s EXCEPT !.fdctx[f].waiting = Append(@, c)]
  IN  IF s.fdctx[f].transit THEN [t EXCEPT !.call[c].at = "list"] ELSE Open(t, c)

\* The fop waits for the open, and sends it if nobody has.  When the path does
\* not lead to the file any more the fops that wait go on without an open, and
\* the one that came is lost: qr_readv answers it twice, the others try again
\* for ever.
SendOpen(s, c) ==
  LET f == s.call[c].fd
      t == [s EXCEPT !.fdctx[f].waiting = Append(@, c), !.fdctx[f].transit = TRUE]
  IN  IF s.fdctx[f].transit THEN [t EXCEPT !.call[c].at = "list"]
      ELSE IF qr_loc_fill THEN Open(t, c)
      ELSE [qr_resume_pending_ops(t, f) EXCEPT !.call[c].at = "lost"]

\* What every fop on a descriptor ends with.
OnFd(s, c) ==
  LET f == s.call[c].fd
      x == s.fdctx[f]
  IN  IF ~x.is \/ x.opened THEN Wind(s, c)
      ELSE IF qr_fops[s.call[c].op].opens \/ x.transit THEN SendOpen(s, c)
      ELSE Unwind(s, c, Success)

-----------------------------------------------------------------------------
(***************************************************************************)
(* lookup and open.                                                        *)
(***************************************************************************)
\* The size of the contents asked for: arg is what the caller has asked for.
qr_lookup(s, c) ==
  LET asked == s.call[c].arg[1]
      size  == IF s.file.cached \/ asked > MaxFileSize THEN asked ELSE MaxFileSize
  IN  Wind([s EXCEPT !.call[c].arg = <<size, 0>>], c)

qr_lookup_cbk(s, c) ==
  LET r    == s.call[c].rep
      old  == IF s.file.cached /\ s.file.mtime # r.mtime THEN Drop(s).file ELSE s.file
      new  == IF r.content
              THEN [old EXCEPT !.cached = TRUE, !.ver = r.ver, !.size = r.size, !.mtime = r.mtime]
              ELSE old
      file == [new EXCEPT !.has = TRUE, !.tv = clock, !.asof = r.exec]
  IN  Unwind(IF r.ok /\ r.size <= MaxFileSize THEN [s EXCEPT !.file = file] ELSE s, c, r)

\* arg[1] are the flags.
qr_open(s, c) ==
  LET f     == s.call[c].fd
      flags == s.call[c].arg[1]
      t     == [s EXCEPT !.fdctx[f] = [NoCtx EXCEPT !.is = TRUE]]
  IN  IF s.file.cached /\ flags = "DIRECTORY" THEN Unwind(t, c, Failure)
      ELSE IF ~s.file.cached \/ flags \in {"WRONLY", "TRUNC"}
      THEN Open([t EXCEPT !.fdctx[f].transit = TRUE], c)
      ELSE Unwind(t, c, Success)

\* The callback of an open, the application's own or one that was put off.
qr_open_cbk(s, c) ==
  LET f  == s.call[c].fd
      r  == s.call[c].rep
      is == s.call[c].op = "open"
      t  == [s EXCEPT !.fdctx[f].transit = FALSE, !.fdctx[f].opened = @ \/ r.ok]
      u  == IF is /\ s.call[c].arg[1] = "TRUNC" THEN Drop(t) ELSE t
      v  == Resumed(u, f, c, ~r.ok)
  IN  IF is THEN Unwind(v, c, r) ELSE v

-----------------------------------------------------------------------------
(***************************************************************************)
(* Fops on a descriptor.                                                   *)
(***************************************************************************)
qr_need_validation(file) == clock - file.tv >= CacheTimeout

\* How many bytes of contents of length len, and the pages they go to.
Portion(offset, size, len) ==
  IF offset > len THEN 0 ELSE IF offset + size > len THEN len - offset ELSE size

End(offset, size, len) == IF offset > len \/ offset + size > len THEN len ELSE offset + size

Pages(n, offset, end) ==
  LET count == n \div PageSize + (IF n % PageSize # 0 THEN 1 ELSE 0)
  IN  [i \in 1 .. count |->
        LET start == offset + PageSize * (i - 1)
        IN  IF start > end THEN 0
            ELSE IF PageSize > end - start THEN end - start ELSE PageSize]

FromCache(s, c) ==
  LET a == s.call[c].arg
      n == Portion(a[1], a[2], s.file.size)
  IN  Unwind([s EXCEPT !.call[c].len = n,
                       !.call[c].lens = Pages(n, a[1], End(a[1], a[2], s.file.size))],
             c, [Success EXCEPT !.ver = s.file.ver])

qr_validate_cache(s, c) == OnFd([s EXCEPT !.call[c].step = "validate"], c)

qr_readv(s, c) ==
  IF ~s.file.cached THEN OnFd(s, c)
  ELSE IF qr_need_validation(s.file) THEN qr_validate_cache(s, c)
  ELSE FromCache(s, c)

\* Mutant of qr_validate_cache_cbk: the contents are taken for valid.
validate_trusts(s, c) ==
  LET r == s.call[c].rep
  IN  IF ~r.ok THEN Unwind(s, c, r)
      ELSE qr_readv([s EXCEPT !.file.tv = clock, !.file.asof = r.exec, !.call[c].step = "op"], c)

qr_validate_cache_cbk(s, c) ==
  LET r == s.call[c].rep
      t == IF s.file.mtime # r.mtime THEN Drop(s) ELSE s
  IN  IF ~r.ok THEN Unwind(s, c, r)
      ELSE qr_readv([t EXCEPT !.file.tv = clock, !.file.asof = r.exec, !.call[c].step = "op"], c)

\* Mutant of FdFop: writev keeps the contents.
fd_fop_keeps(s, c) == IF s.call[c].op = "readv" THEN qr_readv(s, c) ELSE OnFd(s, c)

FdFop(s, c) ==
  IF s.call[c].op = "readv" THEN qr_readv(s, c)
  ELSE OnFd(IF qr_fops[s.call[c].op].before = "drop" THEN Drop(s) ELSE s, c)

\* The callback of the fop itself.
FdFopCbk(s, c) ==
  LET r == s.call[c].rep
  IN  Unwind(IF r.ok /\ qr_fops[s.call[c].op].after = "resized" /\ s.file.size # r.size
             THEN Drop(s) ELSE s, c, r)

-----------------------------------------------------------------------------
(***************************************************************************)
(* The steps.                                                              *)
(***************************************************************************)
State == [call |-> call, fdctx |-> fdctx, file |-> qfile]
Set(s) == call' = s.call /\ fdctx' = s.fdctx /\ qfile' = s.file

Busy(c)   == call[c].at \notin {"idle", "done"}
Changes(op, arg) == op \in {"writev", "ftruncate"} \/ (op = "open" /\ arg[1] = "TRUNC")
Writes(c) == Busy(c) /\ Changes(call[c].op, call[c].arg)
Looks(c)  == Busy(c) /\ call[c].op = "lookup"

Entry(s, c) ==
  CASE s.call[c].op = "lookup"         -> qr_lookup(s, c)
    [] s.call[c].op = "open"           -> qr_open(s, c)
    [] s.call[c].op = "truncate"       -> Wind(s, c)
    [] OTHER                           -> FdFop(s, c)

Callback(s, c) ==
  CASE s.call[c].at = "open"           -> qr_open_cbk(s, c)
    [] s.call[c].op = "lookup"         -> qr_lookup_cbk(s, c)
    [] s.call[c].step = "validate"     -> qr_validate_cache_cbk(s, c)
    [] s.call[c].op = "truncate"       -> Unwind(s, c, s.call[c].rep)
    [] OTHER                           -> FdFopCbk(s, c)

\* What a call is asked with: contents of a size, flags, an offset and a size.
Args(op) ==
  CASE op = "lookup"    -> {<<0, 0>>}
    [] op = "open"      -> {<<fl, 0>> : fl \in QFlags}
    [] op = "readv"     -> Reads
    [] op \in {"writev", "ftruncate", "truncate"} -> {<<n, 0>> : n \in QSizes}
    [] OTHER            -> {<<0, 0>>}

\* fuse sends a call.  A descriptor is used once its open was answered; truncate
\* is not among the fops of quick-read and goes by.
Ask(c) ==
  /\ ~Busy(c) /\ ncalls < MaxQCalls
  /\ ncalls' = ncalls + 1
  /\ \E op \in QrOp \ {"create"}, f \in QFd \cup {NoFd} :
       /\ CASE op \in {"lookup", "truncate"} -> f = NoFd
            [] op = "open"                   -> f # NoFd /\ fdst[f] = "closed"
            [] OTHER                         -> f # NoFd /\ fdst[f] \in {"open", "created"}
       /\ fdst' = IF op = "open" THEN [fdst EXCEPT ![f] = "opening"] ELSE fdst
       /\ \E arg \in Args(op) :
            /\ Set(Entry([State EXCEPT !.call[c] =
                            [Idle EXCEPT !.op = op, !.fd = f, !.arg = arg, !.need = mine]], c))
            /\ overlap' = (\/ overlap \/ op = "truncate"
                           \/ op = "lookup" /\ \E d \in QCall : Writes(d)
                           \/ Changes(op, arg) /\ \E d \in QCall : Looks(d))
  /\ UNCHANGED <<disk, below, moved, clock, mine, refused, gone, nfaults, nremote>>

\* The frame is over: a descriptor is open, or is not.
Return(c) ==
  /\ call[c].at = "done"
  /\ call' = [call EXCEPT ![c] = Idle]
  /\ fdst' = IF call[c].op = "open"
             THEN [fdst EXCEPT ![call[c].fd] = IF call[c].ok THEN "open" ELSE "failed"]
             ELSE fdst
  /\ mine' = IF call[c].op \in {"writev", "ftruncate"} /\ call[c].ok /\ call[c].got > mine
             THEN call[c].got ELSE mine
  /\ UNCHANGED <<disk, qfile, fdctx, below, moved, clock, overlap, refused, gone, ncalls,
                 nfaults, nremote>>

\* create is not among the fops of quick-read: its descriptor has no context.
Create(f) ==
  /\ "create" \in QrOp /\ fdst[f] = "closed" /\ ncalls < MaxQCalls
  /\ ncalls' = ncalls + 1
  /\ fdst' = [fdst EXCEPT ![f] = "created"]
  /\ below' = below \cup {f}
  /\ UNCHANGED <<disk, qfile, fdctx, call, moved, clock, mine, overlap, refused, gone,
                 nfaults, nremote>>

qr_release(f) ==
  /\ fdst[f] \in {"open", "created", "failed"}
  /\ \A c \in QCall : call[c].fd = f => ~Busy(c) /\ call[c].at # "done"
  /\ fdst' = [fdst EXCEPT ![f] = "closed"]
  /\ fdctx' = [fdctx EXCEPT ![f] = NoCtx]
  /\ below' = below \ {f} /\ refused' = refused \ {f}
  /\ UNCHANGED <<disk, qfile, call, moved, clock, mine, overlap, gone, ncalls, nfaults, nremote>>

qr_forget ==
  /\ qfile.has
  /\ \A f \in QFd : fdst[f] = "closed"
  /\ \A c \in QCall : call[c].at = "idle"
  /\ qfile' = NoFile
  /\ UNCHANGED <<disk, fdctx, fdst, below, call, moved, clock, mine, overlap, refused, gone,
                 ncalls, nfaults, nremote>>

Answer(c) ==
  /\ call[c].rep # NoRep
  /\ Set(Callback(State, c))
  /\ UNCHANGED <<disk, fdst, below, moved, clock, mine, overlap, refused, gone, ncalls,
                 nfaults, nremote>>

-----------------------------------------------------------------------------
(***************************************************************************)
(* The volume.                                                             *)
(***************************************************************************)
Changed(size) ==
  /\ disk' = [ver |-> disk.ver + 1, size |-> size, mtime |-> clock]
  /\ gone' = [gone EXCEPT ![disk.ver] = clock]

Reply(ok, d, content) ==
  [ok |-> ok, ver |-> d.ver, size |-> d.size, mtime |-> d.mtime, content |-> content,
   exec |-> clock]

Exec(c) ==
  LET l    == call[c]
      f    == l.fd
      what == IF l.at = "open" THEN "open" ELSE IF l.step = "validate" THEN "fstat" ELSE l.op
      size == CASE what \in {"writev", "ftruncate", "truncate"} -> l.arg[1]
                [] what = "open" /\ l.op = "open" /\ l.arg[1] = "TRUNC" -> 0
                [] OTHER -> disk.size
  IN  /\ l.at \in {"open", "wind"} /\ l.rep = NoRep
      /\ what \in {"lookup", "truncate", "open"} \/ f \in below
      /\ IF what = "writev" \/ size # disk.size
         THEN Changed(size) ELSE UNCHANGED <<disk, gone>>
      /\ below' = IF what = "open" THEN below \cup {f} ELSE below
      /\ call' = [call EXCEPT ![c].rep =
                    Reply(TRUE, disk', what = "lookup" /\ l.arg[1] > 0 /\ disk.size <= l.arg[1])]
      /\ UNCHANGED <<qfile, fdctx, fdst, moved, clock, mine, overlap, refused, ncalls, nfaults,
                     nremote>>

\* A fop on a descriptor that is not open fails; any other may.
Fail(c) ==
  LET l    == call[c]
      must == l.at = "wind" /\ l.fd # NoFd /\ l.fd \notin below
  IN  /\ l.at \in {"open", "wind"} /\ l.rep = NoRep
      /\ must \/ nfaults < MaxQFaults
      /\ nfaults' = IF must THEN nfaults ELSE nfaults + 1
      /\ refused' = IF l.at = "open" THEN refused \cup {l.fd} ELSE refused
      /\ call' = [call EXCEPT ![c].rep = Reply(FALSE, disk, FALSE)]
      /\ UNCHANGED <<disk, qfile, fdctx, fdst, below, moved, clock, mine, overlap, gone, ncalls,
                     nremote>>

\* Another client changes the file, or renames a directory above it.
Remote ==
  /\ nremote < MaxQRemote /\ nremote' = nremote + 1
  /\ \/ \E size \in QSizes : Changed(size) /\ UNCHANGED moved
     \/ moved' = TRUE /\ UNCHANGED <<disk, gone>>
  /\ UNCHANGED <<qfile, fdctx, fdst, below, call, clock, mine, overlap, refused, ncalls, nfaults>>

Tick ==
  /\ clock < MaxQClock /\ clock' = clock + 1
  /\ UNCHANGED <<disk, qfile, fdctx, fdst, below, call, moved, mine, overlap, refused, gone,
                 ncalls, nfaults, nremote>>

Init ==
  /\ \E size \in QSizes : disk = [ver |-> 1, size |-> size, mtime |-> 0]
  /\ qfile = NoFile
  /\ fdctx = [f \in QFd |-> NoCtx] /\ fdst = [f \in QFd |-> "closed"]
  /\ below = {} /\ call = [c \in QCall |-> Idle]
  /\ moved = FALSE /\ clock = 0
  /\ mine = 0 /\ overlap = FALSE /\ refused = {}
  /\ gone = [v \in 1 .. 1 + MaxQCalls + MaxQRemote |-> Never]
  /\ ncalls = 0 /\ nfaults = 0 /\ nremote = 0

Next ==
  \/ \E c \in QCall : Ask(c) \/ Return(c) \/ Exec(c) \/ Fail(c) \/ Answer(c)
  \/ \E f \in QFd : Create(f) \/ qr_release(f)
  \/ qr_forget \/ Remote \/ Tick

Spec == Init /\ [][Next]_qrVars

-----------------------------------------------------------------------------
(***************************************************************************)
(* Properties.                                                             *)
(***************************************************************************)

\* quick-read.c, the fops on a descriptor and qr_open_cbk: a fop that waits in a
\* descriptor's context waits for an open that is under way, once, no fop waits
\* in a context that is released, and a descriptor is opened once at a time.
WaitsForOpen ==
  ~moved =>
    /\ \A c, d \in QCall : call[c].at = "open" /\ call[d].at = "open" /\ c # d =>
                             call[c].fd # call[d].fd
    /\ \A c \in QCall : call[c].at = "list" => c \in ToSet(fdctx[call[c].fd].waiting)
    /\ \A f \in QFd : LET w == fdctx[f].waiting IN
         w # <<>> => /\ Cardinality(ToSet(w)) = Len(w)
                     /\ \E i \in DOMAIN w : call[w[i]].at = "open"
                     /\ \A i \in DOMAIN w : call[w[i]].at \in {"open", "list"}

\* qr_open, SendOpen: a fop reaches the volume through a descriptor that is open
\* there, although the application's own open may never have gone further than
\* quick-read; the exceptions are a refused open and a path that is gone.
OpenedFirst ==
  \A c \in QCall :
    call[c].at = "wind" /\ call[c].fd # NoFd /\ ~moved => call[c].fd \in below \cup refused

\* qr_writev, qr_ftruncate_cbk, qr_open_cbk: a read shows the last write or
\* ftruncate that was acknowledged before it began, unless a lookup overlapped
\* one of them or an open that truncates, or the file was changed by its path or
\* by another client.
OwnWritesSeen ==
  \A c \in QCall :
    call[c].at = "done" /\ call[c].op = "readv" /\ call[c].ok /\ ~overlap /\ nremote = 0 =>
      call[c].got >= call[c].need

\* qr_lookup_cbk, qr_validate_cache_cbk: the cached contents were those of the
\* file when the volume carried out the lookup or fstat that last renewed them,
\* in whatever order the answers came, unless two changes have one st_mtime.
ConfirmedContents ==
  qfile.cached => \/ gone[qfile.ver] >= qfile.asof
                  \/ \E v \in DOMAIN gone : v > 1 /\ gone[v] # Never /\ gone[v - 1] = gone[v]
                  \/ gone[1] = 0

\* qr_readv: a read from the cache has the bytes that are there, and the pages
\* add up to them.
ReadExact ==
  \A c \in QCall :
    LET l == call[c]
        n == Len(l.lens)
        sum[i \in 0 .. n] == IF i = 0 THEN 0 ELSE sum[i - 1] + l.lens[i]
    IN  n > 0 => /\ sum[n] = l.len
                 /\ l.len <= l.arg[2]
                 /\ \A i \in 1 .. n : 0 < l.lens[i] /\ l.lens[i] <= PageSize

=============================================================================
