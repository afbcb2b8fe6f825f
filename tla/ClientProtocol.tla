--------------------------- MODULE ClientProtocol ---------------------------
(***************************************************************************)
(* protocol/client: calls sent to a server over two connections ("bulk"    *)
(* and "lowlat"), the frames saved until their replies come, the handshake *)
(* and the reconnect chain, the ping timer, the frame timeout, and the     *)
(* descriptors that are opened again after a reconnect.                    *)
(*                                                                         *)
(* Threads: one per call (the translators above), the event thread that    *)
(* polls the sockets, and the timer thread.  A step is what a thread does  *)
(* under one mutex, with the local work around it; the parts of a handler  *)
(* that run under no mutex and race another thread are steps of their own. *)
(*                                                                         *)
(* The state of the translator is the record cl; what a handler computes   *)
(* is a function of it, written with s for the record.                     *)
(***************************************************************************)
EXTENDS Naturals

CONSTANTS Call,          \* call frames of the translators above
          Fd,            \* descriptors they use
          PingTimeout,   \* ping_timeout # 0
          FrameTimeout,  \* frame_timeout # 0
          Connected,     \* start with both connections established
          MaxConnects    \* bound: connections that get established

ASSUME ConnectedAssumption == Connected \in BOOLEAN

VARIABLES
  cl,       \* the state of the translator, a record (see Init)
  ev,       \* where the event thread is
  tm,       \* where the timer thread is
  connects  \* connections established so far

vars == <<cl, ev, tm, connects>>

Channel == {"bulk", "lowlat"}

\* A frame is a call's, or one the client makes for itself.
Frame(op, of) == [op |-> op, of |-> of]
Mine(c) == Frame("call", c)
Setvolume == Frame("setvolume", "none")
Ping == Frame("ping", "none")
Reopen(f) == Frame("reopen", f)
Release(f) == Frame("release", f)

(* Where the event thread or the timer thread is, the channel it works on,  *)
(* the frames it has taken off a list, and what it has read.                *)
Thread(at, ch, frames, read) == [at |-> at, ch |-> ch, frames |-> frames, read |-> read]
At(at, ch) == Thread(at, ch, {}, FALSE)
Idle == At("idle", "bulk")

(* A call is "idle", "chosen" once it has read its descriptor and picked a  *)
(* channel, "saved" while it waits, then "served" or "failed".  net is its  *)
(* message: "req" on the way to the server, "rsp" once executed, "late"     *)
(* when the connection was closed under the request, "over" when the reply  *)
(* has been taken or lost.  h is the session whose handle the reply carries.*)
NewCall == [st |-> "idle", kind |-> "plain", ch |-> "bulk", fd |-> "none",
            net |-> "none", h |-> 0]

(* remote is the session of the server that issued the handle remote_fd, 0  *)
(* standing for -1.  A session of the server lasts while one of the         *)
(* client's connections does.                                               *)
NewFdctx == [st |-> "none", remote |-> 0, listed |-> FALSE, dir |-> FALSE,
             net |-> "none"]

NewConn == [connected |-> Connected, saved |-> {}, reconnect |-> FALSE,
            started |-> FALSE, ptimer |-> "none", hs |-> FALSE, ping |-> FALSE]

Init ==
  /\ cl = [call |-> [c \in Call |-> NewCall],
           fd |-> [f \in Fd |-> NewFdctx],
           conn |-> [ch \in Channel |-> NewConn],
           sock |-> [ch \in Channel |-> IF Connected THEN "up" ELSE "none"],
           started |-> Connected,  \* PARENT_UP has been received
           quiet |-> FALSE,     \* neither sent nor received for ping_timeout
           view |-> IF Connected THEN "up" ELSE "none",  \* the last event the parents were told of
           session |-> 1,       \* of the server
           half |-> FALSE,      \* connected anew before all were seen down
           missed |-> {}]       \* channels whose timer was read too early
  /\ ev = Idle /\ tm = Idle
  /\ connects = 0
-----------------------------------------------------------------------------
(* The socket: "none", "connecting", "up", "dead" (the peer is gone and the *)
(* socket does not know), "shut" (shut down by us, error event pending).    *)

\* The server ends the session when the last connection of the client goes.
Hangup(s, ch, how) ==
  LET t == [s EXCEPT !.sock[ch] = how]
  IN IF s.sock[ch] = "up" /\ \A x \in Channel : t.sock[x] # "up"
     THEN [t EXCEPT !.session = @ + 1] ELSE t

socket_submit(s, ch) == s.sock[ch] \in {"up", "dead"}

\* connect() gets under way (k) or fails at once; an open socket is left alone.
socket_connect(s, ch, k) ==
  IF s.sock[ch] = "none" /\ k THEN [s EXCEPT !.sock[ch] = "connecting"] ELSE s

socket_disconnect(s, ch) ==
  IF s.sock[ch] = "none" THEN s ELSE Hangup(s, ch, "shut")

\* The messages of a connection are lost with it.
LoseMessages(s, ch) ==
  [s EXCEPT
    !.call = [c \in Call |->
       IF s.call[c].ch # ch THEN s.call[c]
       ELSE [s.call[c] EXCEPT !.net = CASE @ = "req" -> "late" [] @ = "rsp" -> "over"
                                        [] OTHER -> @]],
    !.fd = [f \in Fd |-> IF s.fd[f].net = ch THEN [s.fd[f] EXCEPT !.net = "none"]
                          ELSE s.fd[f]],
    !.conn[ch] = [@ EXCEPT !.hs = FALSE, !.ping = FALSE]]

\* __socket_reset and the flush of the queue, in the error event.
socket_event_poll_err(s, ch) == LoseMessages(Hangup(s, ch, "none"), ch)
-----------------------------------------------------------------------------
(* Sending. *)

\* The timer of call_bail is set whenever a frame is saved and frame_timeout.
save_frame(s, ch, fr) == [s EXCEPT !.conn[ch].saved = @ \cup {fr}]

\* The frame is unlinked by the thread that will unwind it.
lookup_frame(s, ch, fr) == [s EXCEPT !.conn[ch].saved = @ \ {fr}]

Posted(s, ch, fr) ==
  CASE fr.op = "call"      -> [s EXCEPT !.call[fr.of] = [@ EXCEPT !.st = "saved", !.net = "req",
                                                                      !.ch = ch]]
    [] fr.op = "setvolume" -> [s EXCEPT !.conn[ch].hs = TRUE]
    [] fr.op = "ping"      -> [s EXCEPT !.conn[ch].ping = TRUE]
    [] OTHER               -> [s EXCEPT !.fd[fr.of].net = ch]

Sent(s, ch, fr) ==
  [save_frame(Posted(s, ch, fr), ch, fr) EXCEPT !.quiet = FALSE]

client_start_ping(s, ch) ==
  IF ~PingTimeout THEN s
  ELSE IF s.conn[ch].saved = {} \/ ~s.conn[ch].connected
  THEN [s EXCEPT !.conn[ch] = [@ EXCEPT !.ptimer = "none", !.started = FALSE]]
  ELSE LET t == [s EXCEPT !.conn[ch] = [@ EXCEPT !.ptimer = "expire", !.started = TRUE]]
       IN IF socket_submit(t, ch) THEN Sent(t, ch, Ping) ELSE t

\* Mutation: the ping starts with the next frame only.
xfer_without_ping(s, ch, fr) == Sent(s, ch, fr)

client_channel(s, id) ==
  IF s.conn[id].connected THEN id
  ELSE IF s.conn["bulk"].connected THEN "bulk" ELSE "lowlat"

\* transport_submit and save_frame happen under conn->lock.
Goes(s, ch, fr) ==
  (s.conn[ch].connected \/ fr = Setvolume) /\ socket_submit(s, ch)

protocol_client_xfer(s, ch, fr) ==
  LET t == Sent(s, ch, fr)
  IN IF t.conn[ch].started THEN t ELSE client_start_ping(t, ch)

\* The frame cannot go: a connection is attempted and the caller told so.
Fallback(s, ch, k) == IF s.conn[ch].connected THEN s ELSE socket_connect(s, ch, k)
-----------------------------------------------------------------------------
(* Callbacks, from a reply ("ok" or "err") or from an error of our own. *)

client_fdctx_destroy(s, f, k) ==
  LET t == [s EXCEPT !.fd[f] = [@ EXCEPT !.st = "gone", !.remote = 0, !.dir = FALSE]]
      ch == client_channel(t, "bulk")
  IN IF s.fd[f].remote = 0 THEN t
     ELSE IF Goes(t, ch, Release(f)) THEN protocol_client_xfer(t, ch, Release(f))
     ELSE Fallback(t, ch, k)

protocol_client_reopen_cbk(s, f, r, k) ==
  LET t == [s EXCEPT !.fd[f].remote = IF r = "ok" THEN s.session ELSE 0]
  IN IF s.fd[f].st = "open" THEN [t EXCEPT !.fd[f].listed = TRUE]
     ELSE client_fdctx_destroy(t, f, k)

\* Directories take the same way.
protocol_client_reopendir_cbk(s, f, r, k) == protocol_client_reopen_cbk(s, f, r, k)

\* path: inode_path still finds a name for the file.
protocol_client_reopen(s, f, path, k) ==
  LET ch == client_channel(s, "lowlat")
  IN IF ~path THEN [s EXCEPT !.fd[f].net = "lost"]
     ELSE IF Goes(s, ch, Reopen(f)) THEN protocol_client_xfer(s, ch, Reopen(f))
     ELSE protocol_client_reopen_cbk(Fallback(s, ch, k), f, "err", k)

protocol_client_reopendir(s, f, path, k) ==
  LET ch == client_channel(s, "lowlat")
  IN IF ~path THEN [s EXCEPT !.fd[f].net = "lost"]
     ELSE IF Goes(s, ch, Reopen(f)) THEN protocol_client_xfer(s, ch, Reopen(f))
     ELSE protocol_client_reopendir_cbk(Fallback(s, ch, k), f, "err", k)

(* The bad handles, taken off saved_fds; they are opened again one by one    *)
(* (OpenAgain) before the parents are told.                                  *)
protocol_client_post_handshake(s) ==
  [s EXCEPT !.fd = [f \in Fd |-> [s.fd[f] EXCEPT !.listed = @ /\ s.fd[f].remote # 0]]]

client_setvolume_cbk(s, ch, r) ==
  IF r = "err" THEN s
  ELSE protocol_client_post_handshake([s EXCEPT !.conn[ch].connected = TRUE])

client_ping_cbk(s, ch, r) ==
  IF r = "err" THEN s ELSE [s EXCEPT !.conn[ch].ptimer = "start"]

StackUnwind(s, c, r) ==
  [s EXCEPT !.call[c] = [@ EXCEPT !.st = IF r = "ok" THEN "served" ELSE "failed",
                                  !.kind = "plain", !.fd = "none", !.h = 0]]

\* Mutation: op_ret of the made-up reply is left at 0.
failed_with_success(s, ch, fr, k) ==
  CASE fr.op = "call"      -> StackUnwind(s, fr.of, "ok")
    [] fr.op = "reopen"    -> protocol_client_reopen_cbk(s, fr.of, "err", k)
    [] OTHER               -> s

\* What saved_frames_unwind, call_bail and a failed submit do with a frame:
\* every callback takes op_ret = -1 to its caller.
Failed(s, ch, fr, k) ==
  CASE fr.op = "call"      -> StackUnwind(s, fr.of, "err")
    [] fr.op = "setvolume" -> client_setvolume_cbk(s, ch, "err")
    [] fr.op = "ping"      -> client_ping_cbk(s, ch, "err")
    [] fr.op = "reopen"    -> IF s.fd[fr.of].dir
                              THEN protocol_client_reopendir_cbk(s, fr.of, "err", k)
                              ELSE protocol_client_reopen_cbk(s, fr.of, "err", k)
    [] OTHER               -> s
-----------------------------------------------------------------------------
(* Callbacks of the calls.  Most hand the reply on; those that decode a      *)
(* dictionary or compare inode numbers may turn a good reply into an error.  *)

Decoded(s, c, r) == {StackUnwind(s, c, r), StackUnwind(s, c, "err")}

\* A descriptor opened on the server; out of memory loses the handle.
Opened(s, c, r, dir) ==
  LET f == s.call[c].fd
      t == [s EXCEPT !.fd[f] = [@ EXCEPT !.st = "open", !.remote = s.call[c].h,
                                         !.listed = TRUE, !.dir = dir]]
  IN IF r = "ok" THEN {StackUnwind(t, c, r), StackUnwind(s, c, "err")}
     ELSE {StackUnwind(s, c, r)}

client_stat_cbk(s, c, r) == {StackUnwind(s, c, r)}
client_mknod_symlink_link_cbk(s, c, r) == {StackUnwind(s, c, r)}
client_truncate_fstat_readv_cbk(s, c, r) == {StackUnwind(s, c, r)}
client_write_readdir_unlink_cbk(s, c, r) == {StackUnwind(s, c, r)}
client_rename_readlink_mkdir_flush_cbk(s, c, r) == {StackUnwind(s, c, r)}
client_rmdir_access_cbk(s, c, r) == {StackUnwind(s, c, r)}
client_setattr_fsetattr_cbk(s, c, r) == {StackUnwind(s, c, r)}
client_statfs_fsyncdir_setxattr_cbk(s, c, r) == {StackUnwind(s, c, r)}
client_removexattr_lk_inodelk_entrylk_cbk(s, c, r) == {StackUnwind(s, c, r)}
client_setdents_stats_cbk(s, c, r) == {StackUnwind(s, c, r)}
client_getspec_log_cbk(s, c, r) == {StackUnwind(s, c, r)}
client_checksum_rchecksum_cbk(s, c, r) == {StackUnwind(s, c, r)}
client_lookup_cbk(s, c, r) == Decoded(s, c, r)
client_getxattr_cbk(s, c, r) == Decoded(s, c, r)
client_fxattrop_xattrop_cbk(s, c, r) == Decoded(s, c, r)
client_getdents_cbk(s, c, r) == Decoded(s, c, r)
client_create_open_cbk(s, c, r) == Opened(s, c, r, FALSE)
client_opendir_cbk(s, c, r) == Opened(s, c, r, TRUE)

\* The tables gf_fops and gf_mops, by the kind of the call.
gf_fops(s, c, r) ==
  CASE s.call[c].kind = "plain" -> UNION {
         client_stat_cbk(s, c, r), client_mknod_symlink_link_cbk(s, c, r),
         client_truncate_fstat_readv_cbk(s, c, r), client_write_readdir_unlink_cbk(s, c, r),
         client_rename_readlink_mkdir_flush_cbk(s, c, r), client_rmdir_access_cbk(s, c, r),
         client_setattr_fsetattr_cbk(s, c, r), client_statfs_fsyncdir_setxattr_cbk(s, c, r),
         client_removexattr_lk_inodelk_entrylk_cbk(s, c, r), client_setdents_stats_cbk(s, c, r),
         client_getspec_log_cbk(s, c, r), client_checksum_rchecksum_cbk(s, c, r)}
    [] s.call[c].kind = "decode" -> UNION {
         client_lookup_cbk(s, c, r), client_getxattr_cbk(s, c, r),
         client_fxattrop_xattrop_cbk(s, c, r), client_getdents_cbk(s, c, r)}
    [] s.call[c].kind = "open" -> client_create_open_cbk(s, c, r)
    [] OTHER -> client_opendir_cbk(s, c, r)
-----------------------------------------------------------------------------
(* The operations.  A call reads its descriptor and picks a channel under no *)
(* lock, and sends under that channel's lock (Transfer).                     *)

Rest == UNCHANGED <<ev, tm, connects>>

Active(c) == cl.call[c].st \in {"chosen", "saved"}

(* What an operation asks for: a request on a path, on a descriptor or for a *)
(* new descriptor, the kind of its reply, and the channel it prefers.        *)
PathFop(kind, id) == [on |-> "path", kind |-> kind, id |-> id]
FdFop(kind, id) == [on |-> "fd", kind |-> kind, id |-> id]
OpenFop(kind) == [on |-> "new", kind |-> kind, id |-> "lowlat"]

client_create_open == OpenFop("open")
client_stat_readlink == PathFop("plain", "lowlat")
client_mknod_mkdir == PathFop("plain", "lowlat")
client_unlink_rmdir == PathFop("plain", "bulk")
client_symlink_rename == PathFop("plain", "lowlat")
client_link == PathFop("plain", "lowlat")
client_truncate == PathFop("plain", "bulk")
client_readv_writev == FdFop("plain", "bulk")
client_statfs == PathFop("plain", "lowlat")
client_flush_fsync == FdFop("plain", "bulk")
client_xattrop == PathFop("decode", "bulk")
client_fxattrop == FdFop("decode", "bulk")
client_setxattr == PathFop("plain", "bulk")
client_getxattr == PathFop("decode", "lowlat")
client_removexattr == PathFop("plain", "lowlat")
client_opendir == OpenFop("opendir")
client_getdents == FdFop("decode", "bulk")
client_readdirp_readdir == FdFop("plain", "lowlat")
client_fsyncdir == FdFop("plain", "bulk")
client_access == PathFop("plain", "lowlat")
client_ftruncate_fstat == FdFop("plain", "bulk")
client_lk == FdFop("plain", "bulk")
client_inodelk == PathFop("plain", "bulk")
client_finodelk == FdFop("plain", "bulk")
client_entrylk == PathFop("plain", "lowlat")
client_fentrylk == FdFop("plain", "lowlat")
client_lookup == PathFop("decode", "lowlat")
client_setdents == FdFop("plain", "bulk")
client_setattr == PathFop("plain", "bulk")
client_fsetattr == FdFop("plain", "bulk")
client_stats == PathFop("plain", "bulk")
client_getspec_log == PathFop("plain", "bulk")
client_checksum == PathFop("plain", "bulk")
client_rchecksum == FdFop("plain", "bulk")

fops == {
  client_create_open, client_stat_readlink, client_mknod_mkdir, client_unlink_rmdir,
  client_symlink_rename, client_link, client_truncate, client_readv_writev, client_statfs,
  client_flush_fsync, client_xattrop, client_fxattrop, client_setxattr, client_getxattr,
  client_removexattr, client_opendir, client_getdents, client_readdirp_readdir, client_fsyncdir,
  client_access, client_ftruncate_fstat, client_lk, client_inodelk, client_finodelk,
  client_entrylk, client_fentrylk, client_lookup, client_setdents, client_setattr,
  client_fsetattr, client_stats, client_getspec_log, client_checksum, client_rchecksum}

\* The request is ready for its channel, or there is no memory for it.
Request(c, q, f) ==
  \/ cl' = [cl EXCEPT !.call[c] = [@ EXCEPT !.st = "chosen", !.kind = q.kind, !.fd = f,
                                            !.ch = client_channel(cl, q.id)]]
  \/ cl' = StackUnwind(cl, c, "err")

\* No context, or a handle that is bad: EBADFD without asking the server.
OnFd(c, q, f) ==
  \/ cl.fd[f].st = "open" /\ cl.fd[f].remote # 0 /\ Request(c, q, f)
  \/ /\ cl.fd[f].st = "none" \/ (cl.fd[f].st = "open" /\ cl.fd[f].remote = 0)
     /\ cl' = StackUnwind(cl, c, "err")

OnNewFd(c, q, f) ==
  /\ cl.fd[f].st = "none"
  /\ \A d \in Call : Active(d) => cl.call[d].fd # f
  /\ Request(c, q, f)

Fop(c) ==
  /\ cl.started /\ cl.call[c].st = "idle"
  /\ \E q \in fops :
       \/ q.on = "path" /\ Request(c, q, "none")
       \/ q.on = "fd" /\ \E f \in Fd : OnFd(c, q, f)
       \/ q.on = "new" /\ \E f \in Fd : OnNewFd(c, q, f)
  /\ Rest

Transfer(c) ==
  /\ cl.call[c].st = "chosen"
  /\ LET ch == cl.call[c].ch
     IN \E k \in BOOLEAN :
          cl' = IF Goes(cl, ch, Mine(c)) THEN protocol_client_xfer(cl, ch, Mine(c))
                ELSE StackUnwind(Fallback(cl, ch, k), c, "err")
  /\ Rest

\* The caller has its answer and nothing of the call is left under way.
Done(c) ==
  /\ cl.call[c].st \in {"served", "failed"} /\ cl.call[c].net \in {"none", "over"}
  /\ cl' = [cl EXCEPT !.call[c] = NewCall]
  /\ Rest

Unused(f) == \A c \in Call : Active(c) => cl.call[c].fd # f

\* client_release under conf->mutex; a bad handle is left to the reopen.
Close(f) ==
  /\ cl.fd[f].st = "open" /\ Unused(f)
  /\ cl' = IF cl.fd[f].remote # 0
           THEN [cl EXCEPT !.fd[f] = [@ EXCEPT !.st = "dropped", !.listed = FALSE]]
           ELSE [cl EXCEPT !.fd[f].st = "released"]
  /\ Rest

client_release(f) == ~cl.fd[f].dir /\ Close(f)

client_releasedir(f) == cl.fd[f].dir /\ Close(f)

\* The rest of client_release, once the mutex is free.
Destroy(f) ==
  /\ cl.fd[f].st = "dropped"
  /\ \E k \in BOOLEAN : cl' = client_fdctx_destroy(cl, f, k)
  /\ Rest
-----------------------------------------------------------------------------
(* The event thread: a socket that connects, data that arrives.              *)

EvIdle(x) == ev = Idle /\ ev' = Idle /\ UNCHANGED tm /\ cl' = x

\* SETVOLUME goes out as soon as the connection is there.
protocol_client_handshake(s, ch) == protocol_client_xfer(s, ch, Setvolume)

socket_connect_finish(ch) ==
  /\ cl.sock[ch] = "connecting"
  /\ \/ /\ connects < MaxConnects
        /\ connects' = connects + 1
        /\ EvIdle(protocol_client_handshake(
                   [cl EXCEPT !.sock[ch] = "up",
                              !.half = @ \/ \E x \in Channel : /\ cl.conn[x].connected
                                                            /\ cl.sock[x] # "up"], ch))
     \/ EvIdle([cl EXCEPT !.sock[ch] = "shut"]) /\ UNCHANGED connects

\* What the socket still holds when it is shut down or broken can be read.
Readable(ch) == cl.sock[ch] \in {"up", "dead", "shut"}

\* What came for a frame that is no longer saved is dropped.
protocol_client_interpret(s, ch, fr, handler) ==
  IF fr \in s.conn[ch].saved THEN handler ELSE {s}

\* POLLIN: last_received is set, the reply is matched with its frame.
protocol_client_pollin(s) == [s EXCEPT !.quiet = FALSE]

ReplyToCall(c) ==
  LET ch == cl.call[c].ch
      s == protocol_client_pollin([cl EXCEPT !.call[c].net = "over"])
  IN /\ cl.call[c].net = "rsp" /\ Readable(ch)
     /\ \E r \in {"ok", "err"} :
          \E t \in protocol_client_interpret(s, ch, Mine(c),
                     gf_fops(lookup_frame(s, ch, Mine(c)), c, r)) : EvIdle(t)
     /\ UNCHANGED connects

(* The client's own messages are answered by a server that is there.  *)

ReplyToSetvolume(ch) ==
  LET s == protocol_client_pollin([cl EXCEPT !.conn[ch].hs = FALSE])
      bad == {f \in Fd : cl.fd[f].listed /\ cl.fd[f].remote = 0}
  IN /\ ev = Idle /\ cl.conn[ch].hs /\ cl.sock[ch] = "up"
     /\ \E r \in {"ok", "err"} :
          /\ cl' \in protocol_client_interpret(s, ch, Setvolume,
                       {client_setvolume_cbk(lookup_frame(s, ch, Setvolume), ch, r)})
          /\ ev' = IF r = "ok" /\ Setvolume \in s.conn[ch].saved
                   THEN Thread("reopen", ch, {Reopen(f) : f \in bad}, FALSE) ELSE Idle
     /\ UNCHANGED <<tm, connects>>

\* path: inode_path still finds a name for the file.
OpenAgain(f) ==
  /\ ev.at = "reopen" /\ Reopen(f) \in ev.frames
  /\ \E path, k \in BOOLEAN :
       cl' = IF cl.fd[f].dir THEN protocol_client_reopendir(cl, f, path, k)
             ELSE protocol_client_reopen(cl, f, path, k)
  /\ ev' = [ev EXCEPT !.frames = @ \ {Reopen(f)}]
  /\ UNCHANGED <<tm, connects>>

ChildUp ==
  /\ ev.at = "reopen" /\ ev.frames = {}
  /\ cl' = [cl EXCEPT !.view = "up"]
  /\ ev' = Idle
  /\ UNCHANGED <<tm, connects>>

ReplyToPing(ch) ==
  LET s == protocol_client_pollin([cl EXCEPT !.conn[ch].ping = FALSE])
  IN /\ cl.conn[ch].ping /\ cl.sock[ch] = "up"
     /\ \E t \in protocol_client_interpret(s, ch, Ping,
                   {client_ping_cbk(lookup_frame(s, ch, Ping), ch, "ok")}) : EvIdle(t)
     /\ UNCHANGED connects

ReplyToReopen(f, ch) ==
  LET s == protocol_client_pollin([cl EXCEPT !.fd[f].net = "none"])
      t == lookup_frame(s, ch, Reopen(f))
  IN /\ cl.fd[f].net = ch /\ cl.sock[ch] = "up" /\ cl.fd[f].st # "gone"
     /\ \E r \in {"ok", "err"}, k \in BOOLEAN :
          \E x \in protocol_client_interpret(s, ch, Reopen(f),
                     {IF t.fd[f].dir THEN protocol_client_reopendir_cbk(t, f, r, k)
                      ELSE protocol_client_reopen_cbk(t, f, r, k)}) : EvIdle(x)
     /\ UNCHANGED connects

\* client_release_cbk and client_releasedir_cbk only free the frame.
ReplyToRelease(f, ch) ==
  LET s == protocol_client_pollin([cl EXCEPT !.fd[f].net = "none"])
  IN /\ cl.fd[f].net = ch /\ cl.sock[ch] = "up" /\ cl.fd[f].st = "gone"
     /\ \E t \in protocol_client_interpret(s, ch, Release(f), {lookup_frame(s, ch, Release(f))}) :
          EvIdle(t)
     /\ UNCHANGED connects

\* POLLOUT: queued requests went out, last_sent is set.
protocol_client_pollout(ch) ==
  cl.sock[ch] = "up" /\ cl.quiet /\ EvIdle([cl EXCEPT !.quiet = FALSE]) /\ UNCHANGED connects
-----------------------------------------------------------------------------
(* POLLERR.  The socket is reset, the saved frames are taken and failed one  *)
(* by one, and the connection is marked down under no lock.                  *)

PollErr(ch) ==
  /\ ev = Idle /\ cl.sock[ch] \in {"dead", "shut"}
  /\ cl' = socket_event_poll_err(cl, ch)
  /\ ev' = At("cleanup", ch)
  /\ UNCHANGED <<tm, connects>>

protocol_client_cleanup(ch) ==
  /\ ev = At("cleanup", ch)
  /\ cl' = [cl EXCEPT !.conn[ch].saved = {}]
  /\ ev' = Thread("unwind", ch, cl.conn[ch].saved, FALSE)
  /\ UNCHANGED <<tm, connects>>

saved_frames_unwind(ch) ==
  /\ ev.at = "unwind" /\ ev.ch = ch
  /\ \E fr \in ev.frames, k \in BOOLEAN :
       /\ cl' = Failed(cl, ch, fr, k)
       /\ ev' = [ev EXCEPT !.frames = @ \ {fr}]
  /\ UNCHANGED <<tm, connects>>

WasUp(s) == \E x \in Channel : s.conn[x].connected

(* conn->connected = 0, then conn->reconnect is read: the read may overtake  *)
(* the write, no lock being held.                                            *)
MarkDown(ch) ==
  /\ ev = At("unwind", ch)
  /\ IF ~cl.conn[ch].connected
     THEN ev' = Thread("tell", ch, {}, WasUp(cl)) /\ UNCHANGED cl
     ELSE \/ cl' = [cl EXCEPT !.conn[ch].connected = FALSE] /\ ev' = At("stored", ch)
          \/ UNCHANGED cl /\ ev' = Thread("loaded", ch, {}, cl.conn[ch].reconnect)
  /\ UNCHANGED <<tm, connects>>

\* Mutation: the chain goes on only when the connect is under way.
reconnect_or_not(s, ch, k) ==
  IF s.conn[ch].connected THEN [s EXCEPT !.conn[ch].reconnect = FALSE]
  ELSE LET t == socket_connect(s, ch, k)
       IN [t EXCEPT !.conn[ch].reconnect = t.sock[ch] # "none",
                    !.view = IF t.sock[ch] = "none" THEN "given up" ELSE @]

(* A reconnect attempt under conn->lock: the next one is 10s away, or the    *)
(* chain ends because the connection is there.  A connect that fails at once *)
(* tells the parents CHILD_DOWN.                                             *)
client_protocol_reconnect(s, ch, k) ==
  IF s.conn[ch].connected THEN [s EXCEPT !.conn[ch].reconnect = FALSE]
  ELSE LET t == [socket_connect(s, ch, k) EXCEPT !.conn[ch].reconnect = TRUE,
                                                 !.missed = @ \ {ch}]
       IN [t EXCEPT !.view = IF t.sock[ch] = "none" THEN "given up" ELSE @]

Restart(s, ch, pending, k) ==
  IF pending THEN s ELSE client_protocol_reconnect(s, ch, k)

ReadTimer(ch) ==
  /\ \/ /\ ev = At("stored", ch)
        /\ \E k \in BOOLEAN : cl' = Restart(cl, ch, cl.conn[ch].reconnect, k)
     \/ \E pending \in BOOLEAN :
          /\ ev = Thread("loaded", ch, {}, pending)
          /\ \E k \in BOOLEAN :
               cl' = Restart([cl EXCEPT !.conn[ch].connected = FALSE,
                                        !.missed = IF pending /\ ~cl.conn[ch].reconnect
                                                   THEN @ \cup {ch} ELSE @],
                             ch, pending, k)
  /\ ev' = Thread("tell", ch, {}, TRUE)
  /\ UNCHANGED <<tm, connects>>

\* Mutation: directories are forgotten.
mark_files_bad(s) ==
  [s EXCEPT !.fd = [f \in Fd |-> [s.fd[f] EXCEPT
     !.remote = IF s.fd[f].listed /\ ~s.fd[f].dir THEN 0 ELSE @]]]

\* All the handles in the list are bad; the others have left it.
protocol_client_mark_fd_bad(s) ==
  [s EXCEPT !.fd = [f \in Fd |-> [s.fd[f] EXCEPT !.remote = IF s.fd[f].listed THEN 0 ELSE @]]]

\* ev.read: was_not_down, read before the connection was marked.
TellParents ==
  /\ ev.at = "tell"
  /\ cl' = IF ev.read /\ ~WasUp(cl)
           THEN [protocol_client_mark_fd_bad(cl) EXCEPT !.view = "down", !.half = FALSE]
           ELSE cl
  /\ ev' = Idle
  /\ UNCHANGED <<tm, connects>>

\* PARENT_UP starts both chains.
ParentUp ==
  /\ ~cl.started
  /\ \E k1, k2 \in BOOLEAN :
       cl' = [client_protocol_reconnect(client_protocol_reconnect(cl, "bulk", k1), "lowlat", k2)
               EXCEPT !.started = TRUE]
  /\ Rest
-----------------------------------------------------------------------------
(* The timer thread. *)

TmIdle(x) == tm = Idle /\ cl' = x /\ UNCHANGED <<ev, connects>>

ReconnectTimer(ch) ==
  /\ cl.conn[ch].reconnect
  /\ \E k \in BOOLEAN : TmIdle(client_protocol_reconnect(cl, ch, k))
  /\ UNCHANGED tm

\* Mutation: the frames are failed and stay in the list.
bail_without_unlink(ch) ==
  /\ FrameTimeout
  /\ \E old \in (SUBSET cl.conn[ch].saved) \ {{}} :
       TmIdle(cl) /\ tm' = Thread("bail", ch, old, FALSE)

\* The frames that are older than frame_timeout are taken, and failed one by
\* one once the lock is free.
call_bail(ch) ==
  /\ FrameTimeout
  /\ \E old \in (SUBSET cl.conn[ch].saved) \ {{}} :
       /\ TmIdle([cl EXCEPT !.conn[ch].saved = @ \ old])
       /\ tm' = Thread("bail", ch, old, FALSE)

Bail ==
  /\ tm.at = "bail"
  /\ \E fr \in tm.frames, k \in BOOLEAN :
       /\ cl' = Failed(cl, tm.ch, fr, k)
       /\ tm' = IF tm.frames = {fr} THEN Idle ELSE [tm EXCEPT !.frames = @ \ {fr}]
  /\ UNCHANGED <<ev, connects>>

client_ping_timer_expired(ch) ==
  /\ cl.conn[ch].ptimer = "expire" /\ cl.quiet
  /\ TmIdle([cl EXCEPT !.conn[ch] = [@ EXCEPT !.ptimer = "none", !.started = FALSE]])
  /\ tm' = At("disconnect", "bulk")

\* The lock is given up before the sockets are shut down.
Disconnect ==
  /\ tm.at = "disconnect" /\ tm' = Idle
  /\ cl' = socket_disconnect(socket_disconnect(cl, "bulk"), "lowlat")
  /\ UNCHANGED <<ev, connects>>

PingTimer(ch) ==
  /\ cl.conn[ch].ptimer = "start"
  /\ TmIdle(client_start_ping(cl, ch))
  /\ UNCHANGED tm
-----------------------------------------------------------------------------
(* The server and the network, external. *)

\* An open is answered with a handle of the session.
Handle(s, c) == IF s.call[c].kind \in {"open", "opendir"} THEN s.session ELSE 0

Execute(c) ==
  /\ \/ cl.call[c].net = "req" /\ cl.sock[cl.call[c].ch] = "up"
        /\ cl' = [cl EXCEPT !.call[c] = [@ EXCEPT !.net = "rsp", !.h = Handle(cl, c)]]
     \/ cl.call[c].net = "late" /\ cl' = [cl EXCEPT !.call[c].net = "over"]
  /\ Rest

LinkBreaks(ch) == cl.sock[ch] = "up" /\ cl' = Hangup(cl, ch, "dead") /\ Rest

TimePasses == PingTimeout /\ ~cl.quiet /\ cl' = [cl EXCEPT !.quiet = TRUE] /\ Rest
-----------------------------------------------------------------------------
EventThread(ch) ==
  \/ socket_connect_finish(ch) \/ ReplyToSetvolume(ch) \/ ReplyToPing(ch)
  \/ PollErr(ch) \/ protocol_client_cleanup(ch) \/ saved_frames_unwind(ch)
  \/ MarkDown(ch) \/ ReadTimer(ch)

Next ==
  \/ \E c \in Call : Fop(c) \/ Transfer(c) \/ Done(c) \/ ReplyToCall(c) \/ Execute(c)
  \/ \E f \in Fd : \/ client_release(f) \/ client_releasedir(f) \/ Destroy(f) \/ OpenAgain(f)
                   \/ \E ch \in Channel : ReplyToReopen(f, ch) \/ ReplyToRelease(f, ch)
  \/ \E ch \in Channel :
       \/ EventThread(ch) \/ protocol_client_pollout(ch)
       \/ ReconnectTimer(ch) \/ call_bail(ch) \/ client_ping_timer_expired(ch)
       \/ PingTimer(ch) \/ LinkBreaks(ch)
  \/ ChildUp \/ TellParents \/ ParentUp \/ Bail \/ Disconnect \/ TimePasses

(* Callers go on, timers fire, the server answers while its connection       *)
(* lasts, and the event loop serves every socket that is ready again and     *)
(* again (strong fairness: it is busy with one at a time).  Links need not   *)
(* break, nor handshakes succeed.                                            *)
Fairness ==
  /\ \A c \in Call : WF_vars(Transfer(c)) /\ WF_vars(Execute(c)) /\ SF_vars(ReplyToCall(c))
  /\ \A ch \in Channel :
       /\ SF_vars(cl.sock[ch] = "shut" /\ PollErr(ch)) /\ SF_vars(ReplyToPing(ch))
       /\ WF_vars(\/ protocol_client_cleanup(ch) \/ saved_frames_unwind(ch)
                  \/ MarkDown(ch) \/ ReadTimer(ch))
       /\ WF_vars(PingTimer(ch)) /\ SF_vars(client_ping_timer_expired(ch))
  /\ \A f \in Fd : WF_vars(OpenAgain(f))
  /\ WF_vars(ChildUp) /\ WF_vars(TellParents) /\ WF_vars(Bail) /\ WF_vars(Disconnect)
  /\ WF_vars(TimePasses)

Spec == Init /\ [][Next]_vars /\ Fairness
-----------------------------------------------------------------------------
FrameSet == {Mine(c) : c \in Call} \cup {Setvolume, Ping}
            \cup {Reopen(f) : f \in Fd} \cup {Release(f) : f \in Fd}

\* Where frame fr waits: with a connection, or in the hands of a thread.
Places(fr) == {ch \in Channel : fr \in cl.conn[ch].saved}
              \cup {x \in {"ev"} : fr \in ev.frames} \cup {x \in {"tm"} : fr \in tm.frames}

CallState == [st : {"idle", "chosen", "saved", "served", "failed"},
              kind : {"plain", "decode", "open", "opendir"}, ch : Channel,
              fd : Fd \cup {"none"}, net : {"none", "req", "rsp", "late", "over"}, h : Nat]

FdState == [st : {"none", "open", "dropped", "released", "gone"}, remote : Nat,
            listed : BOOLEAN, dir : BOOLEAN, net : {"none", "lost"} \cup Channel]

ConnState == [connected : BOOLEAN, saved : SUBSET FrameSet, reconnect : BOOLEAN,
              started : BOOLEAN, ptimer : {"none", "expire", "start"}, hs : BOOLEAN,
              ping : BOOLEAN]

State == [call : [Call -> CallState], fd : [Fd -> FdState], conn : [Channel -> ConnState],
          sock : [Channel -> {"none", "connecting", "up", "dead", "shut"}],
          started : BOOLEAN, quiet : BOOLEAN, view : {"none", "up", "down", "given up"},
          session : Nat \ {0}, half : BOOLEAN, missed : SUBSET Channel]

\* The components of the state are of their types, and an open carries its descriptor.
TypeOK ==
  /\ cl \in State
  /\ \A c \in Call : cl.call[c].kind \in {"open", "opendir"} => cl.call[c].fd \in Fd
  /\ ev \in [at : {"idle", "reopen", "cleanup", "unwind", "stored", "loaded", "tell"},
             ch : Channel, frames : SUBSET FrameSet, read : BOOLEAN]
  /\ tm \in [at : {"idle", "bail", "disconnect"}, ch : Channel, frames : SUBSET FrameSet,
             read : {FALSE}]
  /\ connects \in Nat

\* At most one member.
Single(P) == \A p, q \in P : p = q

(* A call waits exactly while its frame is in one place: saved with one of   *)
(* the two connections, or in the hands of the thread that will fail it.  No *)
(* reply, bail-out, failed send or disconnection unwinds it and leaves the   *)
(* frame, or drops the frame without unwinding (saved_frames_get, call_bail, *)
(* saved_frames_unwind).                                                     *)
WaitsWhileSaved ==
  \A c \in Call : /\ Single(Places(Mine(c)))
                  /\ cl.call[c].st = "saved" <=> Places(Mine(c)) # {}

(* A saved frame has a connection that can still answer it or fail it: no    *)
(* frame stays in the list of a socket that is gone, except while the event  *)
(* thread is between the reset of the socket and protocol_client_cleanup.    *)
NoOrphanFrame ==
  \A ch \in Channel : cl.conn[ch].saved # {} =>
    cl.sock[ch] \in {"up", "dead", "shut"} \/ ev = At("cleanup", ch)

(* Every call that waits has one saved frame, and every saved frame somebody *)
(* to answer it.                                                             *)
FramesAccounted == WaitsWhileSaved /\ NoOrphanFrame

(* While a connection to the server's present session is in use, every       *)
(* descriptor the translators may use is bad or has a handle of that         *)
(* session: protocol_client_mark_fd_bad ran before the first reconnect.  The *)
(* exception, half, is a connection made while another was broken and not    *)
(* yet seen to be.                                                           *)
HandlesOfSession ==
  \A ch \in Channel, f \in Fd :
    (cl.conn[ch].connected /\ cl.sock[ch] = "up" /\ ~cl.half /\ cl.fd[f].st = "open")
      => cl.fd[f].remote \in {0, cl.session}

(* A descriptor context is in saved_fds or belongs to one reopen in flight,  *)
(* never both and never freed under the reopen; it is in neither only when   *)
(* client_release has taken it, or its inode had no path (the open is lost). *)
ReopenOwnsFdctx ==
  \A f \in Fd :
    LET reopens == Places(Reopen(f))
    IN /\ Single(reopens)
       /\ reopens # {} => cl.fd[f].st \in {"open", "released"} /\ ~cl.fd[f].listed
       /\ cl.fd[f].st \in {"open", "released"} =>
            cl.fd[f].listed \/ reopens # {} \/ cl.fd[f].net = "lost"

(* Descriptors are used with handles of the present session, and their       *)
(* contexts have one owner.                                                  *)
DescriptorsTracked == HandlesOfSession /\ ReopenOwnsFdctx

(* A connection that is down has its reconnect timer, or a thread that is    *)
(* about to set it, or its timer was read before the write of                *)
(* conn->connected was seen (the unlocked access of notify).                 *)
ChainAlive ==
  \A ch \in Channel :
    (cl.started /\ ~cl.conn[ch].connected) =>
      cl.conn[ch].reconnect \/ ev = At("stored", ch) \/ ch \in cl.missed

(* When the event thread is idle, parents that were last told CHILD_UP have  *)
(* a connection, and parents that were told CHILD_DOWN by notify have none.  *)
ParentsTold ==
  ev = Idle => /\ cl.view = "up" => WasUp(cl)
               /\ cl.view = "down" => ~WasUp(cl)

(* A broken connection is tried again, and the parents know of it.           *)
LinkWatched == ChainAlive /\ ParentsTold

\* The client's promise: RemoteCall, a call that is executed at most once,
\* answered once, and answered well only when it was executed.
Phase ==
  [c \in Call |-> IF Active(c) THEN "pending" ELSE cl.call[c].st]

Effect == {c \in Call : cl.call[c].net \in {"rsp", "over"}}

Promise == INSTANCE RemoteCall WITH phase <- Phase, effect <- Effect

(* Every step of the client is a step of RemoteCall or changes nothing it    *)
(* speaks of: a call is executed at most once, answered once, answered well  *)
(* only after it was executed, and a late reply to a call that was bailed    *)
(* out changes nothing.                                                      *)
StepsOfRemoteCall == [][Promise!Next]_(Promise!vars)

(* protocol/client implements RemoteCall: every call is answered exactly     *)
(* once, well only after the server executed it, whatever connections break  *)
(* and frames time out; and every call is answered.                          *)
ImplementsRemoteCall == Promise!Spec
=============================================================================
