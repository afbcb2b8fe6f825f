-------------------------- MODULE ClientLinkProofs --------------------------
(* The link to the server, for any calls and descriptors: the chain of reconnects
   does not break, and the parents hear of its ups and downs. *)
EXTENDS ClientProofs

-----------------------------------------------------------------------------
(* The chain of reconnects, and what the parents are told *)

\* Nothing the chain of reconnects and the parents' view depend on changes.
Linked(s, t) ==
  /\ t.started = s.started /\ t.view = s.view /\ t.missed = s.missed
  /\ \A x \in Channel : /\ t.conn[x].connected = s.conn[x].connected
                        /\ t.conn[x].reconnect = s.conn[x].reconnect

(* The strengthening: between the write of conn->connected and the event     *)
(* that tells of it the thread is on its way there, and only a handshake     *)
(* that went through brings a link up the parents have not heard of.         *)
LinkInv ==
  /\ ChainAlive
  /\ cl.view = "up" => WasUp(cl) \/ ev.at = "stored" \/ (ev.at = "tell" /\ ev.read)
  /\ cl.view = "down" => ~WasUp(cl) \/ ev.at = "reopen"
  /\ ev.at = "reopen" => WasUp(cl)

\* LinkWatched is part of it.
LEMMA LinkInvWatched == LinkInv => LinkWatched
BY DEF LinkInv, LinkWatched, ParentsTold, Idle, At, Thread

\* One such step after another.
LEMMA LinkedTwice ==
  ASSUME NEW s, NEW t, NEW u, Linked(s, t), Linked(t, u)
  PROVE  Linked(s, u)
BY DEF Linked

\* What leaves the rest of the state alone leaves the link alone.
LEMMA SameLinked ==
  ASSUME NEW s, NEW t, SameRest(s, t)
  PROVE  Linked(s, t) /\ t \in State
BY ZenonT(30) DEF Linked, SameRest

\* A connection whose frames and timers change.
LEMMA ConnLinked ==
  ASSUME NEW s \in State, NEW ch \in Channel, NEW r \in ConnState,
         r.connected = s.conn[ch].connected, r.reconnect = s.conn[ch].reconnect,
         NEW t, t = WithConn(s, ch, r)
  PROVE  Linked(s, t) /\ t \in State
BY ConnUpdate DEF Linked

\* saved_frames_get.
LEMMA LookupLinked ==
  ASSUME NEW s \in State, NEW ch \in Channel, NEW fr, NEW t, t = lookup_frame(s, ch, fr)
  PROVE  Linked(s, t) /\ t \in State /\ t.fd = s.fd /\ t.call = s.call
PROOF
<1> DEFINE q == [s.conn[ch] EXCEPT !.saved = @ \ {fr}]
<1>1. /\ q \in ConnState /\ q.connected = s.conn[ch].connected
      /\ q.reconnect = s.conn[ch].reconnect
  BY StateParts DEF ConnState
<1>2. t = WithConn(s, ch, q)
  BY DEF lookup_frame, WithConn
<1> HIDE DEF q
<1> QED  BY <1>1, <1>2, ConnLinked, ConnUpdate

\* POLLIN.
LEMMA PollinLinked ==
  ASSUME NEW s \in State, NEW t, t = protocol_client_pollin(s)
  PROVE  Linked(s, t) /\ t \in State /\ t.fd = s.fd /\ t.call = s.call /\ t.conn = s.conn
PROOF
<1> DEFINE b == FALSE
<1>1. b \in BOOLEAN /\ t = [s EXCEPT !.quiet = b]
  BY DEF protocol_client_pollin
<1> HIDE DEF b
<1> QED  BY <1>1, QuietUpdate, SameLinked

\* A descriptor changes.
LEMMA FdLinked ==
  ASSUME NEW s \in State, NEW f \in Fd, NEW r \in FdState, NEW t, t = WithFd(s, f, r)
  PROVE  Linked(s, t) /\ t \in State
BY FdUpdate DEF Linked

\* A call changes.
LEMMA CallLinked ==
  ASSUME NEW s \in State, NEW c \in Call, NEW r \in CallState, NEW t, t = WithCall(s, c, r)
  PROVE  Linked(s, t) /\ t \in State
BY CallUpdate DEF Linked

\* A step that leaves the link alone keeps the invariant.
LEMMA LinkKept ==
  ASSUME LinkInv, Linked(cl, cl'),
         \/ ev' = ev
         \/ ev.at \in {"reopen", "unwind"} /\ ev'.at = ev.at
         \/ ev.at \notin {"stored", "tell", "reopen"} /\ ev'.at # "reopen"
  PROVE  LinkInv'
PROOF
<1>1. WasUp(cl') <=> WasUp(cl)
  BY ZenonT(30) DEF Linked, WasUp
<1>2. ChainAlive'
  <2>1. ASSUME NEW ch \in Channel, ev = At("stored", ch) PROVE ev' = At("stored", ch)
    BY ZenonT(30), <2>1 DEF At, Thread
  <2> QED  BY ZenonT(30), <2>1 DEF LinkInv, ChainAlive, Linked
<1>3. /\ cl'.view = "up" => WasUp(cl') \/ ev'.at = "stored" \/ (ev'.at = "tell" /\ ev'.read)
      /\ cl'.view = "down" => ~WasUp(cl') \/ ev'.at = "reopen"
      /\ ev'.at = "reopen" => WasUp(cl')
  BY ZenonT(30), <1>1 DEF LinkInv, Linked
<1> QED  BY ZenonT(30), <1>2, <1>3 DEF LinkInv, WasUp

\* A call is made, sent or not, forgotten, or executed.
LEMMA CallsLink ==
  ASSUME TypeOK, LinkInv, NEW c \in Call, Fop(c) \/ Transfer(c) \/ Done(c) \/ Execute(c)
  PROVE  LinkInv'
PROOF
<1>1. cl \in State /\ cl.call[c] \in CallState /\ ev' = ev
  BY ZenonT(30), Types, StateParts DEF Fop, Transfer, Done, Execute, Rest
<1>2. CASE Fop(c)
  <2>1. \E q \in fops, f \in Fd \cup {"none"} : Request(c, q, f) \/ cl' = StackUnwind(cl, c, "err")
    BY ZenonT(30), <1>2 DEF Fop, OnFd, OnNewFd
  <2>2. PICK r : cl' = [cl EXCEPT !.call[c] = r]
    BY ZenonT(30), <2>1 DEF Request, StackUnwind
  <2>3. Linked(cl, cl')
    BY ZenonT(30), <1>1, <2>2 DEF Linked, State
  <2> QED  BY ZenonT(30), <1>1, <2>3, LinkKept
<1>3. CASE Done(c) \/ Execute(c)
  <2>1. PICK r : cl' = [cl EXCEPT !.call[c] = r]
    BY ZenonT(30), <1>3 DEF Done, Execute
  <2>2. Linked(cl, cl')
    BY ZenonT(30), <1>1, <2>1 DEF Linked, State
  <2> QED  BY <1>1, <2>2, LinkKept
<1>4. CASE Transfer(c)
  <2> DEFINE ch == cl.call[c].ch
  <2>1. ch \in Channel
    BY ZenonT(30), <1>1 DEF CallState
  <2>2. PICK k \in BOOLEAN :
          \/ Goes(cl, ch, Mine(c)) /\ cl' = protocol_client_xfer(cl, ch, Mine(c))
          \/ cl' = StackUnwind(Fallback(cl, ch, k), c, "err")
    BY ZenonT(30), <1>4 DEF Transfer
  <2> HIDE DEF ch
  <2>3. CASE Goes(cl, ch, Mine(c)) /\ cl' = protocol_client_xfer(cl, ch, Mine(c))
    <3>1. cl.sock[ch] \in {"up", "dead"}
      BY ZenonT(30), <2>3 DEF Goes, socket_submit
    <3>2. CallSent(cl, cl', ch, c)
      BY ZenonT(30), <1>1, <2>1, <2>3, <3>1, XferCall
    <3>3. Linked(cl, cl')
      BY ZenonT(30), <3>2, SameLinked DEF CallSent
    <3> QED  BY ZenonT(30), <1>1, <3>3, LinkKept
  <2>4. CASE cl' = StackUnwind(Fallback(cl, ch, k), c, "err")
    <3> DEFINE u == Fallback(cl, ch, k)
    <3>1. Own(cl, u, {})
      BY ZenonT(30), <1>1, <2>1, FallbackStep
    <3>2. Linked(cl, u) /\ u \in State
      BY ZenonT(30), <3>1, SameLinked DEF Own
    <3>3. PICK r : cl' = [u EXCEPT !.call[c] = r]
      BY ZenonT(30), <2>4 DEF StackUnwind
    <3> HIDE DEF u
    <3>4. Linked(u, cl')
      BY ZenonT(30), <3>2, <3>3 DEF Linked, State
    <3> QED  BY ZenonT(30), <1>1, <3>2, <3>4, LinkedTwice, LinkKept
  <2> QED  BY ZenonT(30), <2>2, <2>3, <2>4
<1> QED  BY ZenonT(30), <1>2, <1>3, <1>4

\* A descriptor is released, destroyed or opened again.
LEMMA DescriptorsLink ==
  ASSUME TypeOK, LinkInv, NEW f \in Fd,
         client_release(f) \/ client_releasedir(f) \/ Destroy(f) \/ OpenAgain(f)
  PROVE  LinkInv'
PROOF
<1>1. cl \in State /\ ev \in EvThread
  BY Types
<1>2. CASE client_release(f) \/ client_releasedir(f)
  <2>1. ev' = ev /\ \E r : cl' = [cl EXCEPT !.fd[f] = r]
    BY ZenonT(30), <1>2 DEF client_release, client_releasedir, Close, Rest
  <2>2. PICK r : cl' = [cl EXCEPT !.fd[f] = r]
    BY ZenonT(30), <2>1
  <2>3. Linked(cl, cl')
    BY ZenonT(30), <1>1, <2>2 DEF Linked, State
  <2> QED  BY <2>1, <2>3, LinkKept
<1>3. CASE Destroy(f)
  <2>1. PICK k \in BOOLEAN : cl' = client_fdctx_destroy(cl, f, k)
    BY ZenonT(30), <1>3 DEF Destroy
  <2>2. Own(cl, cl', {Release(f), Ping})
    BY ZenonT(30), <1>1, <2>1, DestroyStep
  <2>3. Linked(cl, cl') /\ ev' = ev
    BY ZenonT(30), <1>3, <2>2, SameLinked DEF Own, Destroy, Rest
  <2> QED  BY ZenonT(30), <2>3, LinkKept
<1>4. CASE OpenAgain(f)
  <2>1. PICK path \in BOOLEAN, k \in BOOLEAN :
          \/ cl' = protocol_client_reopen(cl, f, path, k)
          \/ cl' = protocol_client_reopendir(cl, f, path, k)
    BY ZenonT(30), <1>4 DEF OpenAgain
  <2>2. Own(cl, cl', {Reopen(f), Release(f), Ping})
    BY ZenonT(30), <1>1, <2>1, ReopenStep
  <2>3. Linked(cl, cl')
    BY ZenonT(30), <2>2, SameLinked DEF Own
  <2>4. ev.at = "reopen" /\ ev'.at = ev.at
    BY <1>1, <1>4 DEF OpenAgain, EvThread
  <2> QED  BY ZenonT(30), <2>3, <2>4, LinkKept
<1> QED  BY ZenonT(30), <1>2, <1>3, <1>4

\* What a frame that fails does to the state.
LEMMA FailedLinked ==
  ASSUME NEW s \in State, NEW ch \in Channel, NEW fr \in FrameSet, NEW k \in BOOLEAN,
         NEW t, t = Failed(s, ch, fr, k)
  PROVE  Linked(s, t)
PROOF
<1>1. CASE fr.op = "call"
  <2>1. PICK r : t = [s EXCEPT !.call[fr.of] = r]
    BY ZenonT(30), <1>1 DEF Failed, StackUnwind
  <2> QED  BY ZenonT(30), <2>1 DEF Linked, State
<1>2. CASE fr.op # "call"
  <2>1. t = s \/ \E f \in Fd : Own(s, t, {Release(f), Ping})
    BY ZenonT(30), <1>2, FailedOwn
  <2>2. CASE t = s
    BY <2>2 DEF Linked
  <2>3. CASE \E f \in Fd : Own(s, t, {Release(f), Ping})
    BY <2>3, SameLinked DEF Own
  <2> QED  BY ZenonT(30), <2>1, <2>2, <2>3
<1> QED  BY <1>1, <1>2

\* The event thread fails the frames of a connection.
LEMMA UnwindLink ==
  ASSUME TypeOK, LinkInv, NEW ch \in Channel, saved_frames_unwind(ch)
  PROVE  LinkInv'
PROOF
<1>1. cl \in State /\ ev \in EvThread
  BY ZenonT(30), Types
<1>2. PICK fr \in ev.frames, k \in BOOLEAN : cl' = Failed(cl, ch, fr, k)
  BY DEF saved_frames_unwind
<1>3. fr \in FrameSet
  BY ZenonT(30), <1>1 DEF EvThread
<1>4. Linked(cl, cl')
  BY ZenonT(30), <1>1, <1>2, <1>3, FailedLinked
<1>5. ev.at = "unwind" /\ ev'.at = ev.at
  BY ZenonT(30), <1>1 DEF saved_frames_unwind, EvThread
<1> QED  BY <1>4, <1>5, LinkKept

\* The timer thread fails the frames that are too old.
LEMMA BailLink ==
  ASSUME TypeOK, LinkInv, Bail
  PROVE  LinkInv'
PROOF
<1>1. cl \in State /\ tm \in TmThread /\ ev' = ev
  BY ZenonT(30), Types DEF Bail
<1> DEFINE x == tm.ch
<1>2. x \in Channel
  BY ZenonT(30), <1>1 DEF TmThread
<1>3. PICK fr \in tm.frames, k \in BOOLEAN : cl' = Failed(cl, x, fr, k)
  BY DEF Bail
<1>4. fr \in FrameSet
  BY ZenonT(30), <1>1 DEF TmThread
<1> HIDE DEF x
<1>5. Linked(cl, cl')
  BY ZenonT(30), <1>1, <1>2, <1>3, <1>4, FailedLinked
<1> QED  BY ZenonT(30), <1>1, <1>5, LinkKept

\* A call is answered.
LEMMA CallReplyLink ==
  ASSUME TypeOK, LinkInv, NEW c \in Call, ReplyToCall(c)
  PROVE  LinkInv'
PROOF
<1>1. cl \in State /\ ev' = ev /\ cl.call[c] \in CallState
      /\ (cl.call[c].kind \in {"open", "opendir"} => cl.call[c].fd \in Fd)
  BY ZenonT(30), Types, StateParts DEF ReplyToCall, EvIdle
<1> SUFFICES Linked(cl, cl')
  BY ZenonT(30), <1>1, LinkKept
<1>2. Linked(cl, cl')
  <2> DEFINE x == cl.call[c].ch
             a == [cl.call[c] EXCEPT !.net = "over"]
             v == WithCall(cl, c, a)
             s == protocol_client_pollin(v)
             t == lookup_frame(s, x, Mine(c))
  <2>1. x \in Channel /\ a \in CallState /\ a.kind = cl.call[c].kind /\ a.fd = cl.call[c].fd
    BY <1>1 DEF CallState
  <2>2. v = [cl EXCEPT !.call[c].net = "over"]
    BY ZenonT(30) DEF WithCall
  <2> HIDE DEF x, v
  <2>3. PICK r \in Answer : \E y \in protocol_client_interpret(s, x, Mine(c), gf_fops(t, c, r)) :
                              EvIdle(y)
    BY ZenonT(30), <2>2 DEF ReplyToCall, Answer, x
  <2>4. cl' = s \/ cl' \in gf_fops(t, c, r)
    BY ZenonT(30), <2>3 DEF protocol_client_interpret, EvIdle
  <2> HIDE DEF a
  <2>5. Linked(cl, v) /\ v \in State /\ v.call[c] = a
    BY <1>1, <2>1, CallLinked, CallUpdate DEF v
  <2>6. Linked(v, s) /\ s \in State /\ s.call = v.call
    BY ZenonT(30), <2>5, PollinLinked
  <2> HIDE DEF s
  <2>7. Linked(s, t) /\ t \in State /\ t.call = s.call
    BY <2>1, <2>6, LookupLinked
  <2> HIDE DEF t
  <2>8. Linked(cl, s)
    BY ZenonT(30), <2>5, <2>6, LinkedTwice
  <2>9. CASE cl' \in gf_fops(t, c, r)
    <3>1. t.call[c].kind \in {"open", "opendir"} => t.call[c].fd \in Fd
      BY ZenonT(30), <1>1, <2>1, <2>5, <2>6, <2>7
    <3>2. CallReplied(t, cl', c, r)
      BY ZenonT(30), <2>7, <2>9, <3>1, GfFops
    <3>3. Linked(t, cl')
      BY ZenonT(30), <3>2, SameLinked DEF CallReplied
    <3> QED  BY ZenonT(30), <2>7, <2>8, <3>3, LinkedTwice
  <2> QED  BY ZenonT(30), <2>4, <2>8, <2>9
<1> QED  BY ZenonT(30), <1>2

\* A ping is answered.
LEMMA PingLink ==
  ASSUME TypeOK, LinkInv, NEW ch \in Channel, ReplyToPing(ch)
  PROVE  LinkInv'
PROOF
<1>1. cl \in State /\ ev' = ev
  BY ZenonT(30), Types DEF ReplyToPing, EvIdle
<1> SUFFICES Linked(cl, cl')
  BY ZenonT(30), <1>1, LinkKept
<1>2. Linked(cl, cl')
  <2> DEFINE q == [cl.conn[ch] EXCEPT !.ping = FALSE]
             v == WithConn(cl, ch, q)
             s == protocol_client_pollin(v)
             t == lookup_frame(s, ch, Ping)
  <2>1. /\ q \in ConnState /\ q.connected = cl.conn[ch].connected
        /\ q.reconnect = cl.conn[ch].reconnect
    BY ZenonT(30), <1>1, StateParts DEF ConnState
  <2>2. v = [cl EXCEPT !.conn[ch].ping = FALSE]
    BY DEF WithConn
  <2> HIDE DEF v
  <2>3. cl' = s \/ cl' = client_ping_cbk(t, ch, "ok")
    BY <2>2 DEF ReplyToPing, protocol_client_interpret, EvIdle
  <2> HIDE DEF q
  <2>4. Linked(cl, v) /\ v \in State
    BY ZenonT(30), <1>1, <2>1, ConnLinked DEF v
  <2>5. Linked(v, s) /\ s \in State
    BY <2>4, PollinLinked
  <2> HIDE DEF s
  <2>6. Linked(s, t) /\ t \in State
    BY <2>5, LookupLinked
  <2> HIDE DEF t
  <2>7. Linked(cl, s) /\ Linked(cl, t)
    BY ZenonT(30), <2>4, <2>5, <2>6, LinkedTwice
  <2>8. CASE cl' = client_ping_cbk(t, ch, "ok")
    <3> DEFINE p == [t.conn[ch] EXCEPT !.ptimer = "start"]
    <3>1. /\ p \in ConnState /\ p.connected = t.conn[ch].connected
          /\ p.reconnect = t.conn[ch].reconnect
      BY <2>6, StateParts DEF ConnState
    <3>2. cl' = WithConn(t, ch, p)
      BY ZenonT(30), <2>8 DEF client_ping_cbk, WithConn
    <3> HIDE DEF p
    <3>3. Linked(t, cl')
      BY ZenonT(30), <2>6, <3>1, <3>2, ConnLinked
    <3> QED  BY ZenonT(30), <2>7, <3>3, LinkedTwice
  <2> QED  BY ZenonT(30), <2>3, <2>7, <2>8
<1> QED  BY ZenonT(30), <1>2

\* A reopen or a release is answered.
LEMMA DescriptorReplyLink ==
  ASSUME TypeOK, LinkInv, NEW f \in Fd, NEW ch \in Channel,
         ReplyToReopen(f, ch) \/ ReplyToRelease(f, ch)
  PROVE  LinkInv'
PROOF
<1>1. cl \in State /\ ev' = ev
  BY ZenonT(30), Types DEF ReplyToReopen, ReplyToRelease, EvIdle
<1> SUFFICES Linked(cl, cl')
  BY <1>1, LinkKept
<1>2. Linked(cl, cl')
  <2> DEFINE q == [cl.fd[f] EXCEPT !.net = "none"]
             v == WithFd(cl, f, q)
             s == protocol_client_pollin(v)
  <2>1. q \in FdState
    BY <1>1, StateParts DEF FdState
  <2>2. v = [cl EXCEPT !.fd[f].net = "none"]
    BY DEF WithFd
  <2> HIDE DEF v
  <2>3. \E fr : LET t == lookup_frame(s, ch, fr)
                IN cl' = s \/ cl' = t
                   \/ \E r \in Answer, k \in BOOLEAN : cl' = protocol_client_reopen_cbk(t, f, r, k)
    <3>1. CASE ReplyToReopen(f, ch)
      BY ZenonT(30), <2>2, <3>1 DEF ReplyToReopen, protocol_client_reopendir_cbk, protocol_client_interpret,
                        EvIdle, Answer
    <3>2. CASE ReplyToRelease(f, ch)
      BY ZenonT(30), <2>2, <3>2 DEF ReplyToRelease, protocol_client_interpret, EvIdle
    <3> QED  BY ZenonT(30), <3>1, <3>2
  <2>4. PICK fr : LET t == lookup_frame(s, ch, fr)
                  IN cl' = s \/ cl' = t
                     \/ \E r \in Answer, k \in BOOLEAN : cl' = protocol_client_reopen_cbk(t, f, r, k)
    BY ZenonT(30), <2>3
  <2> DEFINE t == lookup_frame(s, ch, fr)
  <2>5. \/ cl' = s \/ cl' = t
        \/ \E r \in Answer, k \in BOOLEAN : cl' = protocol_client_reopen_cbk(t, f, r, k)
    BY ZenonT(30), <2>4
  <2> HIDE DEF q
  <2>6. Linked(cl, v) /\ v \in State
    BY ZenonT(30), <1>1, <2>1, FdLinked DEF v
  <2>7. Linked(v, s) /\ s \in State
    BY ZenonT(30), <2>6, PollinLinked
  <2> HIDE DEF s
  <2>8. Linked(s, t) /\ t \in State
    BY ZenonT(30), <2>7, LookupLinked
  <2> HIDE DEF t
  <2>9. Linked(cl, s) /\ Linked(cl, t)
    BY ZenonT(30), <2>6, <2>7, <2>8, LinkedTwice
  <2>10. ASSUME NEW r \in Answer, NEW k \in BOOLEAN, cl' = protocol_client_reopen_cbk(t, f, r, k)
         PROVE  Linked(cl, cl')
    <3>1. ReopenAnswered(t, cl', f, r)
      BY ZenonT(30), <2>8, <2>10, ReopenCbkStep
    <3>2. Linked(t, cl')
      BY ZenonT(30), <3>1, SameLinked DEF ReopenAnswered, Own
    <3> QED  BY ZenonT(30), <2>9, <3>2, LinkedTwice
  <2> QED  BY ZenonT(30), <2>5, <2>9, <2>10
<1> QED  BY ZenonT(30), <1>2

\* The sockets and the timers.
LEMMA SocketsLink ==
  ASSUME TypeOK, LinkInv, NEW ch \in Channel,
         \/ socket_connect_finish(ch) \/ protocol_client_pollout(ch) \/ PollErr(ch)
         \/ protocol_client_cleanup(ch) \/ call_bail(ch) \/ client_ping_timer_expired(ch)
         \/ PingTimer(ch) \/ LinkBreaks(ch) \/ Disconnect \/ TimePasses
  PROVE  LinkInv'
PROOF
<1>1. cl \in State /\ cl.conn[ch] \in ConnState
  BY ZenonT(30), Types, StateParts
<1>2. CASE socket_connect_finish(ch)
  <2>1. ev' = ev
    BY ZenonT(30), <1>2 DEF socket_connect_finish, EvIdle
  <2>2. CASE cl' = [cl EXCEPT !.sock[ch] = "shut"]
    <3>1. Linked(cl, cl')
      BY ZenonT(30), <1>1, <2>2 DEF Linked, State
    <3> QED  BY ZenonT(30), <2>1, <3>1, LinkKept
  <2>3. CASE cl' # [cl EXCEPT !.sock[ch] = "shut"]
    <3> DEFINE b == cl.half \/ \E x \in Channel : cl.conn[x].connected /\ cl.sock[x] # "up"
               q == [cl.sock EXCEPT ![ch] = "up"]
               s == [cl EXCEPT !.sock = q, !.half = b]
    <3>1. cl' = protocol_client_xfer(s, ch, Setvolume)
      BY ZenonT(30), <1>2, <2>3 DEF socket_connect_finish, EvIdle, protocol_client_handshake
    <3>2. b \in BOOLEAN
      BY ZenonT(30), <1>1 DEF State
    <3>3. q[ch] = "up" /\ q \in [Channel -> {"none", "connecting", "up", "dead", "shut"}]
      BY ZenonT(30), <1>1 DEF State
    <3> HIDE DEF b, q
    <3>4. s \in State /\ s.sock[ch] \in {"up", "dead"} /\ Linked(cl, s)
      BY ZenonT(30), <1>1, <3>2, <3>3 DEF Linked, State
    <3> HIDE DEF s
    <3>5. Setvolume \in FrameSet /\ Setvolume.op # "call"
      BY ZenonT(30), MineOnly
    <3>6. Own(s, cl', {Setvolume, Ping})
      BY ZenonT(30), <3>1, <3>4, <3>5, XferOwn
    <3>7. Linked(s, cl')
      BY ZenonT(30), <3>6, SameLinked DEF Own
    <3> QED  BY ZenonT(30), <2>1, <3>4, <3>7, LinkedTwice, LinkKept
  <2> QED  BY ZenonT(30), <2>2, <2>3
<1>3. CASE protocol_client_pollout(ch) \/ TimePasses
  <2>1. ev' = ev /\ \E b \in BOOLEAN : cl' = [cl EXCEPT !.quiet = b]
    BY ZenonT(30), <1>3 DEF protocol_client_pollout, TimePasses, EvIdle, Rest
  <2>2. Linked(cl, cl')
    BY ZenonT(30), <1>1, <2>1 DEF Linked, State
  <2> QED  BY ZenonT(30), <2>1, <2>2, LinkKept
<1>4. CASE PollErr(ch)
  <2> DEFINE h == "none"
             s == Hangup(cl, ch, h)
  <2>1. cl' = LoseMessages(s, ch) /\ h \in Ended
    BY ZenonT(30), <1>4 DEF PollErr, socket_event_poll_err, Ended
  <2> HIDE DEF h
  <2>2. s \in State /\ Linked(cl, s)
    BY <1>1, <2>1, HangupStep DEF Linked
  <2> HIDE DEF s
  <2>3. Linked(s, cl')
    BY <2>1, <2>2, LoseStep DEF Linked
  <2>4. ev.at = "idle" /\ ev'.at = "cleanup"
    BY ZenonT(30), <1>4 DEF PollErr, Idle, At, Thread
  <2> QED  BY ZenonT(30), <2>2, <2>3, <2>4, LinkedTwice, LinkKept
<1>5. CASE protocol_client_cleanup(ch) \/ call_bail(ch) \/ client_ping_timer_expired(ch)
  <2>0. cl.conn[ch] \in ConnState
    BY ZenonT(30), <1>1, StateParts
  <2>3. Linked(cl, cl')
    <3>1. CASE protocol_client_cleanup(ch)
      <4> DEFINE q == [cl.conn[ch] EXCEPT !.saved = {}]
      <4>2. q \in ConnState /\ q.connected = cl.conn[ch].connected /\ q.reconnect = cl.conn[ch].reconnect
        BY ZenonT(30), <2>0 DEF ConnState
      <4>3. cl' = WithConn(cl, ch, q)
        BY ZenonT(30), <3>1 DEF protocol_client_cleanup, WithConn
      <4> HIDE DEF q
      <4> QED  BY ZenonT(30), <1>1, <4>2, <4>3, ConnLinked
    <3>2. CASE call_bail(ch)
      <4>1. PICK old : cl' = [cl EXCEPT !.conn[ch].saved = @ \ old]
        BY ZenonT(30), <3>2 DEF call_bail, TmIdle
      <4> DEFINE q == [cl.conn[ch] EXCEPT !.saved = @ \ old]
      <4>2. q \in ConnState /\ q.connected = cl.conn[ch].connected /\ q.reconnect = cl.conn[ch].reconnect
        BY <2>0 DEF ConnState
      <4>3. cl' = WithConn(cl, ch, q)
        BY ZenonT(30), <4>1 DEF WithConn
      <4> HIDE DEF q
      <4> QED  BY ZenonT(30), <1>1, <4>2, <4>3, ConnLinked
    <3>3. CASE client_ping_timer_expired(ch)
      <4> DEFINE q == [cl.conn[ch] EXCEPT !.ptimer = "none", !.started = FALSE]
      <4>2. q \in ConnState /\ q.connected = cl.conn[ch].connected /\ q.reconnect = cl.conn[ch].reconnect
        BY ZenonT(30), <2>0 DEF ConnState
      <4>3. cl' = WithConn(cl, ch, q)
        BY ZenonT(30), <3>3 DEF client_ping_timer_expired, TmIdle, WithConn
      <4> HIDE DEF q
      <4> QED  BY <1>1, <4>2, <4>3, ConnLinked
    <3> QED  BY ZenonT(30), <1>5, <3>1, <3>2, <3>3
  <2>4. ev' = ev \/ (ev.at = "cleanup" /\ ev'.at = "unwind")
    BY <1>5 DEF protocol_client_cleanup, call_bail, client_ping_timer_expired, TmIdle, At, Thread
  <2> QED  BY ZenonT(30), <2>3, <2>4, LinkKept
<1>6. CASE PingTimer(ch)
  <2>1. cl' = client_start_ping(cl, ch) /\ ev' = ev
    BY ZenonT(30), <1>6 DEF PingTimer, TmIdle
  <2>2. Linked(cl, cl')
    BY ZenonT(30), <1>1, <2>1, StartPing, SameLinked
  <2> QED  BY ZenonT(30), <2>1, <2>2, LinkKept
<1>7. ASSUME NEW s \in State, NEW x \in Channel, NEW how \in Ended
      PROVE  Hangup(s, x, how) \in State /\ Linked(s, Hangup(s, x, how))
  BY <1>7, HangupStep DEF Linked
<1>8. CASE LinkBreaks(ch)
  <2> DEFINE h == "dead"
  <2>1. cl' = Hangup(cl, ch, h) /\ h \in Ended /\ ev' = ev
    BY ZenonT(30), <1>8 DEF LinkBreaks, Ended, Rest
  <2> HIDE DEF h
  <2>2. Linked(cl, cl')
    BY ZenonT(30), <1>1, <1>7, <2>1
  <2> QED  BY ZenonT(30), <2>1, <2>2, LinkKept
<1>9. CASE Disconnect
  <2> DEFINE b == "bulk"
             l == "lowlat"
             h == "shut"
             u == socket_disconnect(cl, b)
  <2>1. cl' = socket_disconnect(u, l) /\ ev' = ev /\ b \in Channel /\ l \in Channel /\ h \in Ended
    BY ZenonT(30), <1>9 DEF Disconnect, Channel, Ended
  <2>2. u = cl \/ u = Hangup(cl, b, h)
    BY ZenonT(30) DEF socket_disconnect
  <2>3. cl' = u \/ cl' = Hangup(u, l, h)
    BY ZenonT(30), <2>1 DEF socket_disconnect
  <2>4. Linked(cl, cl)
    BY ZenonT(30) DEF Linked
  <2> HIDE DEF b, l, h, u
  <2>5. u \in State /\ Linked(cl, u)
    BY ZenonT(30), <1>1, <1>7, <2>1, <2>2, <2>4
  <2>6. Linked(cl, cl')
    BY <1>7, <2>1, <2>3, <2>5, LinkedTwice
  <2> QED  BY ZenonT(30), <2>1, <2>6, LinkKept
<1> QED  BY ZenonT(30), <1>2, <1>3, <1>4, <1>5, <1>6, <1>8, <1>9

\* The handshake is answered: the connection is up, and the thread reopens.
LEMMA SetvolumeLink ==
  ASSUME TypeOK, LinkInv, NEW ch \in Channel, ReplyToSetvolume(ch)
  PROVE  LinkInv'
PROOF
<1> DEFINE q == [cl.conn[ch] EXCEPT !.hs = FALSE]
           v == WithConn(cl, ch, q)
           s == protocol_client_pollin(v)
           t == lookup_frame(s, ch, Setvolume)
<1>1. cl \in State /\ ev.at = "idle"
  BY ZenonT(30), Types DEF ReplyToSetvolume, Idle, At, Thread
<1>2. /\ q \in ConnState /\ q.connected = cl.conn[ch].connected
      /\ q.reconnect = cl.conn[ch].reconnect
  BY ZenonT(30), <1>1, StateParts DEF ConnState
<1>3. v = [cl EXCEPT !.conn[ch].hs = FALSE]
  BY DEF WithConn
<1> HIDE DEF v
<1>4. \/ ev' = Idle /\ (cl' = s \/ cl' = t)
      \/ ev'.at = "reopen" /\ cl' = client_setvolume_cbk(t, ch, "ok")
  BY <1>3 DEF ReplyToSetvolume, protocol_client_interpret, client_setvolume_cbk, Thread
<1> HIDE DEF q
<1>5. Linked(cl, v) /\ v \in State
  BY <1>1, <1>2, ConnLinked DEF v
<1>6. Linked(v, s) /\ s \in State
  BY <1>5, PollinLinked
<1> HIDE DEF s
<1>7. Linked(s, t) /\ t \in State
  BY <1>6, LookupLinked
<1> HIDE DEF t
<1>8. Linked(cl, s) /\ Linked(cl, t)
  BY <1>5, <1>6, <1>7, LinkedTwice
<1>9. CASE ev' = Idle /\ (cl' = s \/ cl' = t)
  <2>1. Linked(cl, cl') /\ ev'.at = "idle"
    BY ZenonT(30), <1>8, <1>9 DEF Idle, At, Thread
  <2> QED  BY ZenonT(30), <1>1, <2>1, LinkKept
<1>10. CASE ev'.at = "reopen" /\ cl' = client_setvolume_cbk(t, ch, "ok")
  <2> DEFINE r == [t.conn[ch] EXCEPT !.connected = TRUE]
             u == WithConn(t, ch, r)
  <2>1. t.conn[ch] \in ConnState
    BY ZenonT(30), <1>7, StateParts
  <2>2. r \in ConnState /\ r.connected = TRUE /\ r.reconnect = t.conn[ch].reconnect
    BY ZenonT(30), <2>1 DEF ConnState
  <2>3. cl' = protocol_client_post_handshake(u)
    BY <1>10 DEF client_setvolume_cbk, WithConn
  <2> HIDE DEF r
  <2>4. /\ u \in State /\ u.started = t.started /\ u.view = t.view /\ u.missed = t.missed
        /\ u.conn[ch] = r /\ \A x \in Channel \ {ch} : u.conn[x] = t.conn[x]
    BY <1>7, <2>2, ConnUpdate
  <2> HIDE DEF u
  <2>a. cl'.conn = u.conn /\ cl'.started = u.started /\ cl'.view = u.view /\ cl'.missed = u.missed
    BY ZenonT(30), <2>3, <2>4 DEF protocol_client_post_handshake, State
  <2>5. /\ cl'.started = cl.started /\ cl'.view = cl.view /\ cl'.missed = cl.missed
        /\ cl'.conn[ch].connected = TRUE
        /\ \A x \in Channel : /\ cl'.conn[x].reconnect = cl.conn[x].reconnect
                              /\ x # ch => cl'.conn[x].connected = cl.conn[x].connected
    BY <1>8, <2>2, <2>4, <2>a DEF Linked
  <2>6. WasUp(cl')
    BY <2>5 DEF WasUp
  <2>7. \A x \in Channel : ev # At("stored", x)
    BY <1>1 DEF At, Thread
  <2>8. ChainAlive'
    BY <2>5, <2>7 DEF LinkInv, ChainAlive
  <2> QED  BY ZenonT(30), <1>10, <2>6, <2>8 DEF LinkInv, WasUp
<1> QED  BY ZenonT(30), <1>4, <1>9, <1>10

\* A connection is marked down, or its timer is read first.
LEMMA MarkDownLink ==
  ASSUME TypeOK, LinkInv, NEW ch \in Channel, MarkDown(ch)
  PROVE  LinkInv'
PROOF
<1>1. cl \in State /\ ev.at = "unwind" /\ ev = At("unwind", ch)
  BY Types DEF MarkDown, At, Thread
<1>2. \A x \in Channel : ev # At("stored", x)
  BY <1>1 DEF At, Thread
<1>3. CASE UNCHANGED cl
  <2>1. \/ ev'.at \in {"tell", "loaded"} /\ (ev'.at = "tell" => ev'.read = WasUp(cl))
        \/ cl' = [cl EXCEPT !.conn[ch].connected = FALSE] /\ ev' = At("stored", ch)
    BY <1>1 DEF MarkDown, Thread
  <2>2. CASE ev'.at \in {"tell", "loaded"} /\ (ev'.at = "tell" => ev'.read = WasUp(cl))
    BY ZenonT(30), <1>1, <1>2, <1>3, <2>2 DEF LinkInv, ChainAlive, WasUp
  <2>3. CASE cl' = [cl EXCEPT !.conn[ch].connected = FALSE] /\ ev' = At("stored", ch)
    BY ZenonT(30), <1>1, <1>2, <1>3, <2>3 DEF LinkInv, ChainAlive, WasUp, At, Thread
  <2> QED  BY ZenonT(30), <2>1, <2>2, <2>3
<1>4. CASE ~UNCHANGED cl
  <2>1. cl' = [cl EXCEPT !.conn[ch].connected = FALSE] /\ ev' = At("stored", ch)
    BY <1>4 DEF MarkDown
  <2> DEFINE r == [cl.conn[ch] EXCEPT !.connected = FALSE]
  <2>a. cl.conn[ch] \in ConnState
    BY ZenonT(30), <1>1, StateParts
  <2>b. r \in ConnState /\ r.connected = FALSE /\ r.reconnect = cl.conn[ch].reconnect
    BY ZenonT(30), <2>a DEF ConnState
  <2>c. cl' = WithConn(cl, ch, r)
    BY <2>1 DEF WithConn
  <2> HIDE DEF r
  <2>2. /\ cl'.started = cl.started /\ cl'.view = cl.view /\ cl'.missed = cl.missed
        /\ cl'.conn[ch].connected = FALSE
        /\ \A x \in Channel : /\ cl'.conn[x].reconnect = cl.conn[x].reconnect
                              /\ x # ch => cl'.conn[x].connected = cl.conn[x].connected
    BY <1>1, <2>b, <2>c, ConnUpdate
  <2>3. ChainAlive'
    BY <1>2, <2>1, <2>2 DEF LinkInv, ChainAlive
  <2>4. ev'.at = "stored"
    BY <2>1 DEF At, Thread
  <2>5. WasUp(cl') => WasUp(cl)
    BY ZenonT(30), <2>2 DEF WasUp
  <2> QED  BY ZenonT(30), <1>1, <2>2, <2>3, <2>4, <2>5 DEF LinkInv
<1> QED  BY ZenonT(30), <1>3, <1>4

\* The timer of a connection that went down is read.
LEMMA ReadTimerLink ==
  ASSUME TypeOK, LinkInv, NEW ch \in Channel, ReadTimer(ch)
  PROVE  LinkInv'
PROOF
<1>1. cl \in State /\ ev'.at = "tell" /\ ev'.read = TRUE
  BY ZenonT(30), Types DEF ReadTimer, Thread
<1>2. ev.at \in {"stored", "loaded"} /\ ev.ch = ch
  <2>1. \E a \in {"stored", "loaded"}, b \in BOOLEAN : ev = Thread(a, ch, {}, b)
    BY ZenonT(30) DEF ReadTimer, At
  <2> QED  BY <2>1 DEF Thread
<1>3. \A x \in Channel \ {ch} : ev # At("stored", x)
  BY <1>2 DEF At, Thread
<1> SUFFICES /\ cl'.started = cl.started
             /\ cl'.view = cl.view \/ cl'.view = "given up"
             /\ ~cl'.conn[ch].connected => cl'.conn[ch].reconnect \/ ch \in cl'.missed
             /\ \A x \in Channel \ {ch} : /\ cl'.conn[x].reconnect = cl.conn[x].reconnect
                                          /\ cl'.conn[x].connected = cl.conn[x].connected
                                          /\ x \in cl'.missed <=> x \in cl.missed
             /\ WasUp(cl') => WasUp(cl)
  BY ZenonT(30), <1>1, <1>2, <1>3 DEF LinkInv, ChainAlive
<1>4. CASE ev = At("stored", ch)
  <2>1. PICK k \in BOOLEAN : cl' = Restart(cl, ch, cl.conn[ch].reconnect, k)
    BY ZenonT(30), <1>4 DEF ReadTimer, At, Thread
  <2>2. CASE cl.conn[ch].reconnect
    <3>1. cl' = cl
      BY ZenonT(30), <2>1, <2>2 DEF Restart
    <3> QED  BY ZenonT(30), <2>2, <3>1
  <2>3. CASE ~cl.conn[ch].reconnect
    <3>1. cl' = client_protocol_reconnect(cl, ch, k)
      BY ZenonT(30), <2>1, <2>3 DEF Restart
    <3>2. Retried(cl, cl', ch)
      BY ZenonT(30), <1>1, <3>1, ReconnectStep
    <3>3. WasUp(cl') => WasUp(cl)
      BY ZenonT(30), <3>2 DEF Retried, WasUp
    <3> QED  BY ZenonT(30), <3>2, <3>3 DEF Retried
  <2> QED  BY ZenonT(30), <2>2, <2>3
<1>5. CASE ev # At("stored", ch)
  <2>1. PICK pending \in BOOLEAN, k \in BOOLEAN :
          cl' = Restart([cl EXCEPT !.conn[ch].connected = FALSE,
                                   !.missed = IF pending /\ ~cl.conn[ch].reconnect
                                              THEN @ \cup {ch} ELSE @], ch, pending, k)
    BY ZenonT(30), <1>5 DEF ReadTimer
  <2> DEFINE m == IF pending /\ ~cl.conn[ch].reconnect THEN cl.missed \cup {ch} ELSE cl.missed
             q == [cl.conn[ch] EXCEPT !.connected = FALSE]
             u == [cl EXCEPT !.conn = [cl.conn EXCEPT ![ch] = q], !.missed = m]
  <2>2. cl' = Restart(u, ch, pending, k)
    BY ZenonT(30), <2>1
  <2>3. m \subseteq Channel /\ \A x \in Channel \ {ch} : x \in m <=> x \in cl.missed
    BY ZenonT(30), <1>1 DEF State
  <2>4. pending => cl.conn[ch].reconnect \/ ch \in m
    OBVIOUS
  <2>5. q \in ConnState /\ q.connected = FALSE /\ q.reconnect = cl.conn[ch].reconnect
    BY ZenonT(30), <1>1, StateParts DEF ConnState
  <2> HIDE DEF m, q
  <2>6. /\ u \in State /\ u.started = cl.started /\ u.view = cl.view /\ u.missed = m
        /\ u.conn[ch] = q /\ \A x \in Channel \ {ch} : u.conn[x] = cl.conn[x]
    BY ZenonT(30), <1>1, <2>3, <2>5 DEF State
  <2> HIDE DEF u
  <2>7. WasUp(u) => WasUp(cl)
    BY <2>5, <2>6 DEF WasUp
  <2>8. CASE pending
    <3>1. cl' = u
      BY ZenonT(30), <2>2, <2>8 DEF Restart
    <3> QED  BY ZenonT(30), <2>3, <2>4, <2>5, <2>6, <2>7, <2>8, <3>1
  <2>9. CASE ~pending
    <3>1. cl' = client_protocol_reconnect(u, ch, k)
      BY ZenonT(30), <2>2, <2>9 DEF Restart
    <3>2. Retried(u, cl', ch)
      BY ZenonT(30), <2>6, <3>1, ReconnectStep
    <3>3. WasUp(cl') => WasUp(u)
      BY ZenonT(30), <3>2 DEF Retried, WasUp
    <3> QED  BY ZenonT(30), <2>3, <2>5, <2>6, <2>7, <3>2, <3>3 DEF Retried
  <2> QED  BY ZenonT(30), <2>8, <2>9
<1> QED  BY ZenonT(30), <1>4, <1>5

\* A reconnect timer fires.
LEMMA ReconnectLink ==
  ASSUME TypeOK, LinkInv, NEW ch \in Channel, ReconnectTimer(ch)
  PROVE  LinkInv'
PROOF
<1>1. PICK k \in BOOLEAN : cl' = client_protocol_reconnect(cl, ch, k)
  BY DEF ReconnectTimer, TmIdle
<1>2. cl \in State /\ ev' = ev
  BY ZenonT(30), Types DEF ReconnectTimer, TmIdle
<1>3. Retried(cl, cl', ch)
  BY ZenonT(30), <1>1, <1>2, ReconnectStep
<1>4. WasUp(cl') <=> WasUp(cl)
  BY ZenonT(30), <1>3 DEF Retried, WasUp
<1>5. ChainAlive'
  BY ZenonT(30), <1>2, <1>3 DEF Retried, LinkInv, ChainAlive
<1> QED  BY ZenonT(30), <1>2, <1>3, <1>4, <1>5 DEF Retried, LinkInv

\* PARENT_UP.
LEMMA ParentUpLink ==
  ASSUME TypeOK, LinkInv, ParentUp
  PROVE  LinkInv'
PROOF
<1> DEFINE b == "bulk"
           l == "lowlat"
<1>1. PICK i \in BOOLEAN, k \in BOOLEAN :
        cl' = [client_protocol_reconnect(client_protocol_reconnect(cl, b, i), l, k)
                EXCEPT !.started = TRUE]
  BY ZenonT(30) DEF ParentUp
<1>2. cl \in State /\ ev' = ev /\ b \in Channel /\ l \in Channel /\ b # l
      /\ \A x \in Channel : x = b \/ x = l
  BY Types DEF ParentUp, Rest, Channel
<1> DEFINE s == client_protocol_reconnect(cl, b, i)
           t == client_protocol_reconnect(s, l, k)
<1>3. cl' = [t EXCEPT !.started = TRUE]
  BY <1>1
<1> HIDE DEF b, l
<1>4. s \in State /\ Retried(cl, s, b)
  BY <1>2, ReconnectStep
<1> HIDE DEF s
<1>5. t \in State /\ Retried(s, t, l)
  BY <1>2, <1>4, ReconnectStep
<1> HIDE DEF t
<1>6. /\ t.view = cl.view \/ t.view = "given up"
      /\ \A x \in Channel : t.conn[x].connected = cl.conn[x].connected
  BY ZenonT(30), <1>2, <1>4, <1>5 DEF Retried
<1>7. \A x \in Channel : ~t.conn[x].connected => t.conn[x].reconnect = TRUE
  BY ZenonT(30), <1>2, <1>4, <1>5 DEF Retried
<1>8. cl'.view = t.view /\ cl'.conn = t.conn
  BY ZenonT(30), <1>3, <1>5 DEF State
<1>9. WasUp(cl') <=> WasUp(cl)
  BY ZenonT(30), <1>6, <1>8 DEF WasUp
<1>10. ChainAlive'
  BY ZenonT(30), <1>7, <1>8 DEF ChainAlive
<1> QED  BY ZenonT(30), <1>2, <1>6, <1>8, <1>9, <1>10 DEF LinkInv

\* CHILD_UP and CHILD_DOWN.
LEMMA TellLink ==
  ASSUME TypeOK, LinkInv, TellParents \/ ChildUp
  PROVE  LinkInv'
PROOF
<1>1. cl \in State /\ ev.at \in {"tell", "reopen"} /\ ev'.at = "idle"
  BY Types DEF TellParents, ChildUp, Idle, At, Thread
<1>2. \A x \in Channel : ev # At("stored", x)
  BY <1>1 DEF At, Thread
<1>3. /\ cl'.started = cl.started /\ cl'.conn = cl.conn /\ cl'.missed = cl.missed
  BY ZenonT(30), <1>1 DEF TellParents, ChildUp, protocol_client_mark_fd_bad, State
<1>4. ChainAlive'
  BY <1>2, <1>3 DEF LinkInv, ChainAlive
<1>5. WasUp(cl') <=> WasUp(cl)
  BY ZenonT(30), <1>3 DEF WasUp
<1>6. CASE ChildUp
  <2>1. cl'.view = "up" /\ ev.at = "reopen"
    BY ZenonT(30), <1>1, <1>6 DEF ChildUp, State
  <2> QED  BY ZenonT(30), <1>1, <1>4, <1>5, <2>1 DEF LinkInv
<1>7. CASE TellParents
  <2>1. \/ ev.read /\ ~WasUp(cl) /\ cl'.view = "down"
        \/ ~(ev.read /\ ~WasUp(cl)) /\ cl' = cl
    BY ZenonT(30), <1>1, <1>7 DEF TellParents, protocol_client_mark_fd_bad, State
  <2>2. ev.at = "tell"
    BY ZenonT(30), <1>7 DEF TellParents
  <2> QED  BY ZenonT(30), <1>1, <1>4, <1>5, <2>1, <2>2 DEF LinkInv
<1> QED  BY ZenonT(30), <1>6, <1>7

\* The initial state.
LEMMA InitLink == Init => LinkInv
PROOF
<1> SUFFICES ASSUME Init PROVE LinkInv
  BY ZenonT(30)
<1>1. /\ cl.started = Connected /\ \A x \in Channel : cl.conn[x].connected = Connected
      /\ cl.view = (IF Connected THEN "up" ELSE "none") /\ ev.at = "idle"
  BY DEF Init, NewConn, Idle, At, Thread
<1>2. "bulk" \in Channel
  BY DEF Channel
<1>3. Connected => WasUp(cl)
  BY ZenonT(30), <1>1, <1>2 DEF WasUp
<1> QED  BY ZenonT(30), <1>1, <1>3, ConnectedAssumption DEF LinkInv, ChainAlive

\* Every step keeps it.
LEMMA NextLink == TypeOK /\ LinkInv /\ [Next]_vars => LinkInv'
PROOF
<1> SUFFICES ASSUME TypeOK, LinkInv, [Next]_vars PROVE LinkInv'
  BY ZenonT(30)
<1>1. ASSUME NEW c \in Call, Fop(c) \/ Transfer(c) \/ Done(c) \/ ReplyToCall(c) \/ Execute(c)
      PROVE  LinkInv'
  BY ZenonT(30), <1>1, CallsLink, CallReplyLink
<1>2. ASSUME NEW f \in Fd, \/ client_release(f) \/ client_releasedir(f) \/ Destroy(f) \/ OpenAgain(f)
                           \/ \E ch \in Channel : ReplyToReopen(f, ch) \/ ReplyToRelease(f, ch)
      PROVE  LinkInv'
  BY ZenonT(30), <1>2, DescriptorsLink, DescriptorReplyLink
<1>3. ASSUME NEW ch \in Channel, EventThread(ch)
      PROVE  LinkInv'
  BY ZenonT(30), <1>3, SocketsLink, SetvolumeLink, PingLink, UnwindLink, MarkDownLink, ReadTimerLink
     DEF EventThread
<1>4. ASSUME NEW ch \in Channel,
             \/ protocol_client_pollout(ch) \/ ReconnectTimer(ch) \/ call_bail(ch)
             \/ client_ping_timer_expired(ch) \/ PingTimer(ch) \/ LinkBreaks(ch)
      PROVE  LinkInv'
  BY ZenonT(30), <1>4, SocketsLink, ReconnectLink
<1>5. CASE ChildUp \/ TellParents \/ ParentUp \/ Bail \/ Disconnect \/ TimePasses
  <2>1. "bulk" \in Channel
    BY ZenonT(30) DEF Channel
  <2> QED  BY ZenonT(30), <1>5, <2>1, TellLink, ParentUpLink, BailLink, SocketsLink
<1>6. CASE UNCHANGED vars
  <2>1. cl' = cl /\ ev' = ev
    BY ZenonT(30), <1>6 DEF vars
  <2>2. Linked(cl, cl')
    BY ZenonT(30), <2>1 DEF Linked
  <2> QED  BY ZenonT(30), <2>1, <2>2, LinkKept
<1> QED  BY <1>1, <1>2, <1>3, <1>4, <1>5, <1>6 DEF Next

(* A connection that is down is tried again, and the parents are told of the *)
(* link's ups and downs: whatever the order of the event thread (handshake,  *)
(* POLLERR, the unlocked read of conn->connected in notify) and the timer    *)
(* thread (client_protocol_reconnect), no down connection is left without    *)
(* its timer, and an idle event thread has no notification outstanding.      *)
THEOREM LinkKeptWatched == Spec => []LinkWatched
PROOF
<1>1. IInv => TypeOK
  BY DEF IInv
<1> QED  BY <1>1, Invariant, InitLink, NextLink, LinkInvWatched, PTL DEF Spec

=============================================================================
