---------------------------- MODULE ClientLemmas ----------------------------
(***************************************************************************)
(* What the operators of ClientProtocol do to the state they are given.    *)
(***************************************************************************)
EXTENDS ClientProtocol, TLAPS

\* What a callback is told.
Answer == {"ok", "err"}

\* Both are states, and agree in what only notify and the server change.
SameRest(s, t) ==
  /\ s \in State /\ t \in State
  /\ t.started = s.started /\ t.view = s.view /\ t.session = s.session
  /\ t.half = s.half /\ t.missed = s.missed
  /\ \A x \in Channel : /\ t.conn[x].connected = s.conn[x].connected
                        /\ t.conn[x].reconnect = s.conn[x].reconnect

\* The frames F are saved with connection ch.
Saves(s, t, ch, F) ==
  \A x \in Channel : t.conn[x].saved = IF x = ch THEN s.conn[x].saved \cup F ELSE s.conn[x].saved

\* Only the messages of the descriptors differ.
SameFds(s, t) ==
  \A f \in Fd : /\ t.fd[f].st = s.fd[f].st /\ t.fd[f].remote = s.fd[f].remote
                /\ t.fd[f].listed = s.fd[f].listed /\ t.fd[f].dir = s.fd[f].dir

\* The call frames are told apart by their calls, and from the others.
LEMMA MineOnly ==
  /\ \A c, d \in Call : Mine(c) = Mine(d) => c = d
  /\ \A c \in Call : Mine(c) # Setvolume /\ Mine(c) # Ping
  /\ \A c \in Call, f \in Fd : Mine(c) # Reopen(f) /\ Mine(c) # Release(f)
  /\ \A c \in Call : Mine(c) \in FrameSet /\ Mine(c).op = "call" /\ Mine(c).of = c
  /\ Setvolume \in FrameSet /\ Setvolume.op = "setvolume"
  /\ Ping \in FrameSet /\ Ping.op = "ping"
  /\ \A f \in Fd : /\ Reopen(f) \in FrameSet /\ Reopen(f).op = "reopen" /\ Reopen(f).of = f
                   /\ Release(f) \in FrameSet /\ Release(f).op = "release" /\ Release(f).of = f
BY ZenonT(30) DEF Mine, Setvolume, Ping, Reopen, Release, Frame, FrameSet

\* A frame is one of the five kinds.
LEMMA FrameKinds ==
  ASSUME NEW fr \in FrameSet
  PROVE  \/ fr.op = "call" /\ fr.of \in Call /\ fr = Mine(fr.of)
         \/ fr = Setvolume
         \/ fr = Ping
         \/ fr.op = "reopen" /\ fr.of \in Fd /\ fr = Reopen(fr.of)
         \/ fr.op = "release" /\ fr.of \in Fd /\ fr = Release(fr.of)
BY DEF Mine, Setvolume, Ping, Reopen, Release, Frame, FrameSet

\* A new record for one connection, descriptor or call.
WithConn(s, ch, r) == [s EXCEPT !.conn = [s.conn EXCEPT ![ch] = r]]
WithFd(s, f, r)    == [s EXCEPT !.fd = [s.fd EXCEPT ![f] = r]]
WithCall(s, c, r)  == [s EXCEPT !.call = [s.call EXCEPT ![c] = r]]

\* A new record for one connection.
LEMMA ConnUpdate ==
  ASSUME NEW s \in State, NEW ch \in Channel, NEW r \in ConnState,
         NEW t, t = WithConn(s, ch, r)
  PROVE  /\ t \in State
         /\ t.call = s.call /\ t.fd = s.fd /\ t.sock = s.sock /\ t.started = s.started
         /\ t.quiet = s.quiet /\ t.view = s.view /\ t.session = s.session /\ t.half = s.half
         /\ t.missed = s.missed
         /\ t.conn[ch] = r /\ \A x \in Channel \ {ch} : t.conn[x] = s.conn[x]
PROOF
<1>1. t.conn = [s.conn EXCEPT ![ch] = r] /\ s.conn \in [Channel -> ConnState]
  BY ZenonT(30) DEF State, WithConn, WithFd, WithCall
<1>2. t.conn \in [Channel -> ConnState]
  BY <1>1
<1>3. t \in State
  BY ZenonT(30), <1>2 DEF State, WithConn, WithFd, WithCall
<1> QED  BY ZenonT(30), <1>1, <1>3 DEF State, WithConn, WithFd, WithCall

\* A new record for one descriptor.
LEMMA FdUpdate ==
  ASSUME NEW s \in State, NEW f \in Fd, NEW r \in FdState,
         NEW t, t = WithFd(s, f, r)
  PROVE  /\ t \in State
         /\ t.call = s.call /\ t.conn = s.conn /\ t.sock = s.sock /\ t.started = s.started
         /\ t.quiet = s.quiet /\ t.view = s.view /\ t.session = s.session /\ t.half = s.half
         /\ t.missed = s.missed
         /\ t.fd[f] = r /\ \A x \in Fd \ {f} : t.fd[x] = s.fd[x]
PROOF
<1>1. t.fd = [s.fd EXCEPT ![f] = r] /\ s.fd \in [Fd -> FdState]
  BY ZenonT(30) DEF State, WithConn, WithFd, WithCall
<1>2. t.fd \in [Fd -> FdState]
  BY <1>1
<1>3. t \in State
  BY ZenonT(30), <1>2 DEF State, WithConn, WithFd, WithCall
<1> QED  BY ZenonT(30), <1>1, <1>3 DEF State, WithConn, WithFd, WithCall

\* A new record for one call.
LEMMA CallUpdate ==
  ASSUME NEW s \in State, NEW c \in Call, NEW r \in CallState,
         NEW t, t = WithCall(s, c, r)
  PROVE  /\ t \in State
         /\ t.fd = s.fd /\ t.conn = s.conn /\ t.sock = s.sock /\ t.started = s.started
         /\ t.quiet = s.quiet /\ t.view = s.view /\ t.session = s.session /\ t.half = s.half
         /\ t.missed = s.missed
         /\ t.call[c] = r /\ \A x \in Call \ {c} : t.call[x] = s.call[x]
PROOF
<1>1. t.call = [s.call EXCEPT ![c] = r] /\ s.call \in [Call -> CallState]
  BY ZenonT(30) DEF State, WithConn, WithFd, WithCall
<1>2. t.call \in [Call -> CallState]
  BY <1>1
<1>3. t \in State
  BY ZenonT(30), <1>2 DEF State, WithConn, WithFd, WithCall
<1> QED  BY ZenonT(30), <1>1, <1>3 DEF State, WithConn, WithFd, WithCall

\* The parts of a state are of their types.
LEMMA StateParts ==
  ASSUME NEW s \in State
  PROVE  /\ \A c \in Call : s.call[c] \in CallState
         /\ \A f \in Fd : s.fd[f] \in FdState
         /\ \A ch \in Channel : s.conn[ch] \in ConnState
BY ZenonT(30) DEF State

\* save_frame.
LEMMA SaveFrame ==
  ASSUME NEW s \in State, NEW ch \in Channel, NEW fr \in FrameSet,
         NEW t, t = save_frame(s, ch, fr)
  PROVE  /\ SameRest(s, t) /\ Saves(s, t, ch, {fr})
         /\ t.call = s.call /\ t.fd = s.fd /\ t.sock = s.sock
PROOF
<1> DEFINE r == [s.conn[ch] EXCEPT !.saved = @ \cup {fr}]
<1>1. s.conn[ch] \in ConnState
  BY StateParts
<1>2. r \in ConnState
  BY <1>1 DEF ConnState
<1>3. r.saved = s.conn[ch].saved \cup {fr} /\ r.connected = s.conn[ch].connected
      /\ r.reconnect = s.conn[ch].reconnect
  BY <1>1 DEF ConnState
<1>4. t = WithConn(s, ch, r)
  BY DEF save_frame, WithConn
<1> HIDE DEF r
<1>5. /\ t \in State
      /\ t.call = s.call /\ t.fd = s.fd /\ t.sock = s.sock /\ t.started = s.started
      /\ t.quiet = s.quiet /\ t.view = s.view /\ t.session = s.session /\ t.half = s.half
      /\ t.missed = s.missed
      /\ t.conn[ch] = r /\ \A x \in Channel \ {ch} : t.conn[x] = s.conn[x]
  BY <1>2, <1>4, ConnUpdate
<1> QED  BY ZenonT(30), <1>3, <1>5 DEF SameRest, Saves

\* Posted: a message of the client's own.
LEMMA PostedOwn ==
  ASSUME NEW s \in State, NEW ch \in Channel, NEW fr \in FrameSet, fr.op # "call",
         NEW t, t = Posted(s, ch, fr)
  PROVE  /\ SameRest(s, t) /\ Saves(s, t, ch, {}) /\ SameFds(s, t)
         /\ t.call = s.call /\ t.sock = s.sock
         /\ \A f \in Fd : t.fd[f].net = IF fr = Reopen(f) \/ fr = Release(f) THEN ch ELSE s.fd[f].net
PROOF
<1>1. s.conn[ch] \in ConnState
  BY ZenonT(30), StateParts
<1>2. CASE fr = Setvolume
  <2> DEFINE r == [s.conn[ch] EXCEPT !.hs = TRUE]
  <2>1. r \in ConnState /\ r.saved = s.conn[ch].saved /\ r.connected = s.conn[ch].connected
        /\ r.reconnect = s.conn[ch].reconnect
    BY ZenonT(30), <1>1 DEF ConnState
  <2>2. t = WithConn(s, ch, r)
    BY ZenonT(30), <1>2, MineOnly DEF Posted, WithConn
  <2> HIDE DEF r
  <2>3. /\ t \in State
        /\ t.call = s.call /\ t.fd = s.fd /\ t.sock = s.sock /\ t.started = s.started
        /\ t.view = s.view /\ t.session = s.session /\ t.half = s.half /\ t.missed = s.missed
        /\ t.conn[ch] = r /\ \A x \in Channel \ {ch} : t.conn[x] = s.conn[x]
    BY <2>1, <2>2, ConnUpdate
  <2>4. \A f \in Fd : fr # Reopen(f) /\ fr # Release(f)
    BY <1>2, MineOnly
  <2> QED  BY <2>1, <2>3, <2>4 DEF SameRest, Saves, SameFds
<1>3. CASE fr = Ping
  <2> DEFINE r == [s.conn[ch] EXCEPT !.ping = TRUE]
  <2>1. r \in ConnState /\ r.saved = s.conn[ch].saved /\ r.connected = s.conn[ch].connected
        /\ r.reconnect = s.conn[ch].reconnect
    BY ZenonT(30), <1>1 DEF ConnState
  <2>2. t = WithConn(s, ch, r)
    BY ZenonT(30), <1>3, MineOnly DEF Posted, WithConn
  <2> HIDE DEF r
  <2>3. /\ t \in State
        /\ t.call = s.call /\ t.fd = s.fd /\ t.sock = s.sock /\ t.started = s.started
        /\ t.view = s.view /\ t.session = s.session /\ t.half = s.half /\ t.missed = s.missed
        /\ t.conn[ch] = r /\ \A x \in Channel \ {ch} : t.conn[x] = s.conn[x]
    BY <2>1, <2>2, ConnUpdate
  <2>4. \A f \in Fd : fr # Reopen(f) /\ fr # Release(f)
    BY <1>3, MineOnly
  <2> QED  BY <2>1, <2>3, <2>4 DEF SameRest, Saves, SameFds
<1>4. CASE \E f \in Fd : fr = Reopen(f) \/ fr = Release(f)
  <2>1. PICK f \in Fd : fr = Reopen(f) \/ fr = Release(f)
    BY <1>4
  <2>2. fr.of = f /\ fr.op \in {"reopen", "release"}
    BY <2>1, MineOnly
  <2> DEFINE r == [s.fd[f] EXCEPT !.net = ch]
  <2>3. s.fd[f] \in FdState
    BY StateParts
  <2>4. /\ r \in FdState /\ r.st = s.fd[f].st /\ r.remote = s.fd[f].remote /\ r.net = ch
        /\ r.listed = s.fd[f].listed /\ r.dir = s.fd[f].dir
    BY <2>3 DEF FdState
  <2>5. t = WithFd(s, f, r)
    BY <2>2 DEF Posted, WithFd
  <2> HIDE DEF r
  <2>6. /\ t \in State
        /\ t.call = s.call /\ t.conn = s.conn /\ t.sock = s.sock /\ t.started = s.started
        /\ t.view = s.view /\ t.session = s.session /\ t.half = s.half /\ t.missed = s.missed
        /\ t.fd[f] = r /\ \A x \in Fd \ {f} : t.fd[x] = s.fd[x]
    BY <2>4, <2>5, FdUpdate
  <2>7. \A x \in Fd : (fr = Reopen(x) \/ fr = Release(x)) <=> x = f
    BY <2>1, <2>2, MineOnly
  <2>8. SameRest(s, t) /\ Saves(s, t, ch, {})
    BY ZenonT(30), <2>6 DEF SameRest, Saves
  <2>9. SameFds(s, t)
    BY ZenonT(30), <2>4, <2>6 DEF SameFds
  <2> QED  BY <2>4, <2>6, <2>7, <2>8, <2>9
<1> QED  BY <1>2, <1>3, <1>4, FrameKinds

\* Posted: a call is on its way.
LEMMA PostedCall ==
  ASSUME NEW s \in State, NEW ch \in Channel, NEW c \in Call,
         NEW t, t = Posted(s, ch, Mine(c))
  PROVE  /\ SameRest(s, t) /\ Saves(s, t, ch, {})
         /\ t.sock = s.sock /\ t.fd = s.fd
         /\ t.call[c].st = "saved" /\ t.call[c].net = "req" /\ t.call[c].ch = ch
         /\ t.call[c].kind = s.call[c].kind /\ t.call[c].fd = s.call[c].fd
         /\ t.call[c].h = s.call[c].h
         /\ \A d \in Call \ {c} : t.call[d] = s.call[d]
PROOF
<1> DEFINE r == [s.call[c] EXCEPT !.st = "saved", !.net = "req", !.ch = ch]
<1>1. s.call[c] \in CallState
  BY StateParts
<1>2. /\ r \in CallState /\ r.st = "saved" /\ r.net = "req" /\ r.ch = ch
      /\ r.kind = s.call[c].kind /\ r.fd = s.call[c].fd /\ r.h = s.call[c].h
  BY ZenonT(30), <1>1 DEF CallState
<1>3. t = WithCall(s, c, r)
  BY ZenonT(30), MineOnly DEF Posted, WithCall
<1> HIDE DEF r
<1>4. /\ t \in State
      /\ t.fd = s.fd /\ t.conn = s.conn /\ t.sock = s.sock /\ t.started = s.started
      /\ t.view = s.view /\ t.session = s.session /\ t.half = s.half /\ t.missed = s.missed
      /\ t.call[c] = r /\ \A x \in Call \ {c} : t.call[x] = s.call[x]
  BY <1>2, <1>3, CallUpdate
<1>5. SameRest(s, t) /\ Saves(s, t, ch, {})
  BY <1>4 DEF SameRest, Saves
<1> QED  BY <1>2, <1>4, <1>5

\* The clock of the ping timer is no part of the frames.
LEMMA QuietUpdate ==
  ASSUME NEW s \in State, NEW b \in BOOLEAN, NEW t, t = [s EXCEPT !.quiet = b]
  PROVE  /\ SameRest(s, t)
         /\ t.call = s.call /\ t.fd = s.fd /\ t.sock = s.sock /\ t.conn = s.conn
PROOF
<1>1. t \in State
  BY ZenonT(30) DEF State
<1> QED  BY ZenonT(30), <1>1 DEF State, SameRest

\* Sent: a frame of the client's own is saved.
LEMMA SentOwn ==
  ASSUME NEW s \in State, NEW ch \in Channel, NEW fr \in FrameSet, fr.op # "call",
         NEW t, t = Sent(s, ch, fr)
  PROVE  /\ SameRest(s, t) /\ Saves(s, t, ch, {fr}) /\ SameFds(s, t)
         /\ t.call = s.call /\ t.sock = s.sock
         /\ \A f \in Fd : t.fd[f].net = IF fr = Reopen(f) \/ fr = Release(f) THEN ch ELSE s.fd[f].net
PROOF
<1> DEFINE u == Posted(s, ch, fr)
           v == save_frame(u, ch, fr)
<1>1. /\ SameRest(s, u) /\ Saves(s, u, ch, {}) /\ SameFds(s, u)
      /\ u.call = s.call /\ u.sock = s.sock
      /\ \A f \in Fd : u.fd[f].net = IF fr = Reopen(f) \/ fr = Release(f) THEN ch ELSE s.fd[f].net
  BY PostedOwn
<1> HIDE DEF u
<1>2. u \in State
  BY <1>1 DEF SameRest
<1>3. /\ SameRest(u, v) /\ Saves(u, v, ch, {fr})
      /\ v.call = u.call /\ v.fd = u.fd /\ v.sock = u.sock
  BY <1>2, SaveFrame
<1>4. t = [v EXCEPT !.quiet = FALSE]
  BY DEF Sent, u
<1> HIDE DEF v
<1>5. v \in State
  BY <1>3 DEF SameRest
<1>6. /\ SameRest(v, t)
      /\ t.call = v.call /\ t.fd = v.fd /\ t.sock = v.sock /\ t.conn = v.conn
  BY ZenonT(30), <1>4, <1>5, QuietUpdate
<1>7. SameRest(s, t)
  BY <1>1, <1>3, <1>6 DEF SameRest
<1>8. Saves(s, t, ch, {fr})
  BY ZenonT(30), <1>1, <1>3, <1>6 DEF Saves
<1> QED  BY <1>1, <1>3, <1>6, <1>7, <1>8 DEF SameFds

\* Sent: a call is saved.
LEMMA SentCall ==
  ASSUME NEW s \in State, NEW ch \in Channel, NEW c \in Call,
         NEW t, t = Sent(s, ch, Mine(c))
  PROVE  /\ SameRest(s, t) /\ Saves(s, t, ch, {Mine(c)})
         /\ t.sock = s.sock /\ t.fd = s.fd
         /\ t.call[c].st = "saved" /\ t.call[c].net = "req" /\ t.call[c].ch = ch
         /\ t.call[c].kind = s.call[c].kind /\ t.call[c].fd = s.call[c].fd
         /\ t.call[c].h = s.call[c].h
         /\ \A d \in Call \ {c} : t.call[d] = s.call[d]
PROOF
<1> DEFINE u == Posted(s, ch, Mine(c))
           v == save_frame(u, ch, Mine(c))
<1>1. /\ SameRest(s, u) /\ Saves(s, u, ch, {})
      /\ u.sock = s.sock /\ u.fd = s.fd
      /\ u.call[c].st = "saved" /\ u.call[c].net = "req" /\ u.call[c].ch = ch
      /\ u.call[c].kind = s.call[c].kind /\ u.call[c].fd = s.call[c].fd
      /\ u.call[c].h = s.call[c].h
      /\ \A d \in Call \ {c} : u.call[d] = s.call[d]
  BY PostedCall
<1> HIDE DEF u
<1>2. u \in State /\ Mine(c) \in FrameSet
  BY <1>1, MineOnly DEF SameRest
<1>3. /\ SameRest(u, v) /\ Saves(u, v, ch, {Mine(c)})
      /\ v.call = u.call /\ v.fd = u.fd /\ v.sock = u.sock
  BY <1>2, SaveFrame
<1>4. t = [v EXCEPT !.quiet = FALSE]
  BY DEF Sent, u
<1> HIDE DEF v
<1>5. v \in State
  BY <1>3 DEF SameRest
<1>6. /\ SameRest(v, t)
      /\ t.call = v.call /\ t.fd = v.fd /\ t.sock = v.sock /\ t.conn = v.conn
  BY ZenonT(30), <1>4, <1>5, QuietUpdate
<1>7. SameRest(s, t)
  BY <1>1, <1>3, <1>6 DEF SameRest
<1>8. Saves(s, t, ch, {Mine(c)})
  BY <1>1, <1>3, <1>6 DEF Saves
<1> QED  BY <1>1, <1>3, <1>6, <1>7, <1>8

\* client_start_ping: at most a ping is sent.
LEMMA StartPing ==
  ASSUME NEW s \in State, NEW ch \in Channel, NEW t, t = client_start_ping(s, ch)
  PROVE  /\ SameRest(s, t) /\ t.call = s.call /\ t.sock = s.sock
         /\ SameFds(s, t) /\ \A f \in Fd : t.fd[f].net = s.fd[f].net
         /\ \/ Saves(s, t, ch, {})
            \/ Saves(s, t, ch, {Ping}) /\ s.sock[ch] \in {"up", "dead"}
PROOF
<1>1. s.conn[ch] \in ConnState
  BY StateParts
<1>2. ASSUME NEW p \in {"none", "expire"}, NEW b \in BOOLEAN, NEW u,
             u = [s EXCEPT !.conn[ch] = [@ EXCEPT !.ptimer = p, !.started = b]]
      PROVE  /\ SameRest(s, u) /\ u.call = s.call /\ u.sock = s.sock /\ u.fd = s.fd
             /\ Saves(s, u, ch, {})
  <2> DEFINE r == [s.conn[ch] EXCEPT !.ptimer = p, !.started = b]
  <2>1. r \in ConnState /\ r.saved = s.conn[ch].saved /\ r.connected = s.conn[ch].connected
        /\ r.reconnect = s.conn[ch].reconnect
    BY ZenonT(30), <1>1, <1>2 DEF ConnState
  <2>2. u = WithConn(s, ch, r)
    BY <1>2 DEF WithConn
  <2> HIDE DEF r
  <2>3. /\ u \in State
        /\ u.call = s.call /\ u.fd = s.fd /\ u.sock = s.sock /\ u.started = s.started
        /\ u.view = s.view /\ u.session = s.session /\ u.half = s.half /\ u.missed = s.missed
        /\ u.conn[ch] = r /\ \A x \in Channel \ {ch} : u.conn[x] = s.conn[x]
    BY <2>1, <2>2, ConnUpdate
  <2> QED  BY <2>1, <2>3 DEF SameRest, Saves
<1>3. CASE ~PingTimeout
  BY <1>3 DEF client_start_ping, SameRest, SameFds, Saves
<1>4. CASE PingTimeout /\ (s.conn[ch].saved = {} \/ ~s.conn[ch].connected)
  <2>1. t = [s EXCEPT !.conn[ch] = [@ EXCEPT !.ptimer = "none", !.started = FALSE]]
    BY ZenonT(30), <1>4 DEF client_start_ping
  <2> QED  BY ZenonT(30), <2>1, <1>2 DEF SameFds
<1>5. CASE PingTimeout /\ ~(s.conn[ch].saved = {} \/ ~s.conn[ch].connected)
  <2> DEFINE u == [s EXCEPT !.conn[ch] = [@ EXCEPT !.ptimer = "expire", !.started = TRUE]]
  <2>1. /\ SameRest(s, u) /\ u.call = s.call /\ u.sock = s.sock /\ u.fd = s.fd
        /\ Saves(s, u, ch, {})
    BY ZenonT(30), <1>2
  <2>2. t = IF socket_submit(u, ch) THEN Sent(u, ch, Ping) ELSE u
    BY ZenonT(30), <1>5 DEF client_start_ping
  <2> HIDE DEF u
  <2>3. CASE ~socket_submit(u, ch)
    BY ZenonT(30), <2>1, <2>2, <2>3 DEF SameFds
  <2>4. CASE socket_submit(u, ch)
    <3>1. u \in State /\ Ping \in FrameSet /\ Ping.op # "call"
      BY <2>1, MineOnly DEF SameRest
    <3>2. t = Sent(u, ch, Ping)
      BY <2>2, <2>4
    <3>3. /\ SameRest(u, t) /\ Saves(u, t, ch, {Ping}) /\ SameFds(u, t)
          /\ t.call = u.call /\ t.sock = u.sock
          /\ \A f \in Fd : t.fd[f].net = IF Ping = Reopen(f) \/ Ping = Release(f) THEN ch ELSE u.fd[f].net
      BY <3>1, <3>2, SentOwn
    <3>4. \A f \in Fd : t.fd[f].net = s.fd[f].net
      BY <2>1, <3>3, MineOnly
    <3>5. SameRest(s, t)
      BY <2>1, <3>3 DEF SameRest
    <3>6. Saves(s, t, ch, {Ping})
      BY ZenonT(30), <2>1, <3>3 DEF Saves
    <3>7. SameFds(s, t)
      BY <2>1, <3>3 DEF SameFds
    <3> QED  BY ZenonT(30), <2>1, <2>4, <3>3, <3>4, <3>5, <3>6, <3>7 DEF socket_submit
  <2> QED  BY <2>3, <2>4
<1> QED  BY <1>3, <1>4, <1>5

\* What the client does on its own: frames of F are sent, and a connection that
\* is not there may be attempted.
Own(s, t, F) ==
  /\ SameRest(s, t)
  /\ t.call = s.call
  /\ \A x \in Channel :
       /\ \/ t.sock[x] = s.sock[x]
          \/ s.sock[x] = "none" /\ t.sock[x] = "connecting" /\ ~s.conn[x].connected
       /\ s.conn[x].saved \subseteq t.conn[x].saved
       /\ \A fr \in t.conn[x].saved : \/ fr \in s.conn[x].saved
                                      \/ fr \in F /\ s.sock[x] \in {"up", "dead"}

\* All descriptors but f are as they were.
FdsBut(s, t, f) == \A x \in Fd \ {f} : t.fd[x] = s.fd[x]

\* One such step after another is such a step.
LEMMA OwnTwice ==
  ASSUME NEW s, NEW t, NEW u, NEW F, Own(s, t, F), Own(t, u, F)
  PROVE  Own(s, u, F)
BY DEF Own, SameRest

\* A step that moves no frame.
LEMMA OwnNothing ==
  ASSUME NEW s \in State, NEW t, SameRest(s, t), t.call = s.call, t.sock = s.sock, t.conn = s.conn,
         NEW F
  PROVE  Own(s, t, F)
BY DEF Own, SameRest

\* Two records of a descriptor with the same fields are the same.
LEMMA FdExtensional ==
  ASSUME NEW a \in FdState, NEW b \in FdState, a.st = b.st, a.remote = b.remote,
         a.listed = b.listed, a.dir = b.dir, a.net = b.net
  PROVE  a = b
BY DEF FdState

\* protocol_client_xfer of a frame of the client's own.
LEMMA XferOwn ==
  ASSUME NEW s \in State, NEW ch \in Channel, NEW fr \in FrameSet, fr.op # "call",
         s.sock[ch] \in {"up", "dead"},
         NEW t, t = protocol_client_xfer(s, ch, fr)
  PROVE  /\ Own(s, t, {fr, Ping}) /\ SameFds(s, t) /\ t.sock = s.sock
         /\ \A f \in Fd : t.fd[f].net = IF fr = Reopen(f) \/ fr = Release(f) THEN ch ELSE s.fd[f].net
         /\ fr \in t.conn[ch].saved
PROOF
<1> DEFINE u == Sent(s, ch, fr)
<1>1. /\ SameRest(s, u) /\ Saves(s, u, ch, {fr}) /\ SameFds(s, u)
      /\ u.call = s.call /\ u.sock = s.sock
      /\ \A f \in Fd : u.fd[f].net = IF fr = Reopen(f) \/ fr = Release(f) THEN ch ELSE s.fd[f].net
  BY SentOwn
<1>2. t = IF u.conn[ch].started THEN u ELSE client_start_ping(u, ch)
  BY DEF protocol_client_xfer
<1> HIDE DEF u
<1>3. u \in State
  BY ZenonT(30), <1>1 DEF SameRest
<1>4. /\ SameRest(u, t) /\ t.call = u.call /\ t.sock = u.sock
      /\ SameFds(u, t) /\ \A f \in Fd : t.fd[f].net = u.fd[f].net
      /\ Saves(u, t, ch, {}) \/ Saves(u, t, ch, {Ping})
  <2>1. CASE u.conn[ch].started
    BY <1>2, <1>3, <2>1 DEF SameRest, SameFds, Saves
  <2>2. CASE ~u.conn[ch].started
    BY ZenonT(30), <1>2, <1>3, <2>2, StartPing
  <2> QED  BY ZenonT(30), <2>1, <2>2
<1>5. SameRest(s, t)
  BY <1>1, <1>4 DEF SameRest
<1>6. SameFds(s, t)
  BY <1>1, <1>4 DEF SameFds
<1>7. Saves(s, t, ch, {fr}) \/ Saves(s, t, ch, {fr, Ping})
  BY ZenonT(30), <1>1, <1>4 DEF Saves
<1>8. Own(s, t, {fr, Ping})
  BY ZenonT(30), <1>1, <1>4, <1>5, <1>7 DEF Own, Saves
<1> QED  BY ZenonT(30), <1>1, <1>4, <1>6, <1>7, <1>8 DEF Saves

\* A call is sent: its frame is saved, and perhaps a ping.
CallSent(s, t, ch, c) ==
  /\ SameRest(s, t) /\ t.sock = s.sock
  /\ SameFds(s, t) /\ \A f \in Fd : t.fd[f].net = s.fd[f].net
  /\ t.call[c].st = "saved" /\ t.call[c].net = "req" /\ t.call[c].ch = ch
  /\ t.call[c].kind = s.call[c].kind /\ t.call[c].fd = s.call[c].fd
  /\ t.call[c].h = s.call[c].h
  /\ \A d \in Call \ {c} : t.call[d] = s.call[d]
  /\ Saves(s, t, ch, {Mine(c)}) \/ Saves(s, t, ch, {Mine(c), Ping})

\* protocol_client_xfer of a call.
LEMMA XferCall ==
  ASSUME NEW s \in State, NEW ch \in Channel, NEW c \in Call, s.sock[ch] \in {"up", "dead"},
         NEW t, t = protocol_client_xfer(s, ch, Mine(c))
  PROVE  CallSent(s, t, ch, c)
PROOF
<1> DEFINE u == Sent(s, ch, Mine(c))
<1>1. /\ SameRest(s, u) /\ Saves(s, u, ch, {Mine(c)})
      /\ u.sock = s.sock /\ u.fd = s.fd
      /\ u.call[c].st = "saved" /\ u.call[c].net = "req" /\ u.call[c].ch = ch
      /\ u.call[c].kind = s.call[c].kind /\ u.call[c].fd = s.call[c].fd
      /\ u.call[c].h = s.call[c].h
      /\ \A d \in Call \ {c} : u.call[d] = s.call[d]
  BY SentCall
<1>2. t = IF u.conn[ch].started THEN u ELSE client_start_ping(u, ch)
  BY DEF protocol_client_xfer
<1> HIDE DEF u
<1>3. u \in State
  BY ZenonT(30), <1>1 DEF SameRest
<1>4. /\ SameRest(u, t) /\ t.call = u.call /\ t.sock = u.sock
      /\ SameFds(u, t) /\ \A f \in Fd : t.fd[f].net = u.fd[f].net
      /\ Saves(u, t, ch, {}) \/ Saves(u, t, ch, {Ping})
  <2>1. CASE u.conn[ch].started
    BY <1>2, <1>3, <2>1 DEF SameRest, SameFds, Saves
  <2>2. CASE ~u.conn[ch].started
    BY ZenonT(30), <1>2, <1>3, <2>2, StartPing
  <2> QED  BY <2>1, <2>2
<1>5. SameRest(s, t)
  BY <1>1, <1>4 DEF SameRest
<1>6. SameFds(s, t)
  BY <1>1, <1>4 DEF SameFds
<1>7. Saves(s, t, ch, {Mine(c)}) \/ Saves(s, t, ch, {Mine(c), Ping})
  <2>1. CASE Saves(u, t, ch, {})
    <3>1. Saves(s, t, ch, {Mine(c)})
      BY ZenonT(30), <1>1, <2>1 DEF Saves
    <3> QED  BY <3>1
  <2>2. CASE Saves(u, t, ch, {Ping})
    <3>1. Saves(s, t, ch, {Mine(c)} \cup {Ping})
      BY ZenonT(30), <1>1, <2>2 DEF Saves
    <3> QED  BY <3>1
  <2> QED  BY <1>4, <2>1, <2>2
<1> QED  BY <1>1, <1>4, <1>5, <1>6, <1>7 DEF CallSent

\* socket_connect, and the attempt after a frame could not be sent.
LEMMA ConnectStep ==
  ASSUME NEW s \in State, NEW ch \in Channel, NEW k \in BOOLEAN,
         NEW t, t = socket_connect(s, ch, k)
  PROVE  /\ SameRest(s, t)
         /\ t.call = s.call /\ t.fd = s.fd /\ t.conn = s.conn
         /\ \A x \in Channel : \/ t.sock[x] = s.sock[x]
                               \/ x = ch /\ s.sock[x] = "none" /\ t.sock[x] = "connecting"
PROOF
<1>1. /\ t \in State /\ t.call = s.call /\ t.fd = s.fd /\ t.conn = s.conn
      /\ t.started = s.started /\ t.view = s.view
      /\ t.session = s.session /\ t.half = s.half /\ t.missed = s.missed
  BY ZenonT(30) DEF socket_connect, State, Channel
<1>2. \A x \in Channel : \/ t.sock[x] = s.sock[x]
                         \/ x = ch /\ s.sock[x] = "none" /\ t.sock[x] = "connecting"
  BY ZenonT(30) DEF socket_connect, State
<1> QED  BY <1>1, <1>2 DEF SameRest

\* Fallback: no frame moves.
LEMMA FallbackStep ==
  ASSUME NEW s \in State, NEW ch \in Channel, NEW k \in BOOLEAN,
         NEW t, t = Fallback(s, ch, k), NEW F
  PROVE  Own(s, t, F) /\ t.fd = s.fd /\ t.conn = s.conn
PROOF
<1>1. CASE s.conn[ch].connected
  BY ZenonT(30), <1>1, OwnNothing DEF Fallback, SameRest
<1>2. CASE ~s.conn[ch].connected
  <2>1. t = socket_connect(s, ch, k)
    BY <1>2 DEF Fallback
  <2>2. /\ SameRest(s, t)
        /\ t.call = s.call /\ t.fd = s.fd /\ t.conn = s.conn
        /\ \A x \in Channel : \/ t.sock[x] = s.sock[x]
                              \/ x = ch /\ s.sock[x] = "none" /\ t.sock[x] = "connecting"
    BY <2>1, ConnectStep
  <2> QED  BY ZenonT(30), <1>2, <2>2 DEF Own
<1> QED  BY <1>1, <1>2

\* client_channel picks a channel.
LEMMA ChannelChosen ==
  ASSUME NEW s, NEW id \in Channel
  PROVE  client_channel(s, id) \in Channel
BY DEF client_channel, Channel

\* A record of a descriptor is replaced: no frame moves.
LEMMA OwnFd ==
  ASSUME NEW s \in State, NEW f \in Fd, NEW r \in FdState, NEW t, t = WithFd(s, f, r), NEW F
  PROVE  Own(s, t, F) /\ FdsBut(s, t, f) /\ t.fd[f] = r /\ t.session = s.session
PROOF
<1>1. /\ t \in State
      /\ t.call = s.call /\ t.conn = s.conn /\ t.sock = s.sock /\ t.started = s.started
      /\ t.view = s.view /\ t.session = s.session /\ t.half = s.half /\ t.missed = s.missed
      /\ t.fd[f] = r /\ \A x \in Fd \ {f} : t.fd[x] = s.fd[x]
  BY FdUpdate
<1>2. SameRest(s, t)
  BY ZenonT(30), <1>1 DEF SameRest
<1> QED  BY ZenonT(30), <1>1, <1>2, OwnNothing DEF FdsBut

\* The frames F of one descriptor: everything else of the others stays.
LEMMA XferFd ==
  ASSUME NEW s \in State, NEW ch \in Channel, NEW f \in Fd, NEW fr, fr \in {Reopen(f), Release(f)},
         s.sock[ch] \in {"up", "dead"},
         NEW t, t = protocol_client_xfer(s, ch, fr)
  PROVE  /\ Own(s, t, {fr, Ping}) /\ FdsBut(s, t, f)
         /\ t.fd[f].st = s.fd[f].st /\ t.fd[f].remote = s.fd[f].remote
         /\ t.fd[f].listed = s.fd[f].listed /\ t.fd[f].dir = s.fd[f].dir
         /\ t.fd[f].net = ch /\ fr \in t.conn[ch].saved /\ t.sock = s.sock
PROOF
<1>1. fr \in FrameSet /\ fr.op # "call" /\ \A x \in Fd : (fr = Reopen(x) \/ fr = Release(x)) <=> x = f
  BY MineOnly
<1>2. /\ Own(s, t, {fr, Ping}) /\ SameFds(s, t) /\ t.sock = s.sock
      /\ \A x \in Fd : t.fd[x].net = IF fr = Reopen(x) \/ fr = Release(x) THEN ch ELSE s.fd[x].net
      /\ fr \in t.conn[ch].saved
  BY <1>1, XferOwn
<1>3. \A x \in Fd : s.fd[x] \in FdState /\ t.fd[x] \in FdState
  BY <1>2, StateParts DEF Own, SameRest
<1>4. ASSUME NEW x \in Fd, x # f PROVE t.fd[x] = s.fd[x]
  <2>1. t.fd[x].net = s.fd[x].net
    BY <1>1, <1>2, <1>4
  <2> QED  BY ZenonT(30), <1>2, <1>3, <2>1, FdExtensional DEF SameFds
<1>5. FdsBut(s, t, f)
  BY ZenonT(30), <1>4 DEF FdsBut
<1> QED  BY ZenonT(30), <1>1, <1>2, <1>5 DEF SameFds

\* client_fdctx_destroy.
LEMMA DestroyStep ==
  ASSUME NEW s \in State, NEW f \in Fd, NEW k \in BOOLEAN,
         NEW t, t = client_fdctx_destroy(s, f, k)
  PROVE  /\ Own(s, t, {Release(f), Ping}) /\ FdsBut(s, t, f)
         /\ t.fd[f].st = "gone" /\ t.fd[f].remote = 0 /\ t.fd[f].listed = s.fd[f].listed
PROOF
<1> DEFINE r == [s.fd[f] EXCEPT !.st = "gone", !.remote = 0, !.dir = FALSE]
           u == [s EXCEPT !.fd[f] = [@ EXCEPT !.st = "gone", !.remote = 0, !.dir = FALSE]]
           ch == client_channel(u, "bulk")
<1>1. s.fd[f] \in FdState
  BY StateParts
<1>2. r \in FdState /\ r.st = "gone" /\ r.remote = 0 /\ r.listed = s.fd[f].listed
  BY ZenonT(30), <1>1 DEF FdState
<1>3. u = WithFd(s, f, r)
  BY DEF WithFd
<1>4. t = IF s.fd[f].remote = 0 THEN u
          ELSE IF Goes(u, ch, Release(f)) THEN protocol_client_xfer(u, ch, Release(f))
          ELSE Fallback(u, ch, k)
  BY ZenonT(30) DEF client_fdctx_destroy
<1> HIDE DEF r, u
<1>5. Own(s, u, {Release(f), Ping}) /\ FdsBut(s, u, f) /\ u.fd[f] = r
  BY <1>2, <1>3, OwnFd
<1>6. u \in State
  BY <1>5 DEF Own, SameRest
<1>7. ch \in Channel
  BY ZenonT(30), ChannelChosen DEF Channel
<1> HIDE DEF ch
<1>8. CASE s.fd[f].remote = 0
  BY ZenonT(30), <1>2, <1>4, <1>5, <1>8
<1>9. CASE s.fd[f].remote # 0 /\ Goes(u, ch, Release(f))
  <2>1. u.sock[ch] \in {"up", "dead"}
    BY ZenonT(30), <1>9 DEF Goes, socket_submit
  <2>2. t = protocol_client_xfer(u, ch, Release(f))
    BY ZenonT(30), <1>4, <1>9
  <2> DEFINE fr == Release(f)
  <2>3. fr \in {Reopen(f), Release(f)} /\ t = protocol_client_xfer(u, ch, fr)
    BY ZenonT(30), <2>2
  <2> HIDE DEF fr
  <2>4. /\ Own(u, t, {fr, Ping}) /\ FdsBut(u, t, f)
        /\ t.fd[f].st = u.fd[f].st /\ t.fd[f].remote = u.fd[f].remote
        /\ t.fd[f].listed = u.fd[f].listed
    BY <1>6, <1>7, <2>1, <2>3, XferFd
  <2>5. Own(u, t, {Release(f), Ping})
    BY ZenonT(30), <2>4 DEF fr
  <2> QED  BY ZenonT(30), <1>2, <1>5, <2>4, <2>5, OwnTwice DEF FdsBut
<1>10. CASE s.fd[f].remote # 0 /\ ~Goes(u, ch, Release(f))
  <2>1. t = Fallback(u, ch, k)
    BY ZenonT(30), <1>4, <1>10
  <2>2. Own(u, t, {Release(f), Ping}) /\ t.fd = u.fd
    BY <1>6, <1>7, <2>1, FallbackStep
  <2> QED  BY ZenonT(30), <1>2, <1>5, <2>2, OwnTwice DEF FdsBut
<1> QED  BY <1>8, <1>9, <1>10

\* The answer r to a reopen of f: the descriptor is in the list again, or was
\* released meanwhile and is gone.
ReopenAnswered(s, t, f, r) ==
  /\ Own(s, t, {Release(f), Ping}) /\ FdsBut(s, t, f)
  /\ s.fd[f].st = "open" =>
       /\ t.fd[f].st = "open" /\ t.fd[f].listed = TRUE /\ t.fd[f].net = s.fd[f].net
       /\ r = "ok" => t.fd[f].remote = s.session
       /\ r # "ok" => t.fd[f].remote = 0
  /\ s.fd[f].st # "open" =>
       /\ t.fd[f].st = "gone" /\ t.fd[f].remote = 0
       /\ t.fd[f].listed = s.fd[f].listed

\* protocol_client_reopen_cbk.
LEMMA ReopenCbkStep ==
  ASSUME NEW s \in State, NEW f \in Fd, NEW r \in Answer, NEW k \in BOOLEAN,
         NEW t, t = protocol_client_reopen_cbk(s, f, r, k)
  PROVE  ReopenAnswered(s, t, f, r)
PROOF
<1> DEFINE m == IF r = "ok" THEN s.session ELSE 0
           q == [s.fd[f] EXCEPT !.remote = m]
           u == [s EXCEPT !.fd[f].remote = m]
<1>1. s.fd[f] \in FdState /\ m \in Nat
  BY ZenonT(30), StateParts DEF State
<1>2. /\ q \in FdState /\ q.remote = m /\ q.st = s.fd[f].st /\ q.listed = s.fd[f].listed
      /\ q.net = s.fd[f].net
  BY <1>1 DEF FdState
<1>3. u = WithFd(s, f, q)
  BY DEF WithFd
<1>4. t = IF s.fd[f].st = "open" THEN [u EXCEPT !.fd[f].listed = TRUE]
          ELSE client_fdctx_destroy(u, f, k)
  BY DEF protocol_client_reopen_cbk
<1> HIDE DEF u, q
<1>5. Own(s, u, {Release(f), Ping}) /\ FdsBut(s, u, f) /\ u.fd[f] = q
  BY ZenonT(30), <1>2, <1>3, OwnFd
<1>6. u \in State
  BY ZenonT(30), <1>5 DEF Own, SameRest
<1>7. CASE s.fd[f].st = "open"
  <2> DEFINE p == [u.fd[f] EXCEPT !.listed = TRUE]
  <2>1. p \in FdState /\ p.listed = TRUE /\ p.st = q.st /\ p.remote = q.remote /\ p.net = q.net
    BY ZenonT(30), <1>2, <1>5 DEF FdState
  <2>2. t = WithFd(u, f, p)
    BY ZenonT(30), <1>4, <1>7 DEF WithFd
  <2> HIDE DEF p
  <2>3. Own(u, t, {Release(f), Ping}) /\ FdsBut(u, t, f) /\ t.fd[f] = p
    BY <1>6, <2>1, <2>2, OwnFd
  <2> QED  BY <1>2, <1>5, <1>7, <2>1, <2>3, OwnTwice DEF FdsBut, ReopenAnswered
<1>8. CASE s.fd[f].st # "open"
  <2>1. t = client_fdctx_destroy(u, f, k)
    BY ZenonT(30), <1>4, <1>8
  <2>2. /\ Own(u, t, {Release(f), Ping}) /\ FdsBut(u, t, f)
        /\ t.fd[f].st = "gone" /\ t.fd[f].remote = 0 /\ t.fd[f].listed = u.fd[f].listed
    BY <1>6, <2>1, DestroyStep
  <2> QED  BY <1>2, <1>5, <1>8, <2>2, OwnTwice DEF FdsBut, ReopenAnswered
<1> QED  BY <1>7, <1>8

\* A frame is saved with one connection only.
LEMMA XferElsewhere ==
  ASSUME NEW s \in State, NEW ch \in Channel, NEW fr \in FrameSet,
         NEW t, t = protocol_client_xfer(s, ch, fr)
  PROVE  \A x \in Channel \ {ch} : t.conn[x].saved = s.conn[x].saved
PROOF
<1> DEFINE u == Sent(s, ch, fr)
<1>1. SameRest(s, u) /\ Saves(s, u, ch, {fr})
  <2>1. CASE fr.op = "call"
    BY <2>1, SentCall, FrameKinds, MineOnly
  <2>2. CASE fr.op # "call"
    BY <2>2, SentOwn
  <2> QED  BY ZenonT(30), <2>1, <2>2
<1>2. t = IF u.conn[ch].started THEN u ELSE client_start_ping(u, ch)
  BY DEF protocol_client_xfer
<1> HIDE DEF u
<1>3. u \in State
  BY <1>1 DEF SameRest
<1>4. t = u \/ Saves(u, t, ch, {}) \/ Saves(u, t, ch, {Ping})
  BY ZenonT(30), <1>2, <1>3, StartPing
<1> QED  BY ZenonT(30), <1>1, <1>4 DEF Saves

\* protocol_client_reopen and protocol_client_reopendir.
LEMMA ReopenStep ==
  ASSUME NEW s \in State, NEW f \in Fd, NEW path \in BOOLEAN, NEW k \in BOOLEAN,
         NEW t, \/ t = protocol_client_reopen(s, f, path, k)
                \/ t = protocol_client_reopendir(s, f, path, k)
  PROVE  /\ Own(s, t, {Reopen(f), Release(f), Ping}) /\ FdsBut(s, t, f)
         /\ \/ /\ t.fd[f].st = s.fd[f].st /\ t.fd[f].remote = s.fd[f].remote
               /\ t.fd[f].listed = s.fd[f].listed
               /\ \/ t.fd[f].net = "lost" /\ t.conn = s.conn
                  \/ \E ch \in Channel : t.fd[f].net = ch /\ Reopen(f) \in t.conn[ch].saved
                                         /\ \A x \in Channel \ {ch} : t.conn[x].saved = s.conn[x].saved
            \/ /\ Own(s, t, {Release(f), Ping})
               /\ s.fd[f].st = "open" =>
                    /\ t.fd[f].st = "open" /\ t.fd[f].listed = TRUE /\ t.fd[f].remote = 0
                    /\ t.fd[f].net = s.fd[f].net
               /\ s.fd[f].st # "open" =>
                    /\ t.fd[f].st = "gone" /\ t.fd[f].remote = 0
                    /\ t.fd[f].listed = s.fd[f].listed
PROOF
<1> DEFINE ch == client_channel(s, "lowlat")
           u == Fallback(s, ch, k)
<1>1. t = IF ~path THEN [s EXCEPT !.fd[f].net = "lost"]
          ELSE IF Goes(s, ch, Reopen(f)) THEN protocol_client_xfer(s, ch, Reopen(f))
          ELSE protocol_client_reopen_cbk(u, f, "err", k)
  BY DEF protocol_client_reopen, protocol_client_reopendir, protocol_client_reopendir_cbk
<1>2. ch \in Channel
  BY ZenonT(30), ChannelChosen DEF Channel
<1> HIDE DEF ch
<1>3. CASE ~path
  <2> DEFINE r == [s.fd[f] EXCEPT !.net = "lost"]
  <2>1. s.fd[f] \in FdState
    BY StateParts
  <2>2. /\ r \in FdState /\ r.net = "lost" /\ r.st = s.fd[f].st /\ r.remote = s.fd[f].remote
        /\ r.listed = s.fd[f].listed
    BY ZenonT(30), <2>1 DEF FdState
  <2>3. t = WithFd(s, f, r)
    BY ZenonT(30), <1>1, <1>3 DEF WithFd
  <2> HIDE DEF r
  <2>4. t.conn = s.conn
    BY <2>2, <2>3, FdUpdate
  <2>5. Own(s, t, {Reopen(f), Release(f), Ping}) /\ FdsBut(s, t, f) /\ t.fd[f] = r
    BY <2>2, <2>3, OwnFd
  <2> QED  BY ZenonT(30), <2>2, <2>4, <2>5
<1>4. CASE path /\ Goes(s, ch, Reopen(f))
  <2>1. s.sock[ch] \in {"up", "dead"}
    BY <1>4 DEF Goes, socket_submit
  <2> DEFINE fr == Reopen(f)
  <2>2. fr \in {Reopen(f), Release(f)} /\ t = protocol_client_xfer(s, ch, fr)
    BY ZenonT(30), <1>1, <1>4
  <2> HIDE DEF fr
  <2>3. /\ Own(s, t, {fr, Ping}) /\ FdsBut(s, t, f)
        /\ t.fd[f].st = s.fd[f].st /\ t.fd[f].remote = s.fd[f].remote
        /\ t.fd[f].listed = s.fd[f].listed
        /\ t.fd[f].net = ch /\ fr \in t.conn[ch].saved
    BY <1>2, <2>1, <2>2, XferFd
  <2>4. Own(s, t, {Reopen(f), Release(f), Ping})
    BY ZenonT(30), <2>3 DEF fr, Own
  <2>5. \A x \in Channel \ {ch} : t.conn[x].saved = s.conn[x].saved
    BY <1>2, <2>1, <2>2, XferElsewhere, MineOnly DEF fr
  <2> QED  BY ZenonT(30), <1>2, <2>3, <2>4, <2>5 DEF fr
<1>5. CASE path /\ ~Goes(s, ch, Reopen(f))
  <2>1. Own(s, u, {Release(f), Ping}) /\ u.fd = s.fd
    BY <1>2, FallbackStep
  <2>2. t = protocol_client_reopen_cbk(u, f, "err", k)
    BY ZenonT(30), <1>1, <1>5
  <2> HIDE DEF u
  <2> DEFINE r == "err"
  <2>3. u \in State /\ r \in Answer /\ r # "ok"
        /\ t = protocol_client_reopen_cbk(u, f, r, k)
    BY ZenonT(30), <2>1, <2>2 DEF Own, SameRest, Answer
  <2> HIDE DEF r
  <2>4. ReopenAnswered(u, t, f, r)
    BY ZenonT(30), <2>3, ReopenCbkStep
  <2>b. /\ Own(u, t, {Release(f), Ping}) /\ FdsBut(u, t, f)
        /\ u.fd[f].st = "open" =>
             /\ t.fd[f].st = "open" /\ t.fd[f].listed = TRUE /\ t.fd[f].net = u.fd[f].net
             /\ t.fd[f].remote = 0
        /\ u.fd[f].st # "open" =>
             /\ t.fd[f].st = "gone" /\ t.fd[f].remote = 0
             /\ t.fd[f].listed = u.fd[f].listed
    BY ZenonT(30), <2>3, <2>4 DEF ReopenAnswered
  <2>5. Own(s, t, {Release(f), Ping})
    BY ZenonT(30), <2>1, <2>b, OwnTwice
  <2>6. Own(s, t, {Reopen(f), Release(f), Ping})
    BY ZenonT(30), <2>5 DEF Own
  <2>7. FdsBut(s, t, f)
    BY <2>1, <2>b DEF FdsBut
  <2> QED  BY ZenonT(30), <2>1, <2>b, <2>5, <2>6, <2>7
<1> QED  BY ZenonT(30), <1>3, <1>4, <1>5

\* StackUnwind: the caller has its answer.
LEMMA UnwindStep ==
  ASSUME NEW s \in State, NEW c \in Call, NEW r \in Answer,
         NEW t, t = StackUnwind(s, c, r)
  PROVE  /\ t \in State /\ SameRest(s, t)
         /\ t.fd = s.fd /\ t.conn = s.conn /\ t.sock = s.sock
         /\ t.call[c].st = (IF r = "ok" THEN "served" ELSE "failed")
         /\ t.call[c].kind = "plain" /\ t.call[c].net = s.call[c].net /\ t.call[c].ch = s.call[c].ch
         /\ \A d \in Call \ {c} : t.call[d] = s.call[d]
PROOF
<1> DEFINE q == [s.call[c] EXCEPT !.st = IF r = "ok" THEN "served" ELSE "failed",
                                  !.kind = "plain", !.fd = "none", !.h = 0]
<1>1. s.call[c] \in CallState
  BY StateParts
<1>2. /\ q \in CallState /\ q.st = (IF r = "ok" THEN "served" ELSE "failed")
      /\ q.kind = "plain" /\ q.net = s.call[c].net /\ q.ch = s.call[c].ch
  BY ZenonT(30), <1>1 DEF CallState
<1>3. t = WithCall(s, c, q)
  BY DEF StackUnwind, WithCall
<1> HIDE DEF q
<1>4. /\ t \in State
      /\ t.fd = s.fd /\ t.conn = s.conn /\ t.sock = s.sock /\ t.started = s.started
      /\ t.view = s.view /\ t.session = s.session /\ t.half = s.half
      /\ t.missed = s.missed
      /\ t.call[c] = q /\ \A x \in Call \ {c} : t.call[x] = s.call[x]
  BY <1>2, <1>3, CallUpdate
<1> QED  BY <1>2, <1>4 DEF SameRest

\* Failed: a frame that is not a call's.
LEMMA FailedOwn ==
  ASSUME NEW s \in State, NEW ch \in Channel, NEW fr \in FrameSet, fr.op # "call",
         NEW k \in BOOLEAN, NEW t, t = Failed(s, ch, fr, k)
  PROVE  \/ t = s /\ fr.op # "reopen"
         \/ \E f \in Fd :
              /\ fr = Reopen(f)
              /\ Own(s, t, {Release(f), Ping}) /\ FdsBut(s, t, f)
              /\ s.fd[f].st = "open" =>
                   /\ t.fd[f].st = "open" /\ t.fd[f].listed = TRUE /\ t.fd[f].net = s.fd[f].net
                   /\ t.fd[f].remote = 0
              /\ s.fd[f].st # "open" =>
                   /\ t.fd[f].st = "gone" /\ t.fd[f].remote = 0
                   /\ t.fd[f].listed = s.fd[f].listed
PROOF
<1>1. CASE fr = Setvolume \/ fr = Ping \/ fr.op = "release"
  BY ZenonT(30), <1>1, MineOnly DEF Failed, client_setvolume_cbk, client_ping_cbk
<1>2. CASE fr.op = "reopen" /\ fr.of \in Fd /\ fr = Reopen(fr.of)
  <2> DEFINE f == fr.of
             r == "err"
  <2>1. r \in Answer /\ r # "ok" /\ t = protocol_client_reopen_cbk(s, f, r, k)
    BY <1>2 DEF Failed, protocol_client_reopendir_cbk, Answer
  <2>2. f \in Fd /\ fr = Reopen(f)
    BY ZenonT(30), <1>2
  <2> HIDE DEF r, f
  <2>3. ReopenAnswered(s, t, f, r)
    BY ZenonT(30), <2>1, <2>2, ReopenCbkStep
  <2> QED  BY ZenonT(30), <2>1, <2>2, <2>3 DEF ReopenAnswered
<1> QED  BY ZenonT(30), <1>1, <1>2, FrameKinds, MineOnly

\* What a connection can end as.
Ended == {"none", "dead", "shut"}

\* socket_disconnect, LinkBreaks: the socket of ch ends as how.
LEMMA HangupStep ==
  ASSUME NEW s \in State, NEW ch \in Channel, NEW how \in Ended,
         NEW t, t = Hangup(s, ch, how)
  PROVE  /\ t \in State
         /\ t.call = s.call /\ t.fd = s.fd /\ t.conn = s.conn
         /\ t.started = s.started /\ t.quiet = s.quiet /\ t.view = s.view
         /\ t.half = s.half /\ t.missed = s.missed
         /\ t.sock[ch] = how /\ \A x \in Channel \ {ch} : t.sock[x] = s.sock[x]
         /\ \/ t.session = s.session
            \/ t.session = s.session + 1 /\ \A x \in Channel : t.sock[x] # "up"
PROOF
<1> DEFINE u == [s EXCEPT !.sock[ch] = how]
<1>1. /\ u \in State
      /\ u.call = s.call /\ u.fd = s.fd /\ u.conn = s.conn /\ u.started = s.started
      /\ u.quiet = s.quiet /\ u.view = s.view /\ u.half = s.half /\ u.missed = s.missed
      /\ u.session = s.session
      /\ u.sock[ch] = how /\ \A x \in Channel \ {ch} : u.sock[x] = s.sock[x]
  <2>1. u.sock = [s.sock EXCEPT ![ch] = how]
    BY ZenonT(30) DEF State
  <2>2. u.sock \in [Channel -> {"none", "connecting", "up", "dead", "shut"}]
    BY ZenonT(30), <2>1 DEF State, Ended
  <2>3. u \in State
    BY ZenonT(30), <2>2 DEF State
  <2> QED  BY ZenonT(30), <2>1, <2>3 DEF State
<1>2. t = IF s.sock[ch] = "up" /\ \A x \in Channel : u.sock[x] # "up"
          THEN [u EXCEPT !.session = @ + 1] ELSE u
  BY ZenonT(30) DEF Hangup
<1> HIDE DEF u
<1>3. CASE s.sock[ch] = "up" /\ \A x \in Channel : u.sock[x] # "up"
  <2>1. t = [u EXCEPT !.session = @ + 1]
    BY <1>2, <1>3
  <2>a. u.session \in Nat \ {0}
    BY ZenonT(30), <1>1 DEF State
  <2>2. u.session + 1 \in Nat \ {0}
    BY <2>a
  <2>3. t \in State
    BY ZenonT(30), <1>1, <2>1, <2>2 DEF State
  <2>4. /\ t.call = u.call /\ t.fd = u.fd /\ t.conn = u.conn /\ t.started = u.started
        /\ t.quiet = u.quiet /\ t.view = u.view /\ t.half = u.half /\ t.missed = u.missed
        /\ t.sock = u.sock /\ t.session = u.session + 1
    BY ZenonT(30), <1>1, <2>1 DEF State
  <2> QED  BY <1>1, <1>3, <2>3, <2>4
<1>4. CASE ~(s.sock[ch] = "up" /\ \A x \in Channel : u.sock[x] # "up")
  BY ZenonT(30), <1>1, <1>2, <1>4
<1> QED  BY <1>3, <1>4

\* LoseMessages: what was under way on ch is lost.
LEMMA LoseStep ==
  ASSUME NEW s \in State, NEW ch \in Channel, NEW t, t = LoseMessages(s, ch)
  PROVE  /\ t \in State
         /\ t.sock = s.sock /\ t.started = s.started /\ t.view = s.view
         /\ t.session = s.session /\ t.half = s.half /\ t.missed = s.missed
         /\ \A x \in Channel : /\ t.conn[x].saved = s.conn[x].saved
                               /\ t.conn[x].connected = s.conn[x].connected
                               /\ t.conn[x].reconnect = s.conn[x].reconnect
         /\ \A c \in Call : /\ t.call[c].st = s.call[c].st /\ t.call[c].kind = s.call[c].kind
                            /\ t.call[c].fd = s.call[c].fd /\ t.call[c].ch = s.call[c].ch
                            /\ t.call[c].h = s.call[c].h
                            /\ t.call[c].net = IF s.call[c].ch # ch THEN s.call[c].net
                                               ELSE IF s.call[c].net = "req" THEN "late"
                                               ELSE IF s.call[c].net = "rsp" THEN "over"
                                               ELSE s.call[c].net
         /\ \A f \in Fd : /\ t.fd[f].st = s.fd[f].st /\ t.fd[f].remote = s.fd[f].remote
                          /\ t.fd[f].listed = s.fd[f].listed /\ t.fd[f].dir = s.fd[f].dir
                          /\ t.fd[f].net = IF s.fd[f].net = ch THEN "none" ELSE s.fd[f].net
PROOF
<1> DEFINE calls == [c \in Call |->
              IF s.call[c].ch # ch THEN s.call[c]
              ELSE [s.call[c] EXCEPT !.net = CASE @ = "req" -> "late" [] @ = "rsp" -> "over"
                                               [] OTHER -> @]]
           fds == [f \in Fd |-> IF s.fd[f].net = ch THEN [s.fd[f] EXCEPT !.net = "none"] ELSE s.fd[f]]
           r == [s.conn[ch] EXCEPT !.hs = FALSE, !.ping = FALSE]
<1>1. \A c \in Call : /\ calls[c] \in CallState
                      /\ calls[c].st = s.call[c].st /\ calls[c].kind = s.call[c].kind
                      /\ calls[c].fd = s.call[c].fd /\ calls[c].ch = s.call[c].ch
                      /\ calls[c].h = s.call[c].h
                      /\ calls[c].net = IF s.call[c].ch # ch THEN s.call[c].net
                                        ELSE IF s.call[c].net = "req" THEN "late"
                                        ELSE IF s.call[c].net = "rsp" THEN "over"
                                        ELSE s.call[c].net
  BY StateParts DEF CallState
<1>2. \A f \in Fd : /\ fds[f] \in FdState
                    /\ fds[f].st = s.fd[f].st /\ fds[f].remote = s.fd[f].remote
                    /\ fds[f].listed = s.fd[f].listed /\ fds[f].dir = s.fd[f].dir
                    /\ fds[f].net = IF s.fd[f].net = ch THEN "none" ELSE s.fd[f].net
  BY StateParts DEF FdState
<1>3. /\ r \in ConnState /\ r.saved = s.conn[ch].saved /\ r.connected = s.conn[ch].connected
      /\ r.reconnect = s.conn[ch].reconnect
  BY ZenonT(30), StateParts DEF ConnState
<1>4. t = [s EXCEPT !.call = calls, !.fd = fds, !.conn = [s.conn EXCEPT ![ch] = r]]
  BY ZenonT(30) DEF LoseMessages, State
<1>5. calls \in [Call -> CallState] /\ fds \in [Fd -> FdState]
  BY <1>1, <1>2
<1> HIDE DEF calls, fds, r
<1>6. s.conn \in [Channel -> ConnState]
  BY ZenonT(30) DEF State
<1>7. [s.conn EXCEPT ![ch] = r] \in [Channel -> ConnState]
  BY <1>3, <1>6
<1>8. /\ t \in State /\ t.call = calls /\ t.fd = fds /\ t.conn = [s.conn EXCEPT ![ch] = r]
      /\ t.sock = s.sock /\ t.started = s.started /\ t.view = s.view
      /\ t.session = s.session /\ t.half = s.half /\ t.missed = s.missed
  BY ZenonT(30), <1>4, <1>5, <1>7 DEF State
<1>9. \A x \in Channel : /\ t.conn[x].saved = s.conn[x].saved
                         /\ t.conn[x].connected = s.conn[x].connected
                         /\ t.conn[x].reconnect = s.conn[x].reconnect
  BY <1>3, <1>6, <1>8
<1> QED  BY <1>1, <1>2, <1>8, <1>9

\* A call is told of its reply, and a reply to an open makes a descriptor.
CallReplied(s, t, c, r) ==
  /\ SameRest(s, t) /\ t.conn = s.conn /\ t.sock = s.sock
  /\ t.call[c].st \in {"served", "failed"} /\ (t.call[c].st = "served" => r = "ok")
  /\ t.call[c].kind = "plain" /\ t.call[c].net = s.call[c].net /\ t.call[c].ch = s.call[c].ch
  /\ \A d \in Call \ {c} : t.call[d] = s.call[d]
  /\ \/ t.fd = s.fd
     \/ \E f \in Fd :
          /\ s.call[c].fd = f /\ s.call[c].kind \in {"open", "opendir"} /\ FdsBut(s, t, f)
          /\ t.fd[f].st = "open" /\ t.fd[f].remote = s.call[c].h /\ t.fd[f].listed = TRUE
          /\ t.fd[f].net = s.fd[f].net

\* STACK_UNWIND of a reply or of an error.
LEMMA UnwindReplied ==
  ASSUME NEW s \in State, NEW c \in Call, NEW r \in Answer, NEW a \in Answer, a = "ok" => r = "ok",
         NEW t, t = StackUnwind(s, c, a)
  PROVE  CallReplied(s, t, c, r)
PROOF
<1>1. /\ t \in State /\ SameRest(s, t)
      /\ t.fd = s.fd /\ t.conn = s.conn /\ t.sock = s.sock
      /\ t.call[c].st = (IF a = "ok" THEN "served" ELSE "failed")
      /\ t.call[c].kind = "plain" /\ t.call[c].net = s.call[c].net /\ t.call[c].ch = s.call[c].ch
      /\ \A d \in Call \ {c} : t.call[d] = s.call[d]
  BY UnwindStep
<1> QED  BY ZenonT(30), <1>1 DEF CallReplied

\* A descriptor opened on the server.
LEMMA OpenedReplied ==
  ASSUME NEW s \in State, NEW c \in Call, NEW r \in Answer, NEW dir \in BOOLEAN,
         s.call[c].kind \in {"open", "opendir"}, s.call[c].fd \in Fd,
         NEW t \in Opened(s, c, r, dir)
  PROVE  CallReplied(s, t, c, r)
PROOF
<1> DEFINE e == "err"
<1>1. e \in Answer /\ (e = "ok" => r = "ok")
  BY DEF Answer
<1> DEFINE f == s.call[c].fd
           q == [s.fd[f] EXCEPT !.st = "open", !.remote = s.call[c].h, !.listed = TRUE, !.dir = dir]
           u == WithFd(s, f, q)
<1>2. f \in Fd /\ s.call[c] \in CallState /\ s.fd[f] \in FdState
  BY ZenonT(30), StateParts
<1>3. t = StackUnwind(s, c, r) \/ t = StackUnwind(s, c, e) \/ (r = "ok" /\ t = StackUnwind(u, c, r))
  BY ZenonT(30) DEF Opened, WithFd
<1>4. CASE t = StackUnwind(s, c, r)
  BY ZenonT(30), <1>4, UnwindReplied
<1>5. CASE t = StackUnwind(s, c, e)
  <2> HIDE DEF e
  <2> QED  BY ZenonT(30), <1>1, <1>5, UnwindReplied
<1>6. CASE t = StackUnwind(u, c, r)
  <2>1. /\ q \in FdState /\ q.st = "open" /\ q.remote = s.call[c].h /\ q.listed = TRUE
        /\ q.net = s.fd[f].net
    BY ZenonT(30), <1>2 DEF FdState, CallState
  <2> HIDE DEF q, f
  <2>2. Own(s, u, {}) /\ FdsBut(s, u, f) /\ u.fd[f] = q /\ u.session = s.session
    BY <1>2, <2>1, OwnFd
  <2>2a. /\ u \in State
         /\ u.call = s.call /\ u.conn = s.conn /\ u.sock = s.sock /\ u.started = s.started
         /\ u.quiet = s.quiet /\ u.view = s.view /\ u.session = s.session /\ u.half = s.half
         /\ u.missed = s.missed
         /\ u.fd[f] = q /\ \A x \in Fd \ {f} : u.fd[x] = s.fd[x]
    BY <1>2, <2>1, FdUpdate
  <2> HIDE DEF u
  <2>3. /\ t \in State /\ SameRest(u, t)
        /\ t.fd = u.fd /\ t.conn = u.conn /\ t.sock = u.sock
        /\ t.call[c].st = (IF r = "ok" THEN "served" ELSE "failed")
        /\ t.call[c].kind = "plain" /\ t.call[c].net = u.call[c].net /\ t.call[c].ch = u.call[c].ch
        /\ \A d \in Call \ {c} : t.call[d] = u.call[d]
    BY <1>6, <2>2a, UnwindStep
  <2>4. SameRest(s, t)
    BY ZenonT(30), <2>2, <2>2a, <2>3 DEF SameRest, Own
  <2>5. FdsBut(s, t, f)
    BY ZenonT(30), <2>2, <2>3 DEF FdsBut
  <2>6. s.call[c].fd = f
    BY ZenonT(30) DEF f
  <2>7. /\ t.conn = s.conn /\ t.sock = s.sock
        /\ t.call[c].st \in {"served", "failed"} /\ (t.call[c].st = "served" => r = "ok")
        /\ t.call[c].kind = "plain" /\ t.call[c].net = s.call[c].net /\ t.call[c].ch = s.call[c].ch
        /\ \A d \in Call \ {c} : t.call[d] = s.call[d]
    BY ZenonT(30), <2>2a, <2>3
  <2>8. t.fd[f].st = "open" /\ t.fd[f].remote = s.call[c].h /\ t.fd[f].listed = TRUE
        /\ t.fd[f].net = s.fd[f].net
    BY ZenonT(30), <2>1, <2>2a, <2>3
  <2> QED  BY ZenonT(30), <1>2, <2>4, <2>5, <2>6, <2>7, <2>8 DEF CallReplied
<1> QED  BY <1>3, <1>4, <1>5, <1>6

\* The tables gf_fops and gf_mops.
LEMMA GfFops ==
  ASSUME NEW s \in State, NEW c \in Call, NEW r \in Answer,
         s.call[c].kind \in {"open", "opendir"} => s.call[c].fd \in Fd,
         NEW t \in gf_fops(s, c, r)
  PROVE  CallReplied(s, t, c, r)
PROOF
<1> DEFINE e == "err"
<1>1. e \in Answer /\ (e = "ok" => r = "ok")
  BY DEF Answer
<1>2. s.call[c] \in CallState
  BY ZenonT(30), StateParts
<1>3. CASE s.call[c].kind \in {"plain", "decode"}
  <2>1. t = StackUnwind(s, c, r) \/ t = StackUnwind(s, c, e)
    BY ZenonT(30), <1>3 DEF gf_fops, Decoded,
      client_stat_cbk, client_mknod_symlink_link_cbk, client_truncate_fstat_readv_cbk,
      client_write_readdir_unlink_cbk, client_rename_readlink_mkdir_flush_cbk,
      client_rmdir_access_cbk, client_setattr_fsetattr_cbk, client_statfs_fsyncdir_setxattr_cbk,
      client_removexattr_lk_inodelk_entrylk_cbk, client_setdents_stats_cbk,
      client_getspec_log_cbk, client_checksum_rchecksum_cbk, client_lookup_cbk,
      client_getxattr_cbk, client_fxattrop_xattrop_cbk, client_getdents_cbk
  <2> HIDE DEF e
  <2> QED  BY <1>1, <2>1, UnwindReplied
<1>4. CASE s.call[c].kind \in {"open", "opendir"}
  <2>1. PICK dir \in BOOLEAN : t \in Opened(s, c, r, dir)
    BY ZenonT(30), <1>4 DEF gf_fops, client_create_open_cbk, client_opendir_cbk
  <2> QED  BY <1>4, <2>1, OpenedReplied
<1> QED  BY <1>2, <1>3, <1>4 DEF CallState

=============================================================================
