---------------------------- MODULE ClientProofs ----------------------------
(***************************************************************************)
(* protocol/client implements RemoteCall, for any calls and descriptors:   *)
(* its types, the frames that wait for a reply and the steps of a call.    *)
(***************************************************************************)
EXTENDS ClientSteps

\* The timers of one connection, and POLLOUT.
LEMMA TimersFit ==
  ASSUME TypeOK, NoOrphanFrame, NEW ch \in Channel,
         ReconnectTimer(ch) \/ PingTimer(ch) \/ protocol_client_pollout(ch)
  PROVE  Fits
PROOF
<1>1. cl \in State /\ ev \in EvThread /\ tm \in TmThread /\ connects \in Nat
  BY Types
<1>2. ev' = ev /\ tm' = tm /\ connects' = connects
  BY DEF ReconnectTimer, PingTimer, protocol_client_pollout, TmIdle, EvIdle
<1>3. CASE ReconnectTimer(ch)
  <2>1. PICK k \in BOOLEAN : cl' = client_protocol_reconnect(cl, ch, k)
    BY <1>3 DEF ReconnectTimer, TmIdle
  <2>2. Aside(cl, cl')
    BY ZenonT(30), <1>1, <2>1, ReconnectStep
  <2> QED  BY ZenonT(30), <1>1, <1>2, <2>2, AsideFits
<1>4. CASE PingTimer(ch)
  <2>1. cl' = client_start_ping(cl, ch)
    BY <1>4 DEF PingTimer, TmIdle
  <2>2. /\ SameRest(cl, cl') /\ cl'.call = cl.call /\ cl'.sock = cl.sock
        /\ \/ Saves(cl, cl', ch, {})
           \/ Saves(cl, cl', ch, {Ping}) /\ cl.sock[ch] \in {"up", "dead"}
    BY ZenonT(30), <1>1, <2>1, StartPing
  <2>3. Own(cl, cl', {Ping})
    BY ZenonT(30), <2>2 DEF Own, Saves
  <2>4. {Ping} \subseteq OwnFrames
    BY DEF OwnFrames
  <2> QED  BY <1>2, <2>3, <2>4, OwnFits
<1>5. CASE protocol_client_pollout(ch)
  <2> DEFINE b == FALSE
  <2>1. b \in BOOLEAN /\ cl' = [cl EXCEPT !.quiet = b]
    BY <1>5 DEF protocol_client_pollout, EvIdle
  <2> HIDE DEF b
  <2>2. SameRest(cl, cl') /\ cl'.call = cl.call /\ cl'.sock = cl.sock /\ cl'.conn = cl.conn
    BY ZenonT(30), <1>1, <2>1, QuietUpdate
  <2>3. Aside(cl, cl')
    BY ZenonT(30), <2>2, SameFrames DEF SameRest
  <2> QED  BY ZenonT(30), <1>1, <1>2, <2>3, AsideFits
<1> QED  BY ZenonT(30), <1>3, <1>4, <1>5

\* The ping timer expires.
LEMMA ExpiredFits ==
  ASSUME TypeOK, NoOrphanFrame, NEW ch \in Channel, client_ping_timer_expired(ch)
  PROVE  Fits
PROOF
<1> DEFINE q == [cl.conn[ch] EXCEPT !.ptimer = "none", !.started = FALSE]
<1>1. cl \in State /\ ev \in EvThread /\ tm \in TmThread /\ connects \in Nat
  BY Types
<1>2. /\ ev' = ev /\ tm = Idle /\ tm' = At("disconnect", "bulk") /\ connects' = connects
      /\ cl' = WithConn(cl, ch, q)
  BY DEF client_ping_timer_expired, TmIdle, WithConn
<1>3. q \in ConnState /\ q.saved = cl.conn[ch].saved
  BY ZenonT(30), <1>1, StateParts DEF ConnState
<1> HIDE DEF q
<1>4. Aside(cl, cl')
  BY <1>1, <1>2, <1>3, ConnAside
<1>5. tm' \in TmThread /\ tm.frames = {} /\ tm'.frames = {}
  BY <1>2 DEF TmThread, Idle, At, Thread, Channel
<1> QED  BY ZenonT(30), <1>1, <1>2, <1>4, <1>5, AsideFits

\* Time passes.
LEMMA TimePassesFits ==
  ASSUME TypeOK, NoOrphanFrame, TimePasses
  PROVE  Fits
PROOF
<1>1. cl \in State /\ ev \in EvThread /\ tm \in TmThread /\ connects \in Nat
  BY Types
<1> DEFINE b == TRUE
<1>2. b \in BOOLEAN /\ cl' = [cl EXCEPT !.quiet = b] /\ ev' = ev /\ tm' = tm /\ connects' = connects
  BY DEF TimePasses, Rest
<1> HIDE DEF b
<1>3. SameRest(cl, cl') /\ cl'.call = cl.call /\ cl'.sock = cl.sock /\ cl'.conn = cl.conn
  BY ZenonT(30), <1>1, <1>2, QuietUpdate
<1>4. Aside(cl, cl')
  BY ZenonT(30), <1>3, SameFrames DEF SameRest
<1> QED  BY ZenonT(30), <1>1, <1>2, <1>4, AsideFits

\* Sockets change, and whatever is saved still has one.
LEMMA SocketFits ==
  ASSUME TypeOK, NoOrphanFrame, cl' \in State, cl'.call = cl.call,
         \A x \in Channel : cl'.conn[x].saved = cl.conn[x].saved,
         \A x \in Channel : \/ cl'.sock[x] = cl.sock[x]
                            \/ cl'.sock[x] \in {"up", "dead", "shut"},
         ev' = ev, \A d \in Call : Mine(d) \in tm'.frames <=> Mine(d) \in tm.frames,
         tm' \in TmThread, connects' \in Nat
  PROVE  Fits
PROOF
<1>1. ASSUME NEW d \in Call PROVE Still(d)
  <2>1. Spot(d)' = Spot(d)
    BY ZenonT(30), SpotKept
  <2> QED  BY ZenonT(30), <2>1 DEF Still
<1>2. NoOrphanFrame'
  BY ZenonT(30) DEF NoOrphanFrame
<1>3. ev' \in EvThread
  BY Types
<1> QED  BY ZenonT(30), <1>1, <1>2, <1>3 DEF Fits, Typed, OneCall

\* A link breaks.
LEMMA BreaksFits ==
  ASSUME TypeOK, NoOrphanFrame, NEW ch \in Channel, LinkBreaks(ch)
  PROVE  Fits
PROOF
<1> DEFINE how == "dead"
<1>1. cl \in State /\ tm \in TmThread /\ connects \in Nat
  BY Types
<1>2. how \in Ended /\ cl' = Hangup(cl, ch, how)
  BY DEF LinkBreaks, Ended
<1>3. ev' = ev /\ tm' = tm /\ connects' = connects /\ how \in {"up", "dead", "shut"}
  BY ZenonT(30) DEF LinkBreaks, Rest
<1> HIDE DEF how
<1>4. /\ cl' \in State /\ cl'.call = cl.call /\ cl'.conn = cl.conn
      /\ cl'.sock[ch] = how /\ \A x \in Channel \ {ch} : cl'.sock[x] = cl.sock[x]
  BY <1>1, <1>2, HangupStep
<1> QED  BY ZenonT(30), <1>1, <1>3, <1>4, SocketFits

\* Sockets are shut down, and nothing else is done.
ShutDown(s, t) ==
  /\ t \in State
  /\ t.call = s.call /\ t.fd = s.fd /\ t.conn = s.conn
  /\ t.started = s.started /\ t.view = s.view /\ t.half = s.half /\ t.missed = s.missed
  /\ \A x \in Channel : t.sock[x] = s.sock[x] \/ t.sock[x] = "shut"

\* socket_disconnect.
LEMMA DisconnectStep ==
  ASSUME NEW s \in State, NEW ch \in Channel
  PROVE  ShutDown(s, socket_disconnect(s, ch))
PROOF
<1> DEFINE t == socket_disconnect(s, ch)
<1>1. CASE s.sock[ch] = "none"
  BY ZenonT(30), <1>1 DEF socket_disconnect, ShutDown
<1>2. CASE s.sock[ch] # "none"
  <2> DEFINE how == "shut"
  <2>1. how \in Ended /\ t = Hangup(s, ch, how) /\ how = "shut"
    BY ZenonT(30), <1>2 DEF socket_disconnect, Ended
  <2> HIDE DEF how
  <2>2. /\ t \in State
        /\ t.call = s.call /\ t.fd = s.fd /\ t.conn = s.conn
        /\ t.started = s.started /\ t.view = s.view /\ t.half = s.half /\ t.missed = s.missed
        /\ t.sock[ch] = how /\ \A x \in Channel \ {ch} : t.sock[x] = s.sock[x]
    BY <2>1, HangupStep
  <2> QED  BY ZenonT(30), <2>1, <2>2 DEF ShutDown
<1> QED  BY ZenonT(30), <1>1, <1>2

\* Both sockets are shut down.
LEMMA DisconnectFits ==
  ASSUME TypeOK, ThreadInv, NoOrphanFrame, Disconnect
  PROVE  Fits
PROOF
<1> DEFINE b == "bulk"
           l == "lowlat"
           u == socket_disconnect(cl, b)
<1>1. cl \in State /\ tm \in TmThread /\ connects \in Nat
  BY Types
<1>2. /\ b \in Channel /\ l \in Channel /\ cl' = socket_disconnect(u, l)
      /\ ev' = ev /\ tm.at = "disconnect" /\ tm' = Idle /\ connects' = connects
  BY DEF Disconnect, Channel
<1> HIDE DEF b, l
<1>3. ShutDown(cl, u)
  BY ZenonT(30), <1>1, <1>2, DisconnectStep
<1> HIDE DEF u
<1>4. ShutDown(u, cl')
  BY ZenonT(30), <1>2, <1>3, DisconnectStep DEF ShutDown
<1>5. tm' \in TmThread /\ tm.frames = {} /\ tm'.frames = {}
  BY <1>2 DEF ThreadInv, TmThread, Idle, At, Thread, Channel
<1>6. \A x \in Channel : cl'.sock[x] = cl.sock[x] \/ cl'.sock[x] \in {"up", "dead", "shut"}
  BY <1>3, <1>4 DEF ShutDown
<1>7. cl' \in State /\ cl'.call = cl.call /\ cl'.conn = cl.conn
  BY ZenonT(30), <1>3, <1>4 DEF ShutDown
<1> QED  BY ZenonT(30), <1>1, <1>2, <1>5, <1>6, <1>7, SocketFits

\* No call moves, and what is saved has a socket.
LEMMA FramesFit ==
  ASSUME TypeOK, Typed, cl'.call = cl.call,
         \A d \in Call, x \in Channel :
           Mine(d) \in cl'.conn[x].saved <=> Mine(d) \in cl.conn[x].saved,
         \A d \in Call : /\ Mine(d) \in ev'.frames <=> Mine(d) \in ev.frames
                         /\ Mine(d) \in tm'.frames <=> Mine(d) \in tm.frames,
         \A x \in Channel : cl'.conn[x].saved # {} =>
           cl'.sock[x] \in {"up", "dead", "shut"} \/ ev' = At("cleanup", x)
  PROVE  Fits
PROOF
<1>1. ASSUME NEW d \in Call PROVE Still(d)
  <2>1. Spot(d)' = Spot(d)
    BY ZenonT(30), SpotKept
  <2> QED  BY ZenonT(30), <2>1 DEF Still
<1>2. NoOrphanFrame'
  BY DEF NoOrphanFrame
<1> QED  BY ZenonT(30), <1>1, <1>2 DEF Fits, OneCall

\* A connection is there, or could not be made.
LEMMA ConnectFits ==
  ASSUME TypeOK, NoOrphanFrame, NEW ch \in Channel, socket_connect_finish(ch)
  PROVE  Fits
PROOF
<1>1. cl \in State /\ ev \in EvThread /\ tm \in TmThread /\ connects \in Nat
  BY Types
<1>2. ev = Idle /\ ev' = ev /\ tm' = tm
  BY DEF socket_connect_finish, EvIdle
<1>3. \A x \in Channel : ev # At("cleanup", x)
  BY <1>2 DEF Idle, At, Thread
<1> DEFINE h == cl.half \/ \E x \in Channel : cl.conn[x].connected /\ cl.sock[x] # "up"
           u == [cl EXCEPT !.sock[ch] = "up", !.half = h]
<1>4. cl.sock \in [Channel -> {"none", "connecting", "up", "dead", "shut"}] /\ cl.half \in BOOLEAN
  BY ZenonT(30), <1>1 DEF State
<1>5. CASE cl' = [cl EXCEPT !.sock[ch] = "shut"] /\ connects' = connects
  <2> DEFINE q == [cl.sock EXCEPT ![ch] = "shut"]
  <2>1. /\ q \in [Channel -> {"none", "connecting", "up", "dead", "shut"}]
        /\ q[ch] = "shut" /\ \A x \in Channel \ {ch} : q[x] = cl.sock[x]
        /\ cl' = [cl EXCEPT !.sock = q]
    BY ZenonT(30), <1>4, <1>5
  <2> HIDE DEF q
  <2>2. cl' \in State /\ cl'.call = cl.call /\ cl'.conn = cl.conn /\ cl'.sock = q
    BY ZenonT(30), <1>1, <2>1 DEF State
  <2>3. cl'.sock[ch] = "shut" /\ \A x \in Channel \ {ch} : cl'.sock[x] = cl.sock[x]
    BY ZenonT(30), <2>1, <2>2
  <2> QED  BY ZenonT(30), <1>1, <1>2, <1>5, <2>2, <2>3, SocketFits
<1>6. CASE cl' = protocol_client_xfer(u, ch, Setvolume) /\ connects' = connects + 1
  <2> DEFINE q == [cl.sock EXCEPT ![ch] = "up"]
  <2>1. /\ q \in [Channel -> {"none", "connecting", "up", "dead", "shut"}]
        /\ q[ch] = "up" /\ \A x \in Channel \ {ch} : q[x] = cl.sock[x]
        /\ h \in BOOLEAN /\ u = [cl EXCEPT !.sock = q, !.half = h]
    BY <1>4
  <2> HIDE DEF h, q
  <2>a. u \in State /\ u.call = cl.call /\ u.conn = cl.conn /\ u.sock = q
    BY ZenonT(30), <1>1, <2>1 DEF State
  <2>2. /\ u \in State /\ u.call = cl.call /\ u.conn = cl.conn
        /\ u.sock[ch] = "up" /\ \A x \in Channel \ {ch} : u.sock[x] = cl.sock[x]
    BY ZenonT(30), <2>1, <2>a
  <2> HIDE DEF u
  <2> DEFINE fr == Setvolume
  <2>3. fr \in FrameSet /\ fr.op # "call" /\ cl' = protocol_client_xfer(u, ch, fr) /\ fr \in OwnFrames
    BY ZenonT(30), <1>6, MineOnly DEF OwnFrames
  <2> HIDE DEF fr
  <2>4. Own(u, cl', {fr, Ping}) /\ cl'.sock = u.sock
    BY <2>2, <2>3, XferOwn
  <2>5. {fr, Ping} \subseteq OwnFrames
    BY ZenonT(30), <2>3 DEF OwnFrames
  <2>6. Aside(u, cl')
    BY ZenonT(30), <2>4, <2>5, OwnAside
  <2>7. cl'.call = cl.call
    BY ZenonT(30), <2>2, <2>6 DEF Aside
  <2>8. \A d \in Call, x \in Channel :
          Mine(d) \in cl'.conn[x].saved <=> Mine(d) \in cl.conn[x].saved
    BY ZenonT(30), <2>2, <2>6 DEF Aside
  <2>9. ASSUME NEW x \in Channel, cl'.conn[x].saved # {} PROVE cl'.sock[x] \in {"up", "dead", "shut"}
    <3>1. CASE x = ch
      BY ZenonT(30), <2>2, <2>4, <3>1
    <3>2. CASE x # ch
      <4>1. cl.conn[x].saved # {} \/ u.sock[x] \in {"up", "dead"}
        BY ZenonT(30), <2>2, <2>6, <2>9 DEF Aside
      <4>2. cl.sock[x] \in {"up", "dead", "shut"}
        BY ZenonT(30), <1>3, <2>2, <3>2, <4>1 DEF NoOrphanFrame
      <4> QED  BY ZenonT(30), <2>2, <2>4, <3>2, <4>2
    <3> QED  BY ZenonT(30), <3>1, <3>2
  <2>10. Typed
    BY <1>1, <1>2, <1>6, <2>6 DEF Typed, Aside
  <2> QED  BY ZenonT(30), <1>2, <2>7, <2>8, <2>9, <2>10, FramesFit
<1> QED  BY ZenonT(30), <1>5, <1>6 DEF socket_connect_finish, EvIdle, protocol_client_handshake

\* POLLERR: the messages are lost, the frames are still saved.
LEMMA PollErrFits ==
  ASSUME TypeOK, NoOrphanFrame, NEW ch \in Channel, PollErr(ch)
  PROVE  Fits
PROOF
<1> DEFINE how == "none"
           u == Hangup(cl, ch, how)
<1>1. cl \in State /\ tm \in TmThread /\ connects \in Nat
  BY Types
<1>2. /\ ev = Idle /\ ev' = At("cleanup", ch) /\ tm' = tm /\ connects' = connects
      /\ how \in Ended /\ cl' = LoseMessages(u, ch)
  BY ZenonT(30) DEF PollErr, socket_event_poll_err, Ended
<1> HIDE DEF how
<1>3. /\ u \in State /\ u.call = cl.call /\ u.conn = cl.conn
      /\ \A x \in Channel \ {ch} : u.sock[x] = cl.sock[x]
  BY <1>1, <1>2, HangupStep
<1> HIDE DEF u
<1>a. /\ cl' \in State /\ cl'.sock = u.sock
      /\ \A x \in Channel : cl'.conn[x].saved = u.conn[x].saved
  BY <1>2, <1>3, LoseStep
<1>b. \A c \in Call : /\ cl'.call[c].st = u.call[c].st /\ cl'.call[c].kind = u.call[c].kind
                       /\ cl'.call[c].fd = u.call[c].fd
                       /\ cl'.call[c].net = IF u.call[c].ch # ch THEN u.call[c].net
                                            ELSE IF u.call[c].net = "req" THEN "late"
                                            ELSE IF u.call[c].net = "rsp" THEN "over"
                                            ELSE u.call[c].net
  BY <1>2, <1>3, LoseStep
<1>5. ev.frames = {} /\ ev'.frames = {} /\ ev' \in EvThread /\ \A x \in Channel : ev # At("cleanup", x)
  BY <1>2 DEF Idle, At, Thread, EvThread
<1>6. ASSUME NEW d \in Call PROVE Still(d)
  <2>1. Spot(d)' = Spot(d)
    BY <1>2, <1>3, <1>a, <1>b, <1>5, SpotKept
  <2> QED  BY <1>3, <1>a, <1>b, <2>1 DEF Still
<1>7. NoOrphanFrame'
  BY SMTT(30), <1>2, <1>3, <1>a, <1>b, <1>5 DEF NoOrphanFrame
<1> QED  BY ZenonT(30), <1>1, <1>2, <1>a, <1>b, <1>5, <1>6, <1>7 DEF Fits, Typed, OneCall

\* The frames of a connection are taken by the event thread.
LEMMA CleanupFits ==
  ASSUME TypeOK, NoOrphanFrame, NEW ch \in Channel, protocol_client_cleanup(ch)
  PROVE  Fits
PROOF
<1> DEFINE q == [cl.conn[ch] EXCEPT !.saved = {}]
<1>1. cl \in State /\ tm \in TmThread /\ connects \in Nat
  BY Types
<1>2. /\ ev = At("cleanup", ch) /\ ev' = Thread("unwind", ch, cl.conn[ch].saved, FALSE)
      /\ tm' = tm /\ connects' = connects /\ cl' = WithConn(cl, ch, q)
  BY DEF protocol_client_cleanup, WithConn
<1>3. cl.conn[ch].saved \in SUBSET FrameSet /\ q \in ConnState /\ q.saved = {}
  BY ZenonT(30), <1>1, StateParts DEF ConnState
<1> HIDE DEF q
<1>4. /\ cl' \in State /\ cl'.call = cl.call /\ cl'.sock = cl.sock
      /\ cl'.conn[ch] = q /\ \A x \in Channel \ {ch} : cl'.conn[x] = cl.conn[x]
  BY <1>1, <1>2, <1>3, ConnUpdate
<1>5. ev.frames = {} /\ ev'.frames = cl.conn[ch].saved /\ ev' \in EvThread
      /\ \A x \in Channel \ {ch} : ev # At("cleanup", x)
  BY ZenonT(30), <1>2, <1>3 DEF At, Thread, EvThread
<1>6. ASSUME NEW d \in Call PROVE Still(d)
  <2>1. CASE Mine(d) \notin cl.conn[ch].saved
    <3>1. Spot(d)' = Spot(d)
      BY ZenonT(30), <1>2, <1>3, <1>4, <1>5, <2>1, SpotKept
    <3> QED  BY ZenonT(30), <1>4, <3>1 DEF Still
  <2>2. CASE Mine(d) \in cl.conn[ch].saved
    <3>1. ch \in Spot(d) /\ "ev" \in Spot(d)'
      BY ZenonT(30), <1>5, <2>2 DEF Spot, Places
    <3>2. \A p \in Spot(d)' : p = "ev" \/ (p \in Spot(d) /\ p # ch)
      BY ZenonT(30), <1>2, <1>3, <1>4, <1>5 DEF Spot, Places, Channel
    <3>3. Single(Spot(d)) => Single(Spot(d)')
      BY ZenonT(30), <3>1, <3>2 DEF Single
    <3> QED  BY ZenonT(30), <1>4, <3>1, <3>3 DEF Still
  <2> QED  BY ZenonT(30), <2>1, <2>2
<1>7. NoOrphanFrame'
  BY ZenonT(30), <1>3, <1>4, <1>5 DEF NoOrphanFrame
<1> QED  BY ZenonT(30), <1>1, <1>2, <1>4, <1>5, <1>6, <1>7 DEF Fits, Typed, OneCall

\* The old frames of a connection are taken by the timer thread.
LEMMA CallBailFits ==
  ASSUME TypeOK, NoOrphanFrame, NEW ch \in Channel, call_bail(ch)
  PROVE  Fits
PROOF
<1>1. cl \in State /\ tm \in TmThread /\ connects \in Nat /\ ev \in EvThread
  BY Types
<1>2. PICK old \in SUBSET cl.conn[ch].saved :
        /\ cl' = [cl EXCEPT !.conn[ch].saved = @ \ old]
        /\ tm = Idle /\ tm' = Thread("bail", ch, old, FALSE) /\ ev' = ev /\ connects' = connects
  BY ZenonT(30) DEF call_bail, TmIdle
<1> DEFINE q == [cl.conn[ch] EXCEPT !.saved = @ \ old]
<1>3. cl.conn[ch].saved \in SUBSET FrameSet /\ q \in ConnState /\ q.saved = cl.conn[ch].saved \ old
  BY ZenonT(30), <1>1, StateParts DEF ConnState
<1>4. cl' = WithConn(cl, ch, q)
  BY ZenonT(30), <1>2 DEF WithConn
<1> HIDE DEF q
<1>5. /\ cl' \in State /\ cl'.call = cl.call /\ cl'.sock = cl.sock
      /\ cl'.conn[ch] = q /\ \A x \in Channel \ {ch} : cl'.conn[x] = cl.conn[x]
  BY <1>1, <1>3, <1>4, ConnUpdate
<1>6. tm.frames = {} /\ tm'.frames = old /\ tm' \in TmThread
  BY ZenonT(30), <1>2, <1>3 DEF Idle, At, Thread, TmThread
<1>7. ASSUME NEW d \in Call PROVE Still(d)
  <2>1. CASE Mine(d) \notin old
    <3>1. Spot(d)' = Spot(d)
      BY ZenonT(30), <1>2, <1>3, <1>5, <1>6, <2>1, SpotKept
    <3> QED  BY ZenonT(30), <1>5, <3>1 DEF Still
  <2>2. CASE Mine(d) \in old
    <3>1. ch \in Spot(d) /\ "tm" \in Spot(d)'
      BY ZenonT(30), <1>2, <1>6, <2>2 DEF Spot, Places
    <3>2. \A p \in Spot(d)' : p = "tm" \/ (p \in Spot(d) /\ p # ch)
      BY ZenonT(30), <1>2, <1>3, <1>5, <1>6, <2>2 DEF Spot, Places, Channel
    <3>3. Single(Spot(d)) => Single(Spot(d)')
      BY ZenonT(30), <3>1, <3>2 DEF Single
    <3> QED  BY ZenonT(30), <1>5, <3>1, <3>3 DEF Still
  <2> QED  BY ZenonT(30), <2>1, <2>2
<1>8. NoOrphanFrame'
  BY ZenonT(30), <1>2, <1>3, <1>5 DEF NoOrphanFrame
<1> QED  BY ZenonT(30), <1>1, <1>2, <1>5, <1>6, <1>7, <1>8 DEF Fits, Typed, OneCall

-----------------------------------------------------------------------------
(* The steps that are about a call. *)

\* A call that the step is not about.
LEMMA StillThere ==
  ASSUME NEW d \in Call, cl'.call[d] = cl.call[d], Spot(d)' = Spot(d)
  PROVE  Still(d)
BY DEF Still

\* The frame is failed: a call is told, or the client sends frames of its own.
FailsFrame(fr) ==
  \/ fr \in OwnFrames /\ Aside(cl, cl')
  \/ \E c \in Call :
       /\ fr = Mine(c) /\ cl' \in State /\ cl'.conn = cl.conn /\ cl'.sock = cl.sock
       /\ cl'.call[c].st = "failed" /\ cl'.call[c].kind = "plain"
       /\ cl'.call[c].net = cl.call[c].net
       /\ \A d \in Call \ {c} : cl'.call[d] = cl.call[d]

\* What a failed frame does, whoever fails it.
LEMMA FailedStep ==
  ASSUME TypeOK, NEW ch \in Channel, NEW fr \in FrameSet, NEW k \in BOOLEAN,
         cl' = Failed(cl, ch, fr, k)
  PROVE  FailsFrame(fr)
PROOF
<1>1. cl \in State
  BY ZenonT(30), Types
<1>2. CASE fr.op = "call"
  <2> DEFINE c == fr.of
             r == "err"
  <2>1. c \in Call /\ fr = Mine(c)
    BY ZenonT(30), <1>2, FrameKinds, MineOnly
  <2>2. r \in Answer /\ cl' = StackUnwind(cl, c, r) /\ r # "ok"
    BY ZenonT(30), <1>2 DEF Failed, Answer
  <2> HIDE DEF c, r
  <2>3. /\ cl' \in State /\ SameRest(cl, cl')
        /\ cl'.fd = cl.fd /\ cl'.conn = cl.conn /\ cl'.sock = cl.sock
        /\ cl'.call[c].st = (IF r = "ok" THEN "served" ELSE "failed")
        /\ cl'.call[c].kind = "plain" /\ cl'.call[c].net = cl.call[c].net
        /\ cl'.call[c].ch = cl.call[c].ch
        /\ \A d \in Call \ {c} : cl'.call[d] = cl.call[d]
    BY <1>1, <2>1, <2>2, UnwindStep
  <2> QED  BY ZenonT(30), <2>1, <2>2, <2>3 DEF FailsFrame
<1>3. CASE fr.op # "call"
  <2>1. cl' = cl \/ \E f \in Fd : Own(cl, cl', {Release(f), Ping})
    BY ZenonT(30), <1>1, <1>3, FailedOwn
  <2>2. \A f \in Fd : {Release(f), Ping} \subseteq OwnFrames
    BY ZenonT(30) DEF OwnFrames
  <2>3. cl' = cl => Aside(cl, cl')
    BY <1>1 DEF Aside
  <2>4. Aside(cl, cl')
    BY ZenonT(30), <2>1, <2>2, <2>3, OwnAside
  <2>5. fr \in OwnFrames
    BY ZenonT(30), <1>3, FrameKinds DEF OwnFrames
  <2> QED  BY ZenonT(30), <2>4, <2>5 DEF FailsFrame
<1> QED  BY ZenonT(30), <1>2, <1>3

\* saved_frames_unwind: one frame after the other.
LEMMA UnwindFits ==
  ASSUME TypeOK, NoOrphanFrame, NEW ch \in Channel, saved_frames_unwind(ch)
  PROVE  Fits
PROOF
<1>1. cl \in State /\ ev \in EvThread /\ tm \in TmThread /\ connects \in Nat
  BY Types
<1>2. PICK fr \in ev.frames : \E k \in BOOLEAN :
        /\ cl' = Failed(cl, ch, fr, k) /\ ev' = [ev EXCEPT !.frames = @ \ {fr}]
        /\ ev.at = "unwind" /\ tm' = tm /\ connects' = connects
  BY DEF saved_frames_unwind
<1>3. fr \in FrameSet
  BY <1>1 DEF EvThread
<1>4. FailsFrame(fr)
  BY ZenonT(30), <1>2, <1>3, FailedStep
<1>5. ev' \in EvThread /\ ev'.frames = ev.frames \ {fr} /\ \A x \in Channel : ev # At("cleanup", x)
  BY <1>1, <1>2 DEF EvThread, At, Thread
<1>6. CASE fr \in OwnFrames /\ Aside(cl, cl')
  <2>1. OneCall
    BY <1>2, <1>5, <1>6, AsideCalls, MineOnly DEF OwnFrames
  <2>2. NoOrphanFrame'
    BY ZenonT(30), <1>5, <1>6, AsideSockets
  <2> QED  BY ZenonT(30), <1>1, <1>2, <1>5, <1>6, <2>1, <2>2 DEF Fits, Typed, Aside
<1>7. ASSUME NEW c \in Call, fr = Mine(c), cl' \in State, cl'.conn = cl.conn, cl'.sock = cl.sock,
             cl'.call[c].st = "failed", cl'.call[c].kind = "plain",
             cl'.call[c].net = cl.call[c].net,
             \A d \in Call \ {c} : cl'.call[d] = cl.call[d]
      PROVE  Fits
  <2>1. "ev" \in Spot(c) /\ Spot(c)' = Spot(c) \ {"ev"}
    BY ZenonT(30), <1>2, <1>5, <1>7 DEF Spot, Places, Channel
  <2>2. Acts(c)
    BY ZenonT(30), <1>7, <2>1 DEF Acts, Answered
  <2>3. ASSUME NEW d \in Call \ {c} PROVE Still(d)
    <3>1. Mine(d) # fr
      BY ZenonT(30), <1>7, MineOnly
    <3>2. Spot(d)' = Spot(d)
      BY ZenonT(30), <1>2, <1>5, <1>7, <3>1, SpotKept
    <3> QED  BY ZenonT(30), <1>7, <3>2, StillThere
  <2>4. NoOrphanFrame'
    BY ZenonT(30), <1>5, <1>7 DEF NoOrphanFrame
  <2> QED  BY ZenonT(30), <1>1, <1>2, <1>5, <1>7, <2>2, <2>3, <2>4 DEF Fits, Typed, OneCall
<1> QED  BY ZenonT(30), <1>4, <1>6, <1>7 DEF FailsFrame

\* What call_bail took, one frame after the other.
LEMMA BailFits ==
  ASSUME TypeOK, NoOrphanFrame, Bail
  PROVE  Fits
PROOF
<1>1. cl \in State /\ ev \in EvThread /\ tm \in TmThread /\ connects \in Nat /\ tm.ch \in Channel
  BY ZenonT(30), Types DEF TmThread
<1>2. PICK fr \in tm.frames : \E k \in BOOLEAN :
        /\ cl' = Failed(cl, tm.ch, fr, k)
        /\ tm' = IF tm.frames = {fr} THEN Idle ELSE [tm EXCEPT !.frames = @ \ {fr}]
        /\ ev' = ev /\ connects' = connects
  BY DEF Bail
<1>3. fr \in FrameSet
  BY ZenonT(30), <1>1 DEF TmThread
<1> DEFINE ch == tm.ch
<1>4. FailsFrame(fr)
  <2>1. ch \in Channel /\ \E k \in BOOLEAN : cl' = Failed(cl, ch, fr, k)
    BY ZenonT(30), <1>1, <1>2
  <2> HIDE DEF ch
  <2> QED  BY ZenonT(30), <1>3, <2>1, FailedStep
<1>5. tm' \in TmThread /\ tm'.frames = tm.frames \ {fr}
  <2>1. CASE tm.frames = {fr}
    <3>1. tm' = Idle
      BY ZenonT(30), <1>2, <2>1
    <3> QED  BY ZenonT(30), <2>1, <3>1 DEF TmThread, Idle, At, Thread, Channel
  <2>2. CASE tm.frames # {fr}
    <3>1. tm' = [tm EXCEPT !.frames = @ \ {fr}]
      BY ZenonT(30), <1>2, <2>2
    <3> QED  BY ZenonT(30), <1>1, <3>1 DEF TmThread
  <2> QED  BY ZenonT(30), <2>1, <2>2
<1>6. CASE fr \in OwnFrames /\ Aside(cl, cl')
  <2>1. \A d \in Call : Mine(d) \in tm'.frames <=> Mine(d) \in tm.frames
    BY <1>5, <1>6, MineOnly DEF OwnFrames
  <2> QED  BY ZenonT(30), <1>1, <1>2, <1>5, <1>6, <2>1, AsideFits
<1>7. ASSUME NEW c \in Call, fr = Mine(c), cl' \in State, cl'.conn = cl.conn, cl'.sock = cl.sock,
             cl'.call[c].st = "failed", cl'.call[c].kind = "plain",
             cl'.call[c].net = cl.call[c].net,
             \A d \in Call \ {c} : cl'.call[d] = cl.call[d]
      PROVE  Fits
  <2>1. "tm" \in Spot(c) /\ Spot(c)' = Spot(c) \ {"tm"}
    BY ZenonT(30), <1>2, <1>5, <1>7 DEF Spot, Places, Channel
  <2>2. Acts(c)
    BY ZenonT(30), <1>7, <2>1 DEF Acts, Answered
  <2>3. ASSUME NEW d \in Call \ {c} PROVE Still(d)
    <3>1. Mine(d) # fr
      BY ZenonT(30), <1>7, MineOnly
    <3>2. Spot(d)' = Spot(d)
      BY ZenonT(30), <1>2, <1>5, <1>7, <3>1, SpotKept
    <3> QED  BY ZenonT(30), <1>7, <3>2, StillThere
  <2>4. NoOrphanFrame'
    BY ZenonT(30), <1>2, <1>7 DEF NoOrphanFrame
  <2> QED  BY ZenonT(30), <1>1, <1>2, <1>5, <1>7, <2>2, <2>3, <2>4 DEF Fits, Typed, OneCall
<1> QED  BY ZenonT(30), <1>4, <1>6, <1>7 DEF FailsFrame

\* No socket changes, except that a connection may be attempted.
SocksKept(s, t) ==
  \A x \in Channel : \/ t.sock[x] = s.sock[x]
                     \/ s.sock[x] = "none" /\ t.sock[x] = "connecting"

\* A new record for one call, frames and sockets staying where they are.
LEMMA CallFits ==
  ASSUME TypeOK, NoOrphanFrame, NEW c \in Call, cl' \in State,
         cl'.conn = cl.conn, SocksKept(cl, cl'),
         \A d \in Call \ {c} : cl'.call[d] = cl.call[d],
         Spot(c)' = Spot(c) => Acts(c),
         ev' = ev, tm' = tm, connects' = connects
  PROVE  Fits
PROOF
<1>1. ev \in EvThread /\ tm \in TmThread /\ connects \in Nat
  BY ZenonT(30), Types
<1>2. ASSUME NEW d \in Call PROVE Spot(d)' = Spot(d)
  BY ZenonT(30), SpotKept
<1>3. \A d \in Call \ {c} : Still(d)
  BY ZenonT(30), <1>2, StillThere
<1>4. Acts(c)
  BY ZenonT(30), <1>2
<1>5. NoOrphanFrame'
  BY ZenonT(30) DEF NoOrphanFrame, SocksKept
<1> QED  BY ZenonT(30), <1>1, <1>3, <1>4, <1>5 DEF Fits, Typed, OneCall

\* The kinds of the operations.
LEMMA FopKinds ==
  ASSUME NEW q \in fops
  PROVE  /\ q.kind \in {"plain", "decode", "open", "opendir"} /\ q.id \in Channel
         /\ q.on = "path" => q.kind \in {"plain", "decode"}
BY DEF fops, PathFop, FdFop, OpenFop, Channel,
  client_create_open, client_stat_readlink, client_mknod_mkdir, client_unlink_rmdir,
  client_symlink_rename, client_link, client_truncate, client_readv_writev, client_statfs,
  client_flush_fsync, client_xattrop, client_fxattrop, client_setxattr, client_getxattr,
  client_removexattr, client_opendir, client_getdents, client_readdirp_readdir, client_fsyncdir,
  client_access, client_ftruncate_fstat, client_lk, client_inodelk, client_finodelk,
  client_entrylk, client_fentrylk, client_lookup, client_setdents, client_setattr,
  client_fsetattr, client_stats, client_getspec_log, client_checksum, client_rchecksum

\* A call is told of a failure of the client's own.
LEMMA RefusedFits ==
  ASSUME TypeOK, NoOrphanFrame, NEW c \in Call, cl.call[c].st \in {"idle", "chosen"},
         NEW s \in State, s.call = cl.call, s.conn = cl.conn,
         SocksKept(cl, s),
         cl' = StackUnwind(s, c, "err"), ev' = ev, tm' = tm, connects' = connects
  PROVE  Fits
PROOF
<1> DEFINE r == "err"
<1>1. r \in Answer /\ cl' = StackUnwind(s, c, r) /\ r # "ok"
  BY ZenonT(30) DEF Answer
<1> HIDE DEF r
<1>2. /\ cl' \in State /\ SameRest(s, cl')
      /\ cl'.fd = s.fd /\ cl'.conn = s.conn /\ cl'.sock = s.sock
      /\ cl'.call[c].st = (IF r = "ok" THEN "served" ELSE "failed")
      /\ cl'.call[c].kind = "plain" /\ cl'.call[c].net = s.call[c].net
      /\ cl'.call[c].ch = s.call[c].ch
      /\ \A d \in Call \ {c} : cl'.call[d] = s.call[d]
  BY <1>1, UnwindStep
<1>3. cl'.call[c].st = "failed" /\ cl'.call[c].kind = "plain" /\ cl'.call[c].net = cl.call[c].net
  BY SMTT(30), <1>1, <1>2
<1>4. Spot(c)' = Spot(c) => Acts(c)
  BY ZenonT(30), <1>3 DEF Acts, Taken, NotSent
<1>5. /\ cl'.conn = cl.conn
      /\ SocksKept(cl, cl')
      /\ \A d \in Call \ {c} : cl'.call[d] = cl.call[d]
  BY ZenonT(30), <1>2 DEF SocksKept
<1> QED  BY ZenonT(30), <1>2, <1>4, <1>5, CallFits

\* An operation reads its descriptor and picks its channel, or is refused.
LEMMA FopFits ==
  ASSUME TypeOK, NoOrphanFrame, NEW c \in Call, Fop(c)
  PROVE  Fits
PROOF
<1>1. cl \in State /\ cl.call[c] \in CallState /\ cl.call[c].st = "idle"
  BY ZenonT(30), Types, StateParts DEF Fop
<1>2. ev' = ev /\ tm' = tm /\ connects' = connects
  BY ZenonT(30) DEF Fop, Rest
<1> DEFINE s == cl
<1>3. CASE cl' = StackUnwind(cl, c, "err")
  <2>1. /\ s \in State /\ s.call = cl.call /\ s.conn = cl.conn /\ SocksKept(cl, s)
        /\ cl' = StackUnwind(s, c, "err") /\ cl.call[c].st \in {"idle", "chosen"}
    BY ZenonT(30), <1>1, <1>3 DEF SocksKept
  <2> HIDE DEF s
  <2> QED  BY ZenonT(30), <1>2, <2>1, RefusedFits
<1>4. ASSUME NEW q \in fops, NEW f \in Fd \cup {"none"}, q.kind \in {"open", "opendir"} => f \in Fd,
             cl' = [cl EXCEPT !.call[c] = [@ EXCEPT !.st = "chosen", !.kind = q.kind, !.fd = f,
                                                    !.ch = client_channel(cl, q.id)]]
      PROVE  Fits
  <2> DEFINE x == client_channel(cl, q.id)
             r == [cl.call[c] EXCEPT !.st = "chosen", !.kind = q.kind, !.fd = f, !.ch = x]
  <2>1. x \in Channel /\ q.kind \in {"plain", "decode", "open", "opendir"}
    BY ZenonT(30), FopKinds, ChannelChosen
  <2>2. cl' = WithCall(cl, c, r)
    BY ZenonT(30), <1>4 DEF WithCall
  <2> HIDE DEF x
  <2>3. /\ r \in CallState /\ r.st = "chosen" /\ r.net = cl.call[c].net /\ r.kind = q.kind
        /\ r.fd = f
    BY ZenonT(30), <1>1, <2>1 DEF CallState
  <2> HIDE DEF r
  <2>4. /\ cl' \in State
        /\ cl'.fd = cl.fd /\ cl'.conn = cl.conn /\ cl'.sock = cl.sock /\ cl'.started = cl.started
        /\ cl'.quiet = cl.quiet /\ cl'.view = cl.view /\ cl'.session = cl.session
        /\ cl'.half = cl.half /\ cl'.missed = cl.missed
        /\ cl'.call[c] = r /\ \A y \in Call \ {c} : cl'.call[y] = cl.call[y]
    BY <1>1, <2>2, <2>3, CallUpdate
  <2>5. Spot(c)' = Spot(c) => Acts(c)
    BY <1>1, <1>4, <2>3, <2>4 DEF Acts, Taken
  <2>6. SocksKept(cl, cl')
    BY ZenonT(30), <2>4 DEF SocksKept
  <2> QED  BY ZenonT(30), <1>2, <2>4, <2>5, <2>6, CallFits
<1>5. \/ cl' = StackUnwind(cl, c, "err")
      \/ \E q \in fops : \E f \in Fd \cup {"none"} :
           /\ q.kind \in {"open", "opendir"} => f \in Fd
           /\ cl' = [cl EXCEPT !.call[c] = [@ EXCEPT !.st = "chosen", !.kind = q.kind, !.fd = f,
                                                    !.ch = client_channel(cl, q.id)]]
  <2>1. PICK q \in fops : \/ q.on = "path" /\ Request(c, q, "none")
                          \/ \E f \in Fd : OnFd(c, q, f)
                          \/ \E f \in Fd : OnNewFd(c, q, f)
    BY ZenonT(30) DEF Fop
  <2>2. \/ cl' = StackUnwind(cl, c, "err")
        \/ \E f \in Fd \cup {"none"} : (q.on = "path" \/ f \in Fd) /\ Request(c, q, f)
    BY ZenonT(30), <2>1 DEF OnFd, OnNewFd
  <2> QED  BY ZenonT(30), <2>2, FopKinds DEF Request
<1> QED  BY ZenonT(30), <1>3, <1>4, <1>5

\* The caller forgets a call that is over.
LEMMA DoneFits ==
  ASSUME TypeOK, NoOrphanFrame, NEW c \in Call, Done(c)
  PROVE  Fits
PROOF
<1> DEFINE r == NewCall
<1>1. cl \in State /\ ev' = ev /\ tm' = tm /\ connects' = connects /\ cl' = WithCall(cl, c, r)
  BY ZenonT(30), Types DEF Done, Rest, WithCall
<1>2. r \in CallState /\ r.st = "idle" /\ r.net = "none" /\ r.kind = "plain"
  BY ZenonT(30) DEF NewCall, CallState, Channel
<1> HIDE DEF r
<1>3. /\ cl' \in State
      /\ cl'.fd = cl.fd /\ cl'.conn = cl.conn /\ cl'.sock = cl.sock /\ cl'.started = cl.started
      /\ cl'.quiet = cl.quiet /\ cl'.view = cl.view /\ cl'.session = cl.session
      /\ cl'.half = cl.half /\ cl'.missed = cl.missed
      /\ cl'.call[c] = r /\ \A y \in Call \ {c} : cl'.call[y] = cl.call[y]
  BY <1>1, <1>2, CallUpdate
<1>4. Spot(c)' = Spot(c) => Acts(c)
  BY ZenonT(30), <1>2, <1>3 DEF Done, Acts, Forgotten
<1>5. SocksKept(cl, cl')
  BY ZenonT(30), <1>3 DEF SocksKept
<1> QED  BY ZenonT(30), <1>1, <1>3, <1>4, <1>5, CallFits

\* The server executes a request, of a connection that lasts or of one that is gone.
LEMMA ExecuteFits ==
  ASSUME TypeOK, NoOrphanFrame, NEW c \in Call, Execute(c)
  PROVE  Fits
PROOF
<1>1. /\ cl \in State /\ cl.call[c] \in CallState /\ cl.session \in Nat
      /\ ev' = ev /\ tm' = tm /\ connects' = connects
  BY ZenonT(30), Types, StateParts DEF Execute, Rest, State
<1>2. PICK n \in {"rsp", "over"}, h \in Nat :
        /\ cl' = WithCall(cl, c, [cl.call[c] EXCEPT !.net = n, !.h = h])
        /\ \/ cl.call[c].net = "req" /\ n = "rsp"
           \/ cl.call[c].net = "late" /\ n = "over"
  <2>1. Handle(cl, c) \in Nat /\ cl.call[c].h \in Nat
    BY <1>1 DEF Handle, CallState
  <2>2. [cl.call[c] EXCEPT !.net = "over"] = [cl.call[c] EXCEPT !.net = "over", !.h = cl.call[c].h]
    BY ZenonT(30), <1>1 DEF CallState
  <2>3. CASE /\ cl.call[c].net = "req"
             /\ cl' = [cl EXCEPT !.call[c] = [@ EXCEPT !.net = "rsp", !.h = Handle(cl, c)]]
    BY ZenonT(30), <2>1, <2>3 DEF WithCall
  <2>4. CASE cl.call[c].net = "late" /\ cl' = [cl EXCEPT !.call[c].net = "over"]
    <3>1. cl' = WithCall(cl, c, [cl.call[c] EXCEPT !.net = "over"])
      BY <2>4 DEF WithCall
    <3> QED  BY ZenonT(30), <2>1, <2>2, <2>4, <3>1
  <2> QED  BY ZenonT(30), <2>3, <2>4 DEF Execute
<1> DEFINE r == [cl.call[c] EXCEPT !.net = n, !.h = h]
<1>3. /\ r \in CallState /\ r.st = cl.call[c].st /\ r.net = n /\ r.kind = cl.call[c].kind
      /\ r.fd = cl.call[c].fd
  BY ZenonT(30), <1>1 DEF CallState
<1>4. cl' = WithCall(cl, c, r)
  BY ZenonT(30), <1>2
<1> HIDE DEF r
<1>5. /\ cl' \in State
      /\ cl'.fd = cl.fd /\ cl'.conn = cl.conn /\ cl'.sock = cl.sock /\ cl'.started = cl.started
      /\ cl'.quiet = cl.quiet /\ cl'.view = cl.view /\ cl'.session = cl.session
      /\ cl'.half = cl.half /\ cl'.missed = cl.missed
      /\ cl'.call[c] = r /\ \A y \in Call \ {c} : cl'.call[y] = cl.call[y]
  BY SMTT(30), <1>1, <1>3, <1>4, CallUpdate
<1>6. Spot(c)' = Spot(c) => Acts(c)
  BY SMTT(30), <1>2, <1>3, <1>5 DEF Acts, Executed
<1>7. SocksKept(cl, cl')
  BY ZenonT(30), <1>5 DEF SocksKept
<1> QED  BY ZenonT(30), <1>1, <1>5, <1>6, <1>7, CallFits

\* The request is sent and its frame saved, or the caller is told that it cannot.
LEMMA TransferFits ==
  ASSUME TypeOK, NoOrphanFrame, NEW c \in Call, Transfer(c)
  PROVE  Fits
PROOF
<1> DEFINE ch == cl.call[c].ch
<1>1. /\ cl \in State /\ cl.call[c] \in CallState /\ ch \in Channel
      /\ ev \in EvThread /\ tm \in TmThread /\ connects \in Nat
      /\ cl.call[c].st = "chosen" /\ ev' = ev /\ tm' = tm /\ connects' = connects
  BY ZenonT(30), Types, StateParts DEF Transfer, Rest, CallState
<1>2. PICK k \in BOOLEAN :
        cl' = IF Goes(cl, ch, Mine(c)) THEN protocol_client_xfer(cl, ch, Mine(c))
              ELSE StackUnwind(Fallback(cl, ch, k), c, "err")
  BY ZenonT(30) DEF Transfer
<1> HIDE DEF ch
<1>3. CASE ~Goes(cl, ch, Mine(c))
  <2> DEFINE s == Fallback(cl, ch, k)
  <2>1. Own(cl, s, {}) /\ s.fd = cl.fd /\ s.conn = cl.conn
    BY ZenonT(30), <1>1, FallbackStep
  <2>2. cl' = StackUnwind(s, c, "err")
    BY ZenonT(30), <1>2, <1>3
  <2> HIDE DEF s
  <2>3. /\ s \in State /\ s.call = cl.call
        /\ SocksKept(cl, s)
    BY ZenonT(30), <2>1 DEF Own, SameRest, SocksKept
  <2> QED  BY ZenonT(30), <1>1, <2>1, <2>2, <2>3, RefusedFits
<1>4. CASE Goes(cl, ch, Mine(c))
  <2>1. cl.sock[ch] \in {"up", "dead"} /\ cl' = protocol_client_xfer(cl, ch, Mine(c))
    BY ZenonT(30), <1>2, <1>4 DEF Goes, socket_submit
  <2>a. CallSent(cl, cl', ch, c)
    BY ZenonT(30), <1>1, <2>1, XferCall
  <2>2. /\ SameRest(cl, cl') /\ cl'.sock = cl.sock
        /\ cl'.call[c].st = "saved" /\ cl'.call[c].net = "req"
        /\ cl'.call[c].kind = cl.call[c].kind /\ cl'.call[c].fd = cl.call[c].fd
        /\ \A d \in Call \ {c} : cl'.call[d] = cl.call[d]
    BY ZenonT(30), <2>a DEF CallSent
  <2>3. PICK F : F \in {{Mine(c)}, {Mine(c), Ping}} /\ Saves(cl, cl', ch, F)
    BY <2>a DEF CallSent
  <2>4. /\ \A x \in Channel \ {ch} : cl'.conn[x].saved = cl.conn[x].saved
        /\ cl'.conn[ch].saved = cl.conn[ch].saved \cup F
    BY ZenonT(30), <1>1, <2>3 DEF Saves
  <2>5. Mine(c) \in F /\ \A d \in Call \ {c} : Mine(d) \notin F
    BY ZenonT(30), <2>3, MineOnly
  <2>6. Spot(c)' = Spot(c) \cup {ch}
    BY ZenonT(30), <1>1, <2>4, <2>5 DEF Spot, Places
  <2>7. Acts(c)
    BY ZenonT(30), <1>1, <2>2, <2>6 DEF Acts, IsSent
  <2>8. ASSUME NEW d \in Call \ {c} PROVE Still(d)
    <3>1. \A x \in Channel : Mine(d) \in cl'.conn[x].saved <=> Mine(d) \in cl.conn[x].saved
      BY ZenonT(30), <2>4, <2>5
    <3>2. Spot(d)' = Spot(d)
      BY ZenonT(30), <1>1, <3>1, SpotKept
    <3> QED  BY ZenonT(30), <2>2, <3>2, StillThere
  <2>9. NoOrphanFrame'
    BY ZenonT(30), <1>1, <2>1, <2>2, <2>4 DEF NoOrphanFrame
  <2> QED  BY ZenonT(30), <1>1, <2>2, <2>7, <2>8, <2>9 DEF Fits, Typed, OneCall, SameRest
<1> QED  BY ZenonT(30), <1>3, <1>4

\* A reply is taken, and its frame with it; without a frame it is dropped.
LEMMA ReplyFits ==
  ASSUME TypeOK, NoOrphanFrame, NEW c \in Call, ReplyToCall(c)
  PROVE  Fits
PROOF
<1> DEFINE ch == cl.call[c].ch
           a == [cl.call[c] EXCEPT !.net = "over"]
           v == WithCall(cl, c, a)
           s == protocol_client_pollin(v)
           q == [s.conn[ch] EXCEPT !.saved = @ \ {Mine(c)}]
           t == WithConn(s, ch, q)
<1>1. /\ cl \in State /\ cl.call[c] \in CallState /\ ch \in Channel
      /\ ev \in EvThread /\ tm \in TmThread /\ connects \in Nat
      /\ cl.call[c].net = "rsp" /\ ev = Idle /\ ev' = ev /\ tm' = tm /\ connects' = connects
      /\ cl.call[c].kind \in {"open", "opendir"} => cl.call[c].fd \in Fd
  BY ZenonT(30), Types, StateParts DEF ReplyToCall, CallState, EvIdle
<1>2. \/ cl' = s /\ Mine(c) \notin s.conn[ch].saved
      \/ Mine(c) \in s.conn[ch].saved /\ \E r \in Answer : cl' \in gf_fops(t, c, r)
  <2>1. v = [cl EXCEPT !.call[c].net = "over"] /\ t = lookup_frame(s, ch, Mine(c))
    BY ZenonT(30) DEF WithCall, WithConn, lookup_frame
  <2> HIDE DEF ch, v, q, t
  <2>2. PICK r \in Answer : \E x \in protocol_client_interpret(s, ch, Mine(c),
                                       gf_fops(lookup_frame(s, ch, Mine(c)), c, r)) : EvIdle(x)
    BY ZenonT(30), <2>1 DEF ReplyToCall, Answer, ch
  <2> HIDE DEF s
  <2>3. cl' \in protocol_client_interpret(s, ch, Mine(c), gf_fops(t, c, r))
    BY ZenonT(30), <2>1, <2>2 DEF EvIdle
  <2> QED  BY <2>3 DEF protocol_client_interpret
<1> HIDE DEF ch
<1>3. /\ a \in CallState /\ a.st = cl.call[c].st /\ a.net = "over" /\ a.kind = cl.call[c].kind
      /\ a.fd = cl.call[c].fd
  BY ZenonT(30), <1>1 DEF CallState
<1> HIDE DEF a
<1>4. /\ v \in State
      /\ v.fd = cl.fd /\ v.conn = cl.conn /\ v.sock = cl.sock /\ v.started = cl.started
      /\ v.quiet = cl.quiet /\ v.view = cl.view /\ v.session = cl.session
      /\ v.half = cl.half /\ v.missed = cl.missed
      /\ v.call[c] = a /\ \A y \in Call \ {c} : v.call[y] = cl.call[y]
  BY <1>1, <1>3, CallUpdate
<1> HIDE DEF v
<1>5. s \in State /\ s.call = v.call /\ s.sock = v.sock /\ s.conn = v.conn
  <2> DEFINE b == FALSE
  <2>1. b \in BOOLEAN /\ s = [v EXCEPT !.quiet = b]
    BY DEF protocol_client_pollin
  <2> HIDE DEF b, s
  <2>2. SameRest(v, s) /\ s.call = v.call /\ s.fd = v.fd /\ s.sock = v.sock /\ s.conn = v.conn
    BY ZenonT(30), <1>4, <2>1, QuietUpdate
  <2> QED  BY <2>2 DEF SameRest
<1> HIDE DEF s
<1>6. s.call[c] = a /\ \A y \in Call \ {c} : s.call[y] = cl.call[y]
  BY ZenonT(30), <1>4, <1>5
<1>7. CASE cl' = s
  <2>1. ASSUME NEW d \in Call PROVE Still(d)
    <3>1. Spot(d)' = Spot(d)
      BY ZenonT(30), <1>1, <1>4, <1>5, <1>7, SpotKept
    <3>2. CASE d = c
      BY ZenonT(30), <1>1, <1>3, <1>6, <1>7, <3>1, <3>2 DEF Still
    <3>3. CASE d # c
      BY ZenonT(30), <1>6, <1>7, <3>1, <3>3, StillThere
    <3> QED  BY ZenonT(30), <3>2, <3>3
  <2>2. NoOrphanFrame'
    BY ZenonT(30), <1>1, <1>4, <1>5, <1>7 DEF NoOrphanFrame
  <2> QED  BY ZenonT(30), <1>1, <1>5, <1>7, <2>1, <2>2 DEF Fits, Typed, OneCall
<1>8. ASSUME Mine(c) \in s.conn[ch].saved, NEW r \in Answer, cl' \in gf_fops(t, c, r)
      PROVE  Fits
  <2>1. q \in ConnState /\ q.saved = s.conn[ch].saved \ {Mine(c)}
    BY ZenonT(30), <1>1, <1>5, StateParts DEF ConnState
  <2> HIDE DEF q
  <2>2. /\ t \in State
        /\ t.call = s.call /\ t.fd = s.fd /\ t.sock = s.sock /\ t.started = s.started
        /\ t.quiet = s.quiet /\ t.view = s.view /\ t.session = s.session /\ t.half = s.half
        /\ t.missed = s.missed
        /\ t.conn[ch] = q /\ \A x \in Channel \ {ch} : t.conn[x] = s.conn[x]
    <3>1. t = WithConn(s, ch, q)
      BY ZenonT(30)
    <3> HIDE DEF t
    <3>2. s \in State /\ ch \in Channel /\ q \in ConnState
      BY ZenonT(30), <1>1, <1>5, <2>1
    <3> QED  BY <3>1, <3>2, ConnUpdate
  <2> HIDE DEF t
  <2>3. t.call[c].kind \in {"open", "opendir"} => t.call[c].fd \in Fd
    BY ZenonT(30), <1>1, <1>3, <1>6, <2>2
  <2>4. CallReplied(t, cl', c, r)
    BY ZenonT(30), <1>8, <2>2, <2>3, GfFops
  <2>5. /\ cl' \in State /\ cl'.conn = t.conn /\ cl'.sock = cl.sock
        /\ cl'.call[c].st \in {"served", "failed"} /\ cl'.call[c].kind = "plain"
        /\ cl'.call[c].net = "over"
        /\ \A d \in Call \ {c} : cl'.call[d] = cl.call[d]
    <3>1. /\ cl' \in State /\ cl'.conn = t.conn /\ cl'.sock = t.sock
          /\ cl'.call[c].st \in {"served", "failed"} /\ cl'.call[c].kind = "plain"
          /\ cl'.call[c].net = t.call[c].net
          /\ \A d \in Call \ {c} : cl'.call[d] = t.call[d]
      BY ZenonT(30), <2>4 DEF CallReplied, SameRest
    <3>2. t.sock = cl.sock /\ t.call = s.call
      BY ZenonT(30), <1>4, <1>5, <2>2
    <3>3. t.call[c].net = "over"
      BY ZenonT(30), <1>3, <1>6, <3>2
    <3> QED  BY ZenonT(30), <1>6, <3>1, <3>2, <3>3
  <2>6. /\ \A x \in Channel \ {ch} : cl'.conn[x].saved = cl.conn[x].saved
        /\ cl'.conn[ch].saved = cl.conn[ch].saved \ {Mine(c)} /\ Mine(c) \in cl.conn[ch].saved
    BY ZenonT(30), <1>4, <1>5, <1>8, <2>1, <2>2, <2>5
  <2>7. ch \in Spot(c) /\ Spot(c)' = Spot(c) \ {ch}
    BY ZenonT(30), <1>1, <2>6 DEF Spot, Places, Channel
  <2>8. Acts(c)
    BY ZenonT(30), <1>1, <2>5, <2>7 DEF Acts, Answered
  <2>9. ASSUME NEW d \in Call \ {c} PROVE Still(d)
    <3>1. \A x \in Channel : Mine(d) \in cl'.conn[x].saved <=> Mine(d) \in cl.conn[x].saved
      BY <2>6, MineOnly
    <3>2. Spot(d)' = Spot(d)
      BY ZenonT(30), <1>1, <3>1, SpotKept
    <3> QED  BY ZenonT(30), <2>5, <3>2, StillThere
  <2>10. NoOrphanFrame'
    <3>1. \A x \in Channel : cl'.conn[x].saved \subseteq cl.conn[x].saved
      BY ZenonT(30), <2>6
    <3> QED  BY ZenonT(30), <1>1, <2>5, <3>1 DEF NoOrphanFrame
  <2> QED  BY ZenonT(30), <1>1, <2>5, <2>8, <2>9, <2>10 DEF Fits, Typed, OneCall
<1> QED  BY ZenonT(30), <1>2, <1>7, <1>8

-----------------------------------------------------------------------------
(* The theorems. *)

\* What is inductive: the types, the places of frames, and that no frame is orphaned.
IInv == TypeOK /\ CallInv /\ ThreadInv /\ NoOrphanFrame

\* The translator starts with no frame, and with a socket for every connection it has.
LEMMA InitInv == Init => IInv
PROOF
<1> SUFFICES ASSUME Init PROVE IInv
  BY ZenonT(30)
<1>1. NewCall \in CallState /\ NewCall.kind = "plain" /\ NewCall.st = "idle" /\ NewCall.net = "none"
  BY ZenonT(30) DEF NewCall, CallState, Channel
<1>2. NewFdctx \in FdState
  BY ZenonT(30) DEF NewFdctx, FdState
<1>3. NewConn \in ConnState /\ NewConn.saved = {}
  BY ZenonT(30), ConnectedAssumption DEF NewConn, ConnState
<1>4. /\ cl \in State /\ cl.call = [c \in Call |-> NewCall]
      /\ cl.conn = [ch \in Channel |-> NewConn]
  <2>1. /\ [c \in Call |-> NewCall] \in [Call -> CallState]
        /\ [f \in Fd |-> NewFdctx] \in [Fd -> FdState]
        /\ [ch \in Channel |-> NewConn] \in [Channel -> ConnState]
    BY ZenonT(30), <1>1, <1>2, <1>3
  <2>2. (IF Connected THEN "up" ELSE "none") \in {"none", "connecting", "up", "dead", "shut"}
    OBVIOUS
  <2>3. [ch \in Channel |-> IF Connected THEN "up" ELSE "none"]
          \in [Channel -> {"none", "connecting", "up", "dead", "shut"}]
    BY ZenonT(30), <2>2
  <2>4. /\ cl.call = [c \in Call |-> NewCall] /\ cl.conn = [ch \in Channel |-> NewConn]
    BY DEF Init
  <2>5. (IF Connected THEN "up" ELSE "none") \in {"none", "up", "down", "given up"}
    BY ZenonT(30)
  <2> HIDE DEF NewCall, NewFdctx, NewConn
  <2>6. cl \in State
    BY <2>1, <2>3, <2>5, ConnectedAssumption DEF Init, State
  <2> QED  BY ZenonT(30), <2>4, <2>6
<1>5. /\ ev \in EvThread /\ tm \in TmThread /\ connects \in Nat /\ ev.frames = {} /\ tm.frames = {}
      /\ ev.at = "idle"
  BY ZenonT(30) DEF Init, Idle, At, Thread, EvThread, TmThread, Channel
<1>6. \A c \in Call : cl.call[c] = NewCall
  BY ZenonT(30), <1>4
<1>7. \A ch \in Channel : cl.conn[ch].saved = {}
  BY ZenonT(30), <1>3, <1>4
<1>8. \A c \in Call : Spot(c) = {}
  BY ZenonT(30), <1>5, <1>7 DEF Spot, Places
<1>9. TypeOK
  BY ZenonT(30), <1>1, <1>4, <1>5, <1>6, Types
<1>10. CallInv
  BY ZenonT(30), <1>1, <1>6, <1>8 DEF CallInv, Single
<1> QED  BY ZenonT(30), <1>5, <1>7, <1>9, <1>10 DEF IInv, ThreadInv, NoOrphanFrame

\* Every step moves one call, or none.
LEMMA NextFits ==
  ASSUME IInv, [Next]_vars
  PROVE  Fits
PROOF
<1> USE DEF IInv
<1>1. ASSUME NEW c \in Call, Fop(c) \/ Transfer(c) \/ Done(c) \/ ReplyToCall(c) \/ Execute(c)
      PROVE  Fits
  BY ZenonT(30), <1>1, FopFits, TransferFits, DoneFits, ReplyFits, ExecuteFits
<1>2. ASSUME NEW f \in Fd, client_release(f) \/ client_releasedir(f) \/ Destroy(f) \/ OpenAgain(f)
      PROVE  Fits
  BY ZenonT(30), <1>2, ReleaseFits, OpenAgainFits
<1>3. ASSUME NEW f \in Fd, NEW ch \in Channel, ReplyToReopen(f, ch) \/ ReplyToRelease(f, ch)
      PROVE  Fits
  BY ZenonT(30), <1>3, DescriptorReplyFits
<1>4. ASSUME NEW ch \in Channel, EventThread(ch)
      PROVE  Fits
  BY ZenonT(30), <1>4, ConnectFits, SetvolumeFits, PingFits, PollErrFits, CleanupFits, UnwindFits,
     MarkDownFits, ReadTimerFits DEF EventThread
<1>5. ASSUME NEW ch \in Channel,
             \/ protocol_client_pollout(ch) \/ ReconnectTimer(ch) \/ call_bail(ch)
             \/ client_ping_timer_expired(ch) \/ PingTimer(ch) \/ LinkBreaks(ch)
      PROVE  Fits
  BY ZenonT(30), <1>5, TimersFit, CallBailFits, ExpiredFits, BreaksFits
<1>6. CASE ChildUp \/ TellParents \/ ParentUp \/ Bail \/ Disconnect \/ TimePasses
  BY ZenonT(30), <1>6, TellFits, ParentUpFits, BailFits, DisconnectFits, TimePassesFits
<1>7. CASE UNCHANGED vars
  <2>1. ev' = ev /\ tm' = tm /\ connects' = connects /\ cl' = cl
    BY ZenonT(30), <1>7 DEF vars
  <2>2. ev \in EvThread /\ tm \in TmThread /\ connects \in Nat /\ cl \in State
    BY ZenonT(30), Types
  <2>3. Aside(cl, cl')
    BY ZenonT(30), <2>1, <2>2 DEF Aside
  <2> QED  BY ZenonT(30), <2>1, <2>2, <2>3, AsideFits
<1> QED  BY ZenonT(30), <1>1, <1>2, <1>3, <1>4, <1>5, <1>6, <1>7 DEF Next

\* The invariant is inductive.
LEMMA NextInv == IInv /\ [Next]_vars => IInv'
PROOF
<1> SUFFICES ASSUME IInv, [Next]_vars PROVE IInv'
  OBVIOUS
<1>1. Fits
  BY NextFits
<1> QED  BY ZenonT(30), <1>1, FitsTypes, FitsCalls, ThreadNext DEF IInv, Fits

\* IInv holds in every state.
LEMMA Invariant == Spec => []IInv
BY InitInv, NextInv, PTL DEF Spec

(* The state of the translator, of its two threads, its connections and      *)
(* descriptors is of its type in every state, and a call that waits for an   *)
(* open carries its descriptor.                                              *)
THEOREM ClientTyped == Spec => []TypeOK
PROOF
<1>1. IInv => TypeOK
  BY DEF IInv
<1> QED  BY <1>1, Invariant, PTL

(* FramesAccounted, for any calls and descriptors, any number of reconnects, *)
(* with and without timers: a call waits exactly while its frame is in one   *)
(* place, whichever of the caller, the event thread (replies, POLLERR,       *)
(* saved_frames_unwind) and the timer thread (call_bail) comes first, and a  *)
(* saved frame has a socket that will answer it or fail it.                  *)
THEOREM FramesKept == Spec => []FramesAccounted
PROOF
<1>1. ASSUME IInv PROVE FramesAccounted
  <2>1. ASSUME NEW c \in Call
        PROVE  Single(Spot(c)) /\ (cl.call[c].st = "saved" <=> Spot(c) # {})
    BY <1>1 DEF IInv, CallInv
  <2> QED  BY ZenonT(30), <1>1, <2>1 DEF IInv, FramesAccounted, WaitsWhileSaved, Spot
<1> QED  BY <1>1, Invariant, PTL

(* Every step of the client, its threads, its timers and the network is a    *)
(* step of RemoteCall or changes nothing RemoteCall speaks of: however       *)
(* connections break, frames time out and replies come late, a call is       *)
(* executed at most once, answered once, and answered well only after it was *)
(* executed.                                                                 *)
THEOREM RefinesRemoteCall == Spec => StepsOfRemoteCall
PROOF
<1>1. IInv /\ [Next]_vars => [Promise!Next]_(Promise!vars)
  <2> SUFFICES ASSUME IInv, [Next]_vars PROVE [Promise!Next]_(Promise!vars)
    BY ZenonT(30)
  <2>1. Fits
    BY NextFits
  <2> QED  BY ZenonT(30), <2>1, FitsPromise DEF IInv
<1> QED  BY <1>1, Invariant, PTL DEF Spec, StepsOfRemoteCall

(* Together with this, the initial state: no call has been taken.            *)
THEOREM StartsAsRemoteCall == Init => Promise!Init
PROOF
<1> SUFFICES ASSUME Init PROVE Promise!Init
  OBVIOUS
<1>1. \A c \in Call : cl.call[c].st = "idle" /\ cl.call[c].net = "none"
  BY ZenonT(30) DEF Init, NewCall
<1>2. Phase = [c \in Call |-> "idle"] /\ Effect = {}
  BY <1>1 DEF Phase, Effect, Active
<1> QED  BY <1>2 DEF Promise!Init
=============================================================================
