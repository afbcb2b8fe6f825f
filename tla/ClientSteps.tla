---------------------------- MODULE ClientSteps -----------------------------
(***************************************************************************)
(* protocol/client: what a step may do to calls and their frames, that the *)
(* invariant and the refinement of RemoteCall follow from it, and the      *)
(* steps that only move frames about.                                      *)
(***************************************************************************)
EXTENDS ClientLemmas

EvThread == [at : {"idle", "reopen", "cleanup", "unwind", "stored", "loaded", "tell"},
             ch : Channel, frames : SUBSET FrameSet, read : BOOLEAN]

TmThread == [at : {"idle", "bail", "disconnect"}, ch : Channel, frames : SUBSET FrameSet,
             read : {FALSE}]

\* Where the frame of call c waits.
Spot(c) == Places(Mine(c))

(* The strengthening: a call has a message only once it was sent, an answer  *)
(* of the server's leaves none, and the frame of a call that waits, and of   *)
(* no other, is at one place.                                                *)
CallInv ==
  \A c \in Call :
    /\ cl.call[c].st \in {"idle", "chosen"} => cl.call[c].net = "none"
    /\ cl.call[c].st = "served" => cl.call[c].net = "over"
    /\ cl.call[c].st = "saved" <=> Spot(c) # {}
    /\ Single(Spot(c))

\* Frames are in the hands of a thread only while it reopens, unwinds or bails out.
ThreadInv ==
  /\ ev.frames # {} => ev.at \in {"unwind", "reopen"}
  /\ ev.at = "reopen" => ev.frames \subseteq {Reopen(f) : f \in Fd}
  /\ tm.frames # {} => tm.at = "bail"

\* The call does not move on: its message may be lost, its frame be taken elsewhere.
Still(d) ==
  /\ cl'.call[d].st = cl.call[d].st /\ cl'.call[d].kind = cl.call[d].kind
  /\ cl'.call[d].fd = cl.call[d].fd
  /\ \/ cl'.call[d].net = cl.call[d].net
     \/ cl.call[d].net = "req" /\ cl'.call[d].net = "late"
     \/ cl.call[d].net = "rsp" /\ cl'.call[d].net = "over"
  /\ Spot(d)' # {} <=> Spot(d) # {}
  /\ Single(Spot(d)) => Single(Spot(d)')

\* What a step does with the call that it is about.
Taken(c) ==
  /\ cl.call[c].st = "idle" /\ cl'.call[c].st \in {"chosen", "failed"}
  /\ cl'.call[c].net = cl.call[c].net /\ Spot(c)' = Spot(c)

NotSent(c) ==
  /\ cl.call[c].st = "chosen" /\ cl'.call[c].st = "failed"
  /\ cl'.call[c].net = cl.call[c].net /\ Spot(c)' = Spot(c)

IsSent(c) ==
  /\ cl.call[c].st = "chosen" /\ cl'.call[c].st = "saved"
  /\ cl'.call[c].net = "req" /\ \E p : Spot(c)' = Spot(c) \cup {p}

Executed(c) ==
  /\ cl'.call[c].st = cl.call[c].st /\ Spot(c)' = Spot(c)
  /\ \/ cl.call[c].net = "req" /\ cl'.call[c].net = "rsp"
     \/ cl.call[c].net = "late" /\ cl'.call[c].net = "over"

Answered(c) ==
  /\ \E p \in Spot(c) : Spot(c)' = Spot(c) \ {p}
  /\ \/ /\ cl'.call[c].st = "failed"
        /\ \/ cl'.call[c].net = cl.call[c].net
           \/ cl.call[c].net = "rsp" /\ cl'.call[c].net = "over"
     \/ cl'.call[c].st = "served" /\ cl.call[c].net = "rsp" /\ cl'.call[c].net = "over"

Forgotten(c) ==
  /\ cl.call[c].st \in {"served", "failed"} /\ cl'.call[c].st = "idle"
  /\ cl.call[c].net \in {"none", "over"} /\ cl'.call[c].net = "none"
  /\ Spot(c)' = Spot(c)

Acts(c) ==
  /\ \/ cl'.call[c].kind = cl.call[c].kind /\ cl'.call[c].fd = cl.call[c].fd
     \/ cl'.call[c].kind \notin {"open", "opendir"}
     \/ cl'.call[c].fd \in Fd
  /\ \/ Taken(c) \/ NotSent(c) \/ IsSent(c) \/ Executed(c) \/ Answered(c) \/ Forgotten(c)

\* A step is about one call at most.
OneCall ==
  \/ \A d \in Call : Still(d)
  \/ \E c \in Call : Acts(c) /\ \A d \in Call \ {c} : Still(d)

Typed == cl' \in State /\ ev' \in EvThread /\ tm' \in TmThread /\ connects' \in Nat

\* What is shown of every step.
Fits == Typed /\ OneCall /\ NoOrphanFrame'
-----------------------------------------------------------------------------
(* The invariant and the refinement, from that. *)

\* The places of the event thread.
LEMMA EvPlaces ==
  ASSUME NEW a \in {"idle", "reopen", "cleanup", "unwind", "stored", "loaded", "tell"},
         NEW x \in Channel, NEW F \in SUBSET FrameSet, NEW r \in BOOLEAN
  PROVE  Thread(a, x, F, r) \in EvThread /\ At(a, x) \in EvThread
BY DEF EvThread, Thread, At

\* TypeOK, in the words of this module.
LEMMA Types ==
  TypeOK <=> /\ cl \in State /\ ev \in EvThread /\ tm \in TmThread /\ connects \in Nat
             /\ \A c \in Call : cl.call[c].kind \in {"open", "opendir"} => cl.call[c].fd \in Fd
BY ZenonT(30) DEF TypeOK, EvThread, TmThread

\* The types are kept.
LEMMA FitsTypes ==
  ASSUME TypeOK, Fits
  PROVE  TypeOK'
PROOF
<1>1. \A c \in Call : cl'.call[c].kind \in {"open", "opendir"} => cl'.call[c].fd \in Fd
  BY DEF TypeOK, Fits, OneCall, Still, Acts
<1> QED  BY ZenonT(30), <1>1 DEF Fits, Typed, TypeOK, EvThread, TmThread

\* CallInv is kept.
LEMMA FitsCalls ==
  ASSUME TypeOK, CallInv, Fits
  PROVE  CallInv'
PROOF
<1>1. ASSUME NEW d \in Call, Still(d)
      PROVE  /\ cl'.call[d].st \in {"idle", "chosen"} => cl'.call[d].net = "none"
             /\ cl'.call[d].st = "served" => cl'.call[d].net = "over"
             /\ cl'.call[d].st = "saved" <=> Spot(d)' # {}
             /\ Single(Spot(d)')
  BY ZenonT(30), <1>1 DEF CallInv, Still
<1>2. ASSUME NEW c \in Call, Acts(c)
      PROVE  /\ cl'.call[c].st \in {"idle", "chosen"} => cl'.call[c].net = "none"
             /\ cl'.call[c].st = "served" => cl'.call[c].net = "over"
             /\ cl'.call[c].st = "saved" <=> Spot(c)' # {}
             /\ Single(Spot(c)')
  <2>1. CASE Taken(c)
    BY <2>1 DEF CallInv, Taken
  <2>2. CASE NotSent(c)
    BY <2>2 DEF CallInv, NotSent
  <2>3. CASE IsSent(c)
    BY ZenonT(30), <2>3 DEF CallInv, IsSent, Single
  <2>4. CASE Executed(c)
    BY ZenonT(30), <2>4 DEF CallInv, Executed
  <2>5. CASE Answered(c)
    BY <2>5 DEF CallInv, Answered, Single
  <2>6. CASE Forgotten(c)
    BY <2>6 DEF CallInv, Forgotten
  <2> QED  BY ZenonT(30), <1>2, <2>1, <2>2, <2>3, <2>4, <2>5, <2>6 DEF Acts
<1>3. \A c \in Call :
             /\ cl'.call[c].st \in {"idle", "chosen"} => cl'.call[c].net = "none"
             /\ cl'.call[c].st = "served" => cl'.call[c].net = "over"
             /\ cl'.call[c].st = "saved" <=> Spot(c)' # {}
             /\ Single(Spot(c)')
  BY ZenonT(30), <1>1, <1>2 DEF Fits, OneCall
<1> QED  BY ZenonT(30), <1>3 DEF CallInv

\* ThreadInv is kept.
LEMMA ThreadNext == TypeOK /\ ThreadInv /\ [Next]_vars => ThreadInv'
PROOF
<1> SUFFICES ASSUME TypeOK, ThreadInv, [Next]_vars PROVE ThreadInv'
  OBVIOUS
<1>1. ev \in EvThread /\ tm \in TmThread
  BY Types
<1>2. ASSUME NEW c \in Call, Fop(c) \/ Transfer(c) \/ Done(c) \/ ReplyToCall(c) \/ Execute(c)
      PROVE  ThreadInv'
  <2>1. ev' = ev /\ tm' = tm
    BY <1>2 DEF Fop, Transfer, Done, ReplyToCall, Execute, Rest, EvIdle
  <2> QED  BY ZenonT(30), <2>1 DEF ThreadInv
<1>3. ASSUME NEW f \in Fd, \/ client_release(f) \/ client_releasedir(f) \/ Destroy(f)
                           \/ \E ch \in Channel : ReplyToReopen(f, ch) \/ ReplyToRelease(f, ch)
      PROVE  ThreadInv'
  <2>1. ev' = ev /\ tm' = tm
    BY ZenonT(30), <1>3 DEF client_release, client_releasedir, Close, Destroy, ReplyToReopen, ReplyToRelease,
                Rest, EvIdle
  <2> QED  BY <2>1 DEF ThreadInv
<1>4. ASSUME NEW f \in Fd, OpenAgain(f) PROVE ThreadInv'
  <2>1. ev.at = "reopen" /\ ev' = [ev EXCEPT !.frames = @ \ {Reopen(f)}] /\ tm' = tm
    BY <1>4 DEF OpenAgain
  <2>2. ev'.at = ev.at /\ ev'.frames = ev.frames \ {Reopen(f)}
    BY <1>1, <2>1 DEF EvThread
  <2> QED  BY <2>1, <2>2 DEF ThreadInv
<1>5. ASSUME NEW ch \in Channel, \/ socket_connect_finish(ch) \/ ReplyToPing(ch)
                                \/ protocol_client_pollout(ch) \/ ReconnectTimer(ch)
                                \/ PingTimer(ch) \/ LinkBreaks(ch)
      PROVE  ThreadInv'
  <2>1. ev' = ev /\ tm' = tm
    BY ZenonT(30), <1>5 DEF socket_connect_finish, ReplyToPing, protocol_client_pollout, ReconnectTimer,
                PingTimer, LinkBreaks, Rest, EvIdle, TmIdle
  <2> QED  BY ZenonT(30), <2>1 DEF ThreadInv
<1>6. ASSUME NEW ch \in Channel, ReplyToSetvolume(ch) PROVE ThreadInv'
  <2>1. /\ tm' = tm
        /\ \/ ev' = Idle
           \/ \E F \in SUBSET {Reopen(f) : f \in Fd} : ev' = Thread("reopen", ch, F, FALSE)
    <3> DEFINE bad == {f \in Fd : cl.fd[f].listed /\ cl.fd[f].remote = 0}
    <3>1. {Reopen(f) : f \in bad} \in SUBSET {Reopen(f) : f \in Fd}
      OBVIOUS
    <3>2. tm' = tm /\ (ev' = Idle \/ ev' = Thread("reopen", ch, {Reopen(f) : f \in bad}, FALSE))
      BY ZenonT(30), <1>6 DEF ReplyToSetvolume
    <3> HIDE DEF bad
    <3> QED  BY ZenonT(30), <3>1, <3>2
  <2> QED  BY <2>1 DEF ThreadInv, Idle, At, Thread
<1>7. ASSUME NEW ch \in Channel, PollErr(ch) \/ protocol_client_cleanup(ch) \/ MarkDown(ch)
                                \/ ReadTimer(ch)
      PROVE  ThreadInv'
  <2>1. tm' = tm
    BY ZenonT(30), <1>7 DEF PollErr, protocol_client_cleanup, MarkDown, ReadTimer
  <2>2. ev'.at # "reopen" /\ (ev'.frames = {} \/ ev'.at = "unwind")
    <3>1. \/ ev' = At("cleanup", ch) \/ ev' = At("stored", ch)
          \/ \E F : ev' = Thread("unwind", ch, F, FALSE)
          \/ \E r : ev' = Thread("tell", ch, {}, r) \/ ev' = Thread("loaded", ch, {}, r)
      BY ZenonT(30), <1>7 DEF PollErr, protocol_client_cleanup, MarkDown, ReadTimer
    <3> QED  BY <3>1 DEF At, Thread
  <2> QED  BY <2>1, <2>2 DEF ThreadInv
<1>8. ASSUME NEW ch \in Channel, saved_frames_unwind(ch) PROVE ThreadInv'
  <2>1. ev.at = "unwind" /\ tm' = tm /\ \E fr \in ev.frames : ev' = [ev EXCEPT !.frames = @ \ {fr}]
    BY ZenonT(30), <1>8 DEF saved_frames_unwind
  <2>2. ev'.at = "unwind"
    BY <1>1, <2>1 DEF EvThread
  <2> QED  BY <2>1, <2>2 DEF ThreadInv
<1>9. ASSUME NEW ch \in Channel, call_bail(ch) \/ client_ping_timer_expired(ch) PROVE ThreadInv'
  BY <1>9 DEF call_bail, client_ping_timer_expired, TmIdle, ThreadInv, At, Thread
<1>10. CASE Bail
  <2>1. ev' = ev /\ tm.at = "bail" /\ \E fr : tm' = Idle \/ tm' = [tm EXCEPT !.frames = @ \ {fr}]
    BY ZenonT(30), <1>10 DEF Bail
  <2>2. tm'.frames # {} => tm'.at = "bail"
    BY <1>1, <2>1 DEF TmThread, Idle, At, Thread
  <2> QED  BY ZenonT(30), <2>1, <2>2 DEF ThreadInv
<1>11. CASE ChildUp \/ TellParents \/ ParentUp \/ Disconnect \/ TimePasses
  BY <1>11 DEF ChildUp, TellParents, ParentUp, Disconnect, TimePasses, Rest, ThreadInv, Idle, At,
               Thread
<1>12. CASE UNCHANGED vars
  BY <1>12 DEF vars, ThreadInv
<1> QED  BY ZenonT(30), <1>2, <1>3, <1>4, <1>5, <1>6, <1>7, <1>8, <1>9, <1>10, <1>11, <1>12 DEF Next, EventThread

\* The phase of a call that stays, and whether it was executed.
LEMMA StillPhase ==
  ASSUME NEW d \in Call, Still(d)
  PROVE  Phase'[d] = Phase[d] /\ (d \in Effect' <=> d \in Effect)
BY DEF Still, Phase, Effect, Active

\* The step is one of RemoteCall's.
LEMMA FitsPromise ==
  ASSUME TypeOK, CallInv, Fits
  PROVE  [Promise!Next]_(Promise!vars)
PROOF
<1>1. CASE \A d \in Call : Still(d)
  <2>1. Phase' = Phase
    BY ZenonT(30), <1>1, StillPhase DEF Phase
  <2>2. Effect' = Effect
    BY ZenonT(30), <1>1, StillPhase DEF Effect
  <2> QED  BY <2>1, <2>2 DEF Promise!vars
<1>2. ASSUME NEW c \in Call, Acts(c), \A d \in Call \ {c} : Still(d)
      PROVE  [Promise!Next]_(Promise!vars)
  <2>1. \A d \in Call \ {c} : Phase'[d] = Phase[d] /\ (d \in Effect' <=> d \in Effect)
    BY ZenonT(30), <1>2, StillPhase
  <2>2. /\ Phase'[c] = IF cl'.call[c].st \in {"chosen", "saved"} THEN "pending" ELSE cl'.call[c].st
        /\ Phase[c] = IF cl.call[c].st \in {"chosen", "saved"} THEN "pending" ELSE cl.call[c].st
        /\ c \in Effect' <=> cl'.call[c].net \in {"rsp", "over"}
        /\ c \in Effect <=> cl.call[c].net \in {"rsp", "over"}
    BY DEF Phase, Effect, Active
  <2>3. Phase' = [Phase EXCEPT ![c] = Phase'[c]]
    BY ZenonT(30), <2>1 DEF Phase
  <2>4. Effect \subseteq Call /\ Effect' \subseteq Call
    BY DEF Effect
  <2>5. /\ c \in Effect /\ c \in Effect' => Effect' = Effect
        /\ c \notin Effect /\ c \notin Effect' => Effect' = Effect
        /\ c \in Effect' => Effect' = Effect \cup {c}
        /\ c \notin Effect' => Effect' = Effect \ {c}
    BY <2>1, <2>4
  <2>6. Phase'[c] = Phase[c] => Phase' = Phase
    BY <2>1 DEF Phase
  <2>7. CASE Taken(c)
    <3>1. Effect' = Effect
      BY ZenonT(30), <2>2, <2>5, <2>7 DEF Taken
    <3>2. Phase[c] = "idle" /\ Phase'[c] \in {"pending", "failed"}
      BY ZenonT(30), <2>2, <2>7 DEF Taken
    <3>3. Promise!Submit(c) \/ Promise!Refuse(c)
      BY ZenonT(30), <2>3, <3>1, <3>2 DEF Promise!Submit, Promise!Refuse
    <3> QED  BY ZenonT(30), <3>3 DEF Promise!Next
  <2>8. CASE NotSent(c) \/ (Answered(c) /\ cl'.call[c].st = "failed")
    <3>1. Effect' = Effect
      BY ZenonT(30), <2>2, <2>5, <2>8 DEF NotSent, Answered
    <3>2. Phase[c] = "pending" /\ Phase'[c] = "failed"
      BY ZenonT(30), <2>2, <2>8 DEF NotSent, Answered, CallInv
    <3>3. Phase' = [d \in Call |-> IF d \in {c} THEN "failed" ELSE Phase[d]]
      BY ZenonT(30), <2>3, <3>2 DEF Phase
    <3>4. {c} \in SUBSET {d \in Call : Phase[d] = "pending"}
      BY <3>2
    <3>5. Promise!Fail(c)
      BY ZenonT(30), <3>1, <3>3, <3>4 DEF Promise!Fail
    <3> QED  BY ZenonT(30), <3>5 DEF Promise!Next
  <2>9. CASE IsSent(c)
    <3>1. Effect' = Effect
      BY ZenonT(30), <2>2, <2>5, <2>9 DEF IsSent, CallInv
    <3>2. Phase' = Phase
      BY ZenonT(30), <2>2, <2>6, <2>9 DEF IsSent
    <3> QED  BY ZenonT(30), <3>1, <3>2 DEF Promise!vars
  <2>10. CASE Executed(c)
    <3>1. Phase' = Phase
      BY ZenonT(30), <2>2, <2>6, <2>10 DEF Executed
    <3>2. c \notin Effect /\ Effect' = Effect \cup {c}
      BY ZenonT(30), <2>2, <2>5, <2>10 DEF Executed
    <3>3. cl.call[c].st \in {"saved", "failed"}
      <4>1. cl.call[c].st \in {"idle", "chosen", "saved", "served", "failed"}
        BY ZenonT(30), StateParts DEF TypeOK, CallState
      <4> QED  BY ZenonT(30), <2>10, <4>1 DEF Executed, CallInv
    <3>4. Phase[c] \in {"pending", "failed"}
      BY <2>2, <3>3
    <3>5. Promise!Execute(c)
      BY ZenonT(30), <3>1, <3>2, <3>4 DEF Promise!Execute
    <3> QED  BY ZenonT(30), <3>5 DEF Promise!Next
  <2>11. CASE Answered(c) /\ cl'.call[c].st = "served"
    <3>1. Effect' = Effect /\ c \in Effect
      BY ZenonT(30), <2>2, <2>5, <2>11 DEF Answered
    <3>2. Phase[c] = "pending" /\ Phase'[c] = "served"
      BY ZenonT(30), <2>2, <2>11 DEF Answered, CallInv
    <3>3. Promise!Serve(c)
      BY ZenonT(30), <2>3, <3>1, <3>2 DEF Promise!Serve
    <3> QED  BY ZenonT(30), <3>3 DEF Promise!Next
  <2>12. CASE Forgotten(c)
    <3>1. Phase[c] \in {"served", "failed"} /\ Phase'[c] = "idle"
      BY ZenonT(30), <2>2, <2>12 DEF Forgotten
    <3>2. Effect' = Effect \ {c}
      BY ZenonT(30), <2>2, <2>5, <2>12 DEF Forgotten
    <3>3. Promise!Forget(c)
      BY ZenonT(30), <2>3, <3>1, <3>2 DEF Promise!Forget
    <3> QED  BY ZenonT(30), <3>3 DEF Promise!Next
  <2> QED  BY ZenonT(30), <1>2, <2>7, <2>8, <2>9, <2>10, <2>11, <2>12 DEF Acts, Answered
<1> QED  BY <1>1, <1>2 DEF Fits, OneCall

-----------------------------------------------------------------------------
(* The steps that are about no call. *)

\* The frame of d is where it was.
LEMMA SpotKept ==
  ASSUME NEW d \in Call,
         \A x \in Channel : Mine(d) \in cl'.conn[x].saved <=> Mine(d) \in cl.conn[x].saved,
         Mine(d) \in ev'.frames <=> Mine(d) \in ev.frames,
         Mine(d) \in tm'.frames <=> Mine(d) \in tm.frames
  PROVE  Spot(d)' = Spot(d)
BY ZenonT(30) DEF Spot, Places

\* The frames of the client's own.
OwnFrames == {Setvolume, Ping} \cup {Reopen(f) : f \in Fd} \cup {Release(f) : f \in Fd}

\* No call is touched nor the frame of one, and other frames go where a socket is.
Aside(s, t) ==
  /\ s \in State /\ t \in State /\ t.call = s.call
  /\ \A x \in Channel :
       /\ \A d \in Call : Mine(d) \in t.conn[x].saved <=> Mine(d) \in s.conn[x].saved
       /\ t.conn[x].saved # {} => s.conn[x].saved # {} \/ s.sock[x] \in {"up", "dead"}
       /\ t.sock[x] = s.sock[x] \/ (s.sock[x] = "none" /\ t.sock[x] = "connecting")

\* One such step after another.
LEMMA AsideTwice ==
  ASSUME NEW s, NEW t, NEW u, Aside(s, t), Aside(t, u)
  PROVE  Aside(s, u)
BY ZenonT(30) DEF Aside

\* The client sends frames of its own.
LEMMA OwnAside ==
  ASSUME NEW s, NEW t, NEW F, F \subseteq OwnFrames, Own(s, t, F)
  PROVE  Aside(s, t)
PROOF
<1>1. \A d \in Call : Mine(d) \notin F
  BY MineOnly DEF OwnFrames
<1> QED  BY <1>1 DEF Own, Aside, SameRest

\* The calls and their frames are where they were.
LEMMA AsideCalls ==
  ASSUME Aside(cl, cl'),
         \A d \in Call : /\ Mine(d) \in ev'.frames <=> Mine(d) \in ev.frames
                         /\ Mine(d) \in tm'.frames <=> Mine(d) \in tm.frames
  PROVE  OneCall
PROOF
<1>1. ASSUME NEW d \in Call PROVE Still(d)
  <2>1. Spot(d)' = Spot(d)
    BY ZenonT(30), SpotKept DEF Aside
  <2> QED  BY ZenonT(30), <2>1 DEF Still, Aside
<1> QED  BY ZenonT(30), <1>1 DEF OneCall

\* A frame that is sent has a socket.
LEMMA AsideSockets ==
  ASSUME Aside(cl, cl'), NoOrphanFrame, ev' = ev \/ \A x \in Channel : ev # At("cleanup", x)
  PROVE  NoOrphanFrame'
PROOF
<1> SUFFICES ASSUME NEW x \in Channel, cl'.conn[x].saved # {}
             PROVE  cl'.sock[x] \in {"up", "dead", "shut"} \/ ev' = At("cleanup", x)
  BY ZenonT(30) DEF NoOrphanFrame
<1>1. CASE cl.conn[x].saved # {}
  BY ZenonT(30), <1>1 DEF NoOrphanFrame, Aside
<1>2. CASE cl.sock[x] \in {"up", "dead"}
  BY ZenonT(30), <1>2 DEF Aside
<1> QED  BY ZenonT(30), <1>1, <1>2 DEF Aside

\* Such a step, the event thread staying where it is or having no call's frame.
LEMMA AsideFits ==
  ASSUME TypeOK, NoOrphanFrame, Aside(cl, cl'),
         \/ ev' = ev
         \/ /\ \A d \in Call : Mine(d) \notin ev.frames /\ Mine(d) \notin ev'.frames
            /\ \A x \in Channel : ev # At("cleanup", x),
         ev' \in EvThread,
         \A d \in Call : Mine(d) \in tm'.frames <=> Mine(d) \in tm.frames,
         tm' \in TmThread, connects' \in Nat
  PROVE  Fits
PROOF
<1>1. OneCall
  <2>1. \A d \in Call : /\ Mine(d) \in ev'.frames <=> Mine(d) \in ev.frames
                        /\ Mine(d) \in tm'.frames <=> Mine(d) \in tm.frames
    BY ZenonT(30)
  <2> QED  BY ZenonT(30), <2>1, AsideCalls
<1>2. NoOrphanFrame'
  BY ZenonT(30), AsideSockets
<1> QED  BY ZenonT(30), <1>1, <1>2 DEF Fits, Typed, Aside

\* A step of the client's own, the threads staying where they are.
LEMMA OwnFits ==
  ASSUME TypeOK, NoOrphanFrame, NEW F, F \subseteq OwnFrames, Own(cl, cl', F),
         ev' = ev, tm' = tm, connects' = connects
  PROVE  Fits
BY ZenonT(30), OwnAside, AsideFits, Types

\* client_release, client_releasedir and what follows them.
LEMMA ReleaseFits ==
  ASSUME TypeOK, NoOrphanFrame, NEW f \in Fd, client_release(f) \/ client_releasedir(f) \/ Destroy(f)
  PROVE  Fits
PROOF
<1>1. cl \in State
  BY ZenonT(30) DEF TypeOK
<1>2. ev' = ev /\ tm' = tm /\ connects' = connects
  BY DEF client_release, client_releasedir, Close, Destroy, Rest
<1>3. {Release(f), Ping} \subseteq OwnFrames
  BY DEF OwnFrames
<1>4. CASE Destroy(f)
  <2>1. PICK k \in BOOLEAN : cl' = client_fdctx_destroy(cl, f, k)
    BY ZenonT(30), <1>4 DEF Destroy
  <2>2. Own(cl, cl', {Release(f), Ping})
    BY ZenonT(30), <1>1, <2>1, DestroyStep
  <2> QED  BY ZenonT(30), <1>2, <1>3, <2>2, OwnFits
<1>5. CASE Close(f)
  <2>1. \E r \in FdState : cl' = WithFd(cl, f, r)
    <3>1. cl.fd[f] \in FdState
      BY <1>1, StateParts
    <3>2. /\ [cl.fd[f] EXCEPT !.st = "dropped", !.listed = FALSE] \in FdState
          /\ [cl.fd[f] EXCEPT !.st = "released"] \in FdState
      BY ZenonT(30), <3>1 DEF FdState
    <3> QED  BY ZenonT(30), <1>5, <3>2 DEF Close, WithFd
  <2>2. PICK r \in FdState : cl' = WithFd(cl, f, r)
    BY ZenonT(30), <2>1
  <2>3. Own(cl, cl', {Release(f), Ping})
    BY ZenonT(30), <1>1, <2>2, OwnFd
  <2> QED  BY <1>2, <1>3, <2>3, OwnFits
<1> QED  BY ZenonT(30), <1>4, <1>5 DEF client_release, client_releasedir

\* The bad handles are opened again.
LEMMA OpenAgainFits ==
  ASSUME TypeOK, NoOrphanFrame, NEW f \in Fd, OpenAgain(f)
  PROVE  Fits
PROOF
<1>1. cl \in State /\ ev \in EvThread /\ tm \in TmThread /\ connects \in Nat
  BY Types
<1>2. /\ ev.at = "reopen" /\ ev' = [ev EXCEPT !.frames = @ \ {Reopen(f)}] /\ tm' = tm
      /\ connects' = connects
  BY DEF OpenAgain
<1>3. PICK path, k \in BOOLEAN : \/ cl' = protocol_client_reopen(cl, f, path, k)
                                 \/ cl' = protocol_client_reopendir(cl, f, path, k)
  BY DEF OpenAgain
<1>4. Own(cl, cl', {Reopen(f), Release(f), Ping})
  BY ZenonT(30), <1>1, <1>3, ReopenStep
<1>5. {Reopen(f), Release(f), Ping} \subseteq OwnFrames
  BY DEF OwnFrames
<1>6. ev' \in EvThread /\ ev'.frames = ev.frames \ {Reopen(f)}
  BY ZenonT(30), <1>1, <1>2 DEF EvThread
<1>7. Aside(cl, cl')
  BY ZenonT(30), <1>4, <1>5, OwnAside
<1>8. OneCall
  BY ZenonT(30), <1>2, <1>6, <1>7, AsideCalls, MineOnly
<1>9. NoOrphanFrame'
  BY <1>2, <1>7, AsideSockets DEF At, Thread
<1> QED  BY ZenonT(30), <1>1, <1>2, <1>6, <1>7, <1>8, <1>9 DEF Fits, Typed, Aside

\* The record of one connection is replaced, and frames of the client's own dropped.
LEMMA ConnAside ==
  ASSUME NEW s \in State, NEW ch \in Channel, NEW r \in ConnState,
         r.saved \subseteq s.conn[ch].saved,
         \A d \in Call : Mine(d) \in s.conn[ch].saved => Mine(d) \in r.saved,
         NEW t, t = WithConn(s, ch, r)
  PROVE  Aside(s, t) /\ t \in State /\ t.fd = s.fd /\ t.conn[ch] = r
PROOF
<1>1. /\ t \in State
      /\ t.call = s.call /\ t.fd = s.fd /\ t.sock = s.sock /\ t.started = s.started
      /\ t.quiet = s.quiet /\ t.view = s.view /\ t.session = s.session /\ t.half = s.half
      /\ t.missed = s.missed
      /\ t.conn[ch] = r /\ \A x \in Channel \ {ch} : t.conn[x] = s.conn[x]
  BY ConnUpdate
<1>2. ASSUME NEW x \in Channel
      PROVE  /\ \A d \in Call : Mine(d) \in t.conn[x].saved <=> Mine(d) \in s.conn[x].saved
             /\ t.conn[x].saved \subseteq s.conn[x].saved
  BY ZenonT(30), <1>1
<1> QED  BY ZenonT(30), <1>1, <1>2 DEF Aside

\* protocol_client_pollin.
LEMMA PollinAside ==
  ASSUME NEW s \in State, NEW t, t = protocol_client_pollin(s)
  PROVE  Aside(s, t) /\ t \in State /\ t.fd = s.fd /\ t.conn = s.conn
PROOF
<1> DEFINE b == FALSE
<1>1. b \in BOOLEAN /\ t = [s EXCEPT !.quiet = b]
  BY DEF protocol_client_pollin
<1> HIDE DEF b
<1>2. SameRest(s, t) /\ t.call = s.call /\ t.fd = s.fd /\ t.sock = s.sock /\ t.conn = s.conn
  BY <1>1, QuietUpdate
<1> QED  BY <1>2 DEF Aside, SameRest

\* lookup_frame of a frame of the client's own.
LEMMA LookupAside ==
  ASSUME NEW s \in State, NEW ch \in Channel, NEW fr \in OwnFrames, NEW t, t = lookup_frame(s, ch, fr)
  PROVE  Aside(s, t) /\ t \in State /\ t.fd = s.fd
PROOF
<1> DEFINE r == [s.conn[ch] EXCEPT !.saved = @ \ {fr}]
<1>1. s.conn[ch] \in ConnState
  BY ZenonT(30), StateParts
<1>2. r \in ConnState /\ r.saved = s.conn[ch].saved \ {fr}
  BY <1>1 DEF ConnState
<1>3. t = WithConn(s, ch, r)
  BY ZenonT(30) DEF lookup_frame, WithConn
<1> HIDE DEF r
<1>4. \A d \in Call : Mine(d) \in s.conn[ch].saved => Mine(d) \in r.saved
  BY <1>2, MineOnly DEF OwnFrames
<1> QED  BY <1>2, <1>3, <1>4, ConnAside

\* The record of one descriptor is replaced.
LEMMA FdAside ==
  ASSUME NEW s \in State, NEW f \in Fd, NEW r \in FdState, NEW t, t = WithFd(s, f, r)
  PROVE  Aside(s, t) /\ t \in State /\ t.conn = s.conn
PROOF
<1>1. /\ t \in State
      /\ t.call = s.call /\ t.conn = s.conn /\ t.sock = s.sock
  BY FdUpdate
<1> QED  BY ZenonT(30), <1>1 DEF Aside

\* The records of all descriptors are replaced.
LEMMA FdsAside ==
  ASSUME NEW s \in State, NEW g \in [Fd -> FdState], NEW t, t = [s EXCEPT !.fd = g]
  PROVE  Aside(s, t) /\ t \in State /\ t.conn = s.conn
PROOF
<1>1. t \in State /\ t.call = s.call /\ t.conn = s.conn /\ t.sock = s.sock
  BY ZenonT(30) DEF State
<1> QED  BY <1>1 DEF Aside

\* client_setvolume_cbk.
LEMMA SetvolumeAside ==
  ASSUME NEW s \in State, NEW ch \in Channel, NEW r, NEW t, t = client_setvolume_cbk(s, ch, r)
  PROVE  Aside(s, t)
PROOF
<1>1. CASE r = "err"
  BY <1>1 DEF client_setvolume_cbk, Aside
<1>2. CASE r # "err"
  <2> DEFINE q == [s.conn[ch] EXCEPT !.connected = TRUE]
             u == WithConn(s, ch, q)
             g == [f \in Fd |-> [u.fd[f] EXCEPT !.listed = @ /\ u.fd[f].remote # 0]]
  <2>1. q \in ConnState /\ q.saved = s.conn[ch].saved
    <3>1. s.conn[ch] \in ConnState
      BY StateParts
    <3> QED  BY ZenonT(30), <3>1 DEF ConnState
  <2>2. Aside(s, u) /\ u \in State
    <3> HIDE DEF q
    <3> QED  BY <2>1, ConnAside
  <2>3. t = [u EXCEPT !.fd = g]
    BY <1>2 DEF client_setvolume_cbk, protocol_client_post_handshake, WithConn
  <2> HIDE DEF u
  <2>4. g \in [Fd -> FdState]
    <3>1. \A f \in Fd : u.fd[f] \in FdState
      BY <2>2, StateParts
    <3>2. \A f \in Fd : [u.fd[f] EXCEPT !.listed = @ /\ u.fd[f].remote # 0] \in FdState
      BY ZenonT(30), <3>1 DEF FdState
    <3> QED  BY <3>2
  <2> HIDE DEF g
  <2>5. Aside(u, t)
    BY <2>2, <2>3, <2>4, FdsAside
  <2> QED  BY ZenonT(30), <2>2, <2>5, AsideTwice
<1> QED  BY ZenonT(30), <1>1, <1>2

\* client_ping_cbk.
LEMMA PingCbkAside ==
  ASSUME NEW s \in State, NEW ch \in Channel, NEW r, NEW t, t = client_ping_cbk(s, ch, r)
  PROVE  Aside(s, t)
PROOF
<1> DEFINE q == [s.conn[ch] EXCEPT !.ptimer = "start"]
<1>1. q \in ConnState /\ q.saved = s.conn[ch].saved
  BY StateParts DEF ConnState
<1>2. t = s \/ t = WithConn(s, ch, q)
  BY ZenonT(30) DEF client_ping_cbk, WithConn
<1> HIDE DEF q
<1>3. CASE t = s
  BY ZenonT(30), <1>3 DEF Aside
<1>4. CASE t = WithConn(s, ch, q)
  BY ZenonT(30), <1>1, <1>4, ConnAside
<1> QED  BY ZenonT(30), <1>2, <1>3, <1>4

\* A step of the idle event thread that is about no call.
LEMMA EvIdleFits ==
  ASSUME TypeOK, NoOrphanFrame, NEW x, EvIdle(x), Aside(cl, x), connects' \in Nat
  PROVE  Fits
PROOF
<1>1. cl' = x /\ ev' = ev /\ tm' = tm
  BY DEF EvIdle
<1>2. ev \in EvThread /\ tm \in TmThread
  BY ZenonT(30), Types
<1> QED  BY ZenonT(30), <1>1, <1>2, AsideFits

\* The reply to SETVOLUME, and the descriptors that are to be opened again.
LEMMA SetvolumeFits ==
  ASSUME TypeOK, NoOrphanFrame, NEW ch \in Channel, ReplyToSetvolume(ch)
  PROVE  Fits
PROOF
<1> DEFINE q == [cl.conn[ch] EXCEPT !.hs = FALSE]
           u == WithConn(cl, ch, q)
           s == protocol_client_pollin(u)
           bad == {f \in Fd : cl.fd[f].listed /\ cl.fd[f].remote = 0}
           t == lookup_frame(s, ch, Setvolume)
<1>1. cl \in State /\ ev \in EvThread /\ tm \in TmThread /\ connects \in Nat
  BY Types
<1>2. s = protocol_client_pollin([cl EXCEPT !.conn[ch].hs = FALSE])
  BY DEF WithConn
<1>3. PICK r \in Answer :
        /\ cl' \in protocol_client_interpret(s, ch, Setvolume, {client_setvolume_cbk(t, ch, r)})
        /\ ev' = IF r = "ok" /\ Setvolume \in s.conn[ch].saved
                 THEN Thread("reopen", ch, {Reopen(f) : f \in bad}, FALSE) ELSE Idle
  BY ZenonT(30), <1>2 DEF ReplyToSetvolume, Answer
<1>4. ev = Idle /\ tm' = tm /\ connects' = connects
  BY DEF ReplyToSetvolume
<1>5. q \in ConnState /\ q.saved = cl.conn[ch].saved
  BY ZenonT(30), <1>1, StateParts DEF ConnState
<1> HIDE DEF q
<1>6. Aside(cl, u) /\ u \in State
  BY <1>1, <1>5, ConnAside
<1> HIDE DEF u
<1>7. Aside(u, s) /\ s \in State
  BY <1>6, PollinAside
<1> HIDE DEF s
<1>8. Setvolume \in OwnFrames
  BY DEF OwnFrames
<1> DEFINE fr == Setvolume
<1>9. fr \in OwnFrames /\ t = lookup_frame(s, ch, fr)
  BY <1>8
<1> HIDE DEF t, fr
<1>10. Aside(s, t) /\ t \in State
  BY ZenonT(30), <1>7, <1>9, LookupAside
<1>11. Aside(s, client_setvolume_cbk(t, ch, r))
  BY ZenonT(30), <1>10, SetvolumeAside, AsideTwice
<1>12. Aside(s, cl')
  <2>1. cl' = s \/ cl' = client_setvolume_cbk(t, ch, r)
    BY ZenonT(30), <1>3 DEF protocol_client_interpret
  <2>2. Aside(s, s)
    BY ZenonT(30), <1>7 DEF Aside
  <2> QED  BY ZenonT(30), <1>11, <2>1, <2>2
<1>13. Aside(cl, cl')
  BY ZenonT(30), <1>6, <1>7, <1>12, AsideTwice
<1>14. ev' \in EvThread /\ \A d \in Call : Mine(d) \notin ev'.frames
  <2>1. {Reopen(f) : f \in bad} \subseteq FrameSet
    BY MineOnly
  <2>2. \A d \in Call : Mine(d) \notin {Reopen(f) : f \in bad}
    BY ZenonT(30), MineOnly
  <2> HIDE DEF bad
  <2> QED  BY ZenonT(30), <1>3, <2>1, <2>2 DEF EvThread, Thread, Idle, At, Channel
<1>15. /\ \A d \in Call : Mine(d) \notin ev.frames
       /\ \A x \in Channel : ev # At("cleanup", x)
  BY <1>4 DEF Idle, At, Thread
<1> QED  BY ZenonT(30), <1>1, <1>4, <1>13, <1>14, <1>15, AsideFits

\* The reply to a ping.
LEMMA PingFits ==
  ASSUME TypeOK, NoOrphanFrame, NEW ch \in Channel, ReplyToPing(ch)
  PROVE  Fits
PROOF
<1> DEFINE q == [cl.conn[ch] EXCEPT !.ping = FALSE]
           u == WithConn(cl, ch, q)
           s == protocol_client_pollin(u)
           fr == Ping
           t == lookup_frame(s, ch, fr)
           ok == "ok"
<1>1. cl \in State
  BY Types
<1>2. s = protocol_client_pollin([cl EXCEPT !.conn[ch].ping = FALSE])
  BY DEF WithConn
<1>3. PICK x \in protocol_client_interpret(s, ch, fr, {client_ping_cbk(t, ch, ok)}) : EvIdle(x)
  BY ZenonT(30), <1>2 DEF ReplyToPing
<1>4. connects' \in Nat
  BY Types DEF ReplyToPing
<1>5. q \in ConnState /\ q.saved = cl.conn[ch].saved
  BY ZenonT(30), <1>1, StateParts DEF ConnState
<1> HIDE DEF q
<1>6. Aside(cl, u) /\ u \in State
  BY <1>1, <1>5, ConnAside
<1> HIDE DEF u
<1>7. Aside(u, s) /\ s \in State
  BY ZenonT(30), <1>6, PollinAside
<1> HIDE DEF s
<1>8. fr \in OwnFrames
  BY DEF OwnFrames
<1> HIDE DEF fr, ok
<1>9. Aside(s, t) /\ t \in State
  BY ZenonT(30), <1>7, <1>8, LookupAside
<1> HIDE DEF t
<1>10. Aside(s, client_ping_cbk(t, ch, ok))
  BY ZenonT(30), <1>9, PingCbkAside, AsideTwice
<1>11. Aside(s, x)
  <2>1. x = s \/ x = client_ping_cbk(t, ch, ok)
    BY ZenonT(30), <1>3 DEF protocol_client_interpret
  <2>2. Aside(s, s)
    BY <1>7 DEF Aside
  <2> QED  BY ZenonT(30), <1>10, <2>1, <2>2
<1>12. Aside(cl, x)
  BY ZenonT(30), <1>6, <1>7, <1>11, AsideTwice
<1> QED  BY ZenonT(30), <1>3, <1>4, <1>12, EvIdleFits

\* The reply to a reopen or a release.
LEMMA DescriptorReplyFits ==
  ASSUME TypeOK, NoOrphanFrame, NEW f \in Fd, NEW ch \in Channel,
         ReplyToReopen(f, ch) \/ ReplyToRelease(f, ch)
  PROVE  Fits
PROOF
<1> DEFINE q == [cl.fd[f] EXCEPT !.net = "none"]
           u == WithFd(cl, f, q)
           s == protocol_client_pollin(u)
<1>1. cl \in State
  BY Types
<1>2. s = protocol_client_pollin([cl EXCEPT !.fd[f].net = "none"])
  BY ZenonT(30) DEF WithFd
<1>3. connects' \in Nat
  BY ZenonT(30), Types DEF ReplyToReopen, ReplyToRelease
<1>4. q \in FdState
  BY ZenonT(30), <1>1, StateParts DEF FdState
<1> HIDE DEF q
<1>5. Aside(cl, u) /\ u \in State
  BY ZenonT(30), <1>1, <1>4, FdAside
<1> HIDE DEF u
<1>6. Aside(u, s) /\ s \in State
  BY ZenonT(30), <1>5, PollinAside
<1> HIDE DEF s
<1>7. Aside(s, s)
  BY ZenonT(30), <1>6 DEF Aside
<1>8. Reopen(f) \in OwnFrames /\ Release(f) \in OwnFrames /\ {Release(f), Ping} \subseteq OwnFrames
  BY DEF OwnFrames
<1>9. CASE ReplyToReopen(f, ch)
  <2> DEFINE fr == Reopen(f)
             t == lookup_frame(s, ch, fr)
  <2>1. PICK r \in Answer, k \in BOOLEAN :
          \E x \in protocol_client_interpret(s, ch, fr, {protocol_client_reopen_cbk(t, f, r, k)}) :
            EvIdle(x)
    BY ZenonT(30), <1>2, <1>9 DEF ReplyToReopen, protocol_client_reopendir_cbk, Answer
  <2>2. PICK x \in protocol_client_interpret(s, ch, fr, {protocol_client_reopen_cbk(t, f, r, k)}) :
          EvIdle(x)
    BY <2>1
  <2>3. fr \in OwnFrames
    BY ZenonT(30), <1>8
  <2> HIDE DEF fr
  <2>4. Aside(s, t) /\ t \in State
    BY ZenonT(30), <1>6, <2>3, LookupAside
  <2> HIDE DEF t
  <2> DEFINE z == protocol_client_reopen_cbk(t, f, r, k)
  <2>5. ReopenAnswered(t, z, f, r)
    BY ZenonT(30), <2>4, ReopenCbkStep
  <2>6. Aside(t, z)
    BY ZenonT(30), <1>8, <2>5, OwnAside DEF ReopenAnswered
  <2>7. x = s \/ x = z
    BY ZenonT(30), <2>2 DEF protocol_client_interpret
  <2> HIDE DEF z
  <2>8. Aside(s, x)
    BY <1>7, <2>4, <2>6, <2>7, AsideTwice
  <2>9. Aside(cl, x)
    BY ZenonT(30), <1>5, <1>6, <2>8, AsideTwice
  <2> QED  BY ZenonT(30), <1>3, <2>2, <2>9, EvIdleFits
<1>10. CASE ReplyToRelease(f, ch)
  <2> DEFINE fr == Release(f)
             t == lookup_frame(s, ch, fr)
  <2>1. PICK x \in protocol_client_interpret(s, ch, fr, {t}) : EvIdle(x)
    BY ZenonT(30), <1>2, <1>10 DEF ReplyToRelease
  <2>2. fr \in OwnFrames
    BY ZenonT(30), <1>8
  <2> HIDE DEF fr
  <2>3. Aside(s, t) /\ t \in State
    BY ZenonT(30), <1>6, <2>2, LookupAside
  <2> HIDE DEF t
  <2>4. x = s \/ x = t
    BY ZenonT(30), <2>1 DEF protocol_client_interpret
  <2>5. Aside(cl, x)
    BY <1>5, <1>6, <1>7, <2>3, <2>4, AsideTwice
  <2> QED  BY ZenonT(30), <1>3, <2>1, <2>5, EvIdleFits
<1> QED  BY ZenonT(30), <1>9, <1>10

\* What client_protocol_reconnect leaves of the link.
Retried(s, t, ch) ==
  /\ t.started = s.started
  /\ t.view = s.view \/ t.view = "given up"
  /\ \A x \in Channel : t.conn[x].connected = s.conn[x].connected
  /\ \A x \in Channel \ {ch} : /\ t.conn[x].reconnect = s.conn[x].reconnect
                               /\ x \in t.missed <=> x \in s.missed
  /\ ~s.conn[ch].connected => t.conn[ch].reconnect = TRUE

\* client_protocol_reconnect.
LEMMA ReconnectStep ==
  ASSUME NEW s \in State, NEW ch \in Channel, NEW k \in BOOLEAN,
         NEW t, t = client_protocol_reconnect(s, ch, k)
  PROVE  Aside(s, t) /\ t \in State /\ Retried(s, t, ch)
PROOF
<1>1. s.conn[ch] \in ConnState
  BY StateParts
<1>2. CASE s.conn[ch].connected
  <2> DEFINE q == [s.conn[ch] EXCEPT !.reconnect = FALSE]
  <2>1. q \in ConnState /\ q.saved = s.conn[ch].saved /\ q.connected = s.conn[ch].connected
    BY ZenonT(30), <1>1 DEF ConnState
  <2>2. t = WithConn(s, ch, q)
    BY ZenonT(30), <1>2 DEF client_protocol_reconnect, WithConn
  <2> HIDE DEF q
  <2>3. Aside(s, t) /\ t \in State
    BY <2>1, <2>2, ConnAside
  <2>4. /\ t.started = s.started /\ t.view = s.view /\ t.missed = s.missed
        /\ t.conn[ch] = q /\ \A x \in Channel \ {ch} : t.conn[x] = s.conn[x]
    BY <2>1, <2>2, ConnUpdate
  <2> QED  BY ZenonT(30), <1>2, <2>1, <2>3, <2>4 DEF Retried
<1>3. CASE ~s.conn[ch].connected
  <2> DEFINE u == socket_connect(s, ch, k)
             q == [u.conn[ch] EXCEPT !.reconnect = TRUE]
             v == WithConn(u, ch, q)
             w == [v EXCEPT !.missed = @ \ {ch}]
  <2>1. t = [w EXCEPT !.view = IF w.sock[ch] = "none" THEN "given up" ELSE @]
    BY ZenonT(30), <1>3 DEF client_protocol_reconnect, WithConn
  <2>2. /\ SameRest(s, u) /\ u.call = s.call /\ u.conn = s.conn
        /\ \A x \in Channel : \/ u.sock[x] = s.sock[x]
                              \/ x = ch /\ s.sock[x] = "none" /\ u.sock[x] = "connecting"
    BY ConnectStep
  <2> HIDE DEF u
  <2>3. u \in State /\ Aside(s, u)
    BY <2>2 DEF SameRest, Aside
  <2>4. q \in ConnState /\ q.saved = u.conn[ch].saved /\ q.connected = u.conn[ch].connected
        /\ q.reconnect = TRUE
    BY ZenonT(30), <1>1, <2>2 DEF ConnState
  <2> HIDE DEF q
  <2>5. Aside(u, v) /\ v \in State
    BY ZenonT(30), <2>3, <2>4, ConnAside
  <2>6. /\ v.started = u.started /\ v.view = u.view /\ v.missed = u.missed
        /\ v.conn[ch] = q /\ \A x \in Channel \ {ch} : v.conn[x] = u.conn[x]
    BY <2>3, <2>4, ConnUpdate
  <2> HIDE DEF v
  <2>7. w \in State /\ w.call = v.call /\ w.conn = v.conn /\ w.sock = v.sock
        /\ w.started = v.started /\ w.view = v.view /\ w.missed = v.missed \ {ch}
    BY ZenonT(30), <2>5 DEF State
  <2> HIDE DEF w
  <2>8. t \in State /\ t.call = w.call /\ t.conn = w.conn /\ t.sock = w.sock
        /\ t.started = w.started /\ (t.view = w.view \/ t.view = "given up")
        /\ t.missed = w.missed
    BY ZenonT(30), <2>1, <2>7 DEF State
  <2>9. Aside(v, t)
    BY ZenonT(30), <2>5, <2>7, <2>8 DEF Aside
  <2>10. Aside(s, t)
    BY <2>3, <2>5, <2>9, AsideTwice
  <2>d. t.conn = v.conn /\ u.conn = s.conn
    BY ZenonT(30), <2>2, <2>7, <2>8
  <2>a. t.conn[ch] = q /\ \A x \in Channel \ {ch} : t.conn[x] = s.conn[x]
    BY ZenonT(30), <2>6, <2>d
  <2>b. s.missed = u.missed
    BY <2>2 DEF SameRest
  <2>c. t.missed = s.missed \ {ch}
    BY ZenonT(30), <2>6, <2>7, <2>8, <2>b
  <2>11. \A x \in Channel : t.conn[x].connected = s.conn[x].connected
    BY ZenonT(30), <2>2, <2>4, <2>a
  <2>12. \A x \in Channel \ {ch} : t.conn[x].reconnect = s.conn[x].reconnect
    BY ZenonT(30), <2>a
  <2>13. \A x \in Channel \ {ch} : x \in t.missed <=> x \in s.missed
    BY <2>c
  <2>14. t.conn[ch].reconnect = TRUE
    BY ZenonT(30), <2>4, <2>6, <2>7, <2>8
  <2>15. t.started = s.started /\ (t.view = s.view \/ t.view = "given up")
    BY ZenonT(30), <2>2, <2>6, <2>7, <2>8 DEF SameRest
  <2> QED  BY ZenonT(30), <2>8, <2>10, <2>11, <2>12, <2>13, <2>14, <2>15 DEF Retried
<1> QED  BY ZenonT(30), <1>2, <1>3

\* The event thread marks a connection down.
LEMMA MarkDownFits ==
  ASSUME TypeOK, NoOrphanFrame, NEW ch \in Channel, MarkDown(ch)
  PROVE  Fits
PROOF
<1>1. cl \in State /\ ev \in EvThread /\ tm \in TmThread /\ connects \in Nat
  BY Types
<1>2. ev = At("unwind", ch) /\ tm' = tm /\ connects' = connects
  BY DEF MarkDown
<1> DEFINE q == [cl.conn[ch] EXCEPT !.connected = FALSE]
<1>3. q \in ConnState /\ q.saved = cl.conn[ch].saved
  BY ZenonT(30), <1>1, StateParts DEF ConnState
<1>4. cl' = cl \/ cl' = WithConn(cl, ch, q)
  BY DEF MarkDown, WithConn
<1> HIDE DEF q
<1>5. Aside(cl, cl')
  <2>1. Aside(cl, cl)
    BY ZenonT(30), <1>1 DEF Aside
  <2>2. CASE cl' = WithConn(cl, ch, q)
    BY ZenonT(30), <1>1, <1>3, <2>2, ConnAside
  <2> QED  BY <1>4, <2>1, <2>2
<1>6. cl.conn[ch].reconnect \in BOOLEAN /\ WasUp(cl) \in BOOLEAN
  BY ZenonT(30), <1>1, StateParts DEF ConnState, WasUp
<1>7. \/ ev' = Thread("tell", ch, {}, WasUp(cl)) \/ ev' = At("stored", ch)
      \/ ev' = Thread("loaded", ch, {}, cl.conn[ch].reconnect)
  BY ZenonT(30) DEF MarkDown
<1>8. ev' \in EvThread /\ ev'.frames = {}
  <2>1. ev'.frames = {}
    BY <1>7 DEF Thread, At
  <2>2. {} \in SUBSET FrameSet
    BY ZenonT(30)
  <2> QED  BY ZenonT(30), <1>6, <1>7, <2>1, <2>2, EvPlaces
<1>9. ev.frames = {} /\ \A x \in Channel : ev # At("cleanup", x)
  BY <1>2 DEF At, Thread
<1> QED  BY <1>1, <1>2, <1>5, <1>8, <1>9, AsideFits

\* The event thread reads the timer, and starts the chain where there is none.
LEMMA ReadTimerFits ==
  ASSUME TypeOK, NoOrphanFrame, NEW ch \in Channel, ReadTimer(ch)
  PROVE  Fits
PROOF
<1>1. cl \in State /\ ev \in EvThread /\ tm \in TmThread /\ connects \in Nat
  BY Types
<1>2. ev' = Thread("tell", ch, {}, TRUE) /\ tm' = tm /\ connects' = connects
  BY ZenonT(30) DEF ReadTimer
<1>3. ev.frames = {} /\ \A x \in Channel : ev # At("cleanup", x)
  <2>1. \/ ev = At("stored", ch)
        \/ \E pending \in BOOLEAN : ev = Thread("loaded", ch, {}, pending)
    BY ZenonT(30) DEF ReadTimer
  <2>2. ev.at \in {"stored", "loaded"} /\ ev.frames = {}
    BY <2>1 DEF Thread, At
  <2> QED  BY <2>2 DEF Thread, At
<1>4. ev' \in EvThread /\ ev'.frames = {}
  BY ZenonT(30), <1>2 DEF EvThread, Thread
<1>5. ASSUME NEW s \in State, NEW k \in BOOLEAN, NEW p \in BOOLEAN
      PROVE  Aside(s, Restart(s, ch, p, k))
  <2>1. CASE p
    BY <1>5, <2>1 DEF Restart, Aside
  <2>2. CASE ~p
    BY ZenonT(30), <1>5, <2>2, ReconnectStep DEF Restart
  <2> QED  BY ZenonT(30), <2>1, <2>2
<1>6. CASE ev = At("stored", ch) /\ \E k \in BOOLEAN : cl' = Restart(cl, ch, cl.conn[ch].reconnect, k)
  <2>1. cl.conn[ch].reconnect \in BOOLEAN
    BY ZenonT(30), <1>1, StateParts DEF ConnState
  <2>2. Aside(cl, cl')
    BY ZenonT(30), <1>1, <1>5, <1>6, <2>1
  <2> QED  BY ZenonT(30), <1>1, <1>2, <1>3, <1>4, <2>2, AsideFits
<1>7. ASSUME NEW p \in BOOLEAN, NEW k \in BOOLEAN,
             cl' = Restart([cl EXCEPT !.conn[ch].connected = FALSE,
                                      !.missed = IF p /\ ~cl.conn[ch].reconnect
                                                 THEN @ \cup {ch} ELSE @], ch, p, k)
      PROVE  Fits
  <2> DEFINE q == [cl.conn[ch] EXCEPT !.connected = FALSE]
             u == WithConn(cl, ch, q)
             v == [u EXCEPT !.missed = IF p /\ ~cl.conn[ch].reconnect THEN @ \cup {ch} ELSE @]
  <2>1. q \in ConnState /\ q.saved = cl.conn[ch].saved
    <3>1. cl.conn[ch] \in ConnState
      BY <1>1, StateParts
    <3> QED  BY ZenonT(30), <3>1 DEF ConnState
  <2>2. cl' = Restart(v, ch, p, k)
    BY <1>7 DEF WithConn
  <2> HIDE DEF q
  <2>3. Aside(cl, u) /\ u \in State
    BY SMTT(30), <1>1, <2>1, ConnAside
  <2> HIDE DEF u
  <2>4. v \in State /\ v.call = u.call /\ v.conn = u.conn /\ v.sock = u.sock
    BY ZenonT(30), <2>3 DEF State
  <2> HIDE DEF v
  <2>5. Aside(u, v)
    BY ZenonT(30), <2>3, <2>4 DEF Aside
  <2>6. Aside(v, cl')
    BY ZenonT(30), <1>5, <2>2, <2>4
  <2>7. Aside(cl, cl')
    BY ZenonT(30), <2>3, <2>5, <2>6, AsideTwice
  <2> QED  BY ZenonT(30), <1>1, <1>2, <1>3, <1>4, <2>7, AsideFits
<1> QED  BY ZenonT(30), <1>6, <1>7 DEF ReadTimer

\* The parents are told, and handles marked bad.
LEMMA TellFits ==
  ASSUME TypeOK, ThreadInv, NoOrphanFrame, TellParents \/ ChildUp
  PROVE  Fits
PROOF
<1>1. cl \in State /\ ev \in EvThread /\ tm \in TmThread /\ connects \in Nat
  BY Types
<1>2. ev' = Idle /\ tm' = tm /\ connects' = connects /\ ev.at \in {"tell", "reopen"}
  BY ZenonT(30) DEF TellParents, ChildUp
<1>3. ev' \in EvThread /\ ev'.frames = {} /\ \A x \in Channel : ev # At("cleanup", x)
  BY <1>2 DEF EvThread, Idle, At, Thread, Channel
<1> DEFINE g == [f \in Fd |-> [cl.fd[f] EXCEPT !.remote = IF cl.fd[f].listed THEN 0 ELSE @]]
           u == [cl EXCEPT !.fd = g]
<1>4. g \in [Fd -> FdState]
  <2>1. \A f \in Fd : [cl.fd[f] EXCEPT !.remote = IF cl.fd[f].listed THEN 0 ELSE @] \in FdState
    BY ZenonT(30), <1>1, StateParts DEF FdState
  <2> QED  BY ZenonT(30), <2>1
<1>5. \/ cl' = cl \/ cl' = [cl EXCEPT !.view = "up"]
      \/ cl' = [u EXCEPT !.view = "down", !.half = FALSE]
  BY DEF TellParents, ChildUp, protocol_client_mark_fd_bad
<1> HIDE DEF g
<1>6. Aside(cl, u) /\ u \in State
  BY ZenonT(30), <1>1, <1>4, FdsAside
<1> HIDE DEF u
<1>7. Aside(cl, cl')
  <2>1. CASE cl' = cl
    BY ZenonT(30), <1>1, <2>1 DEF Aside
  <2>2. CASE cl' = [cl EXCEPT !.view = "up"]
    <3>1. cl' \in State /\ cl'.call = cl.call /\ cl'.conn = cl.conn /\ cl'.sock = cl.sock
      BY ZenonT(30), <1>1, <2>2 DEF State
    <3> QED  BY ZenonT(30), <1>1, <3>1 DEF Aside
  <2>3. CASE cl' = [u EXCEPT !.view = "down", !.half = FALSE]
    <3>1. cl' \in State /\ cl'.call = u.call /\ cl'.conn = u.conn /\ cl'.sock = u.sock
      BY ZenonT(30), <1>6, <2>3 DEF State
    <3>2. Aside(u, cl')
      BY ZenonT(30), <1>6, <3>1 DEF Aside
    <3> QED  BY ZenonT(30), <1>6, <3>2, AsideTwice
  <2> QED  BY ZenonT(30), <1>5, <2>1, <2>2, <2>3
<1>8. ev.frames = {}
  BY ZenonT(30) DEF TellParents, ChildUp, ThreadInv
<1> QED  BY ZenonT(30), <1>1, <1>2, <1>3, <1>7, <1>8, AsideFits

\* Nothing that frames depend on changes.
LEMMA SameFrames ==
  ASSUME NEW s \in State, NEW t \in State, t.call = s.call, t.conn = s.conn, t.sock = s.sock
  PROVE  Aside(s, t)
BY ZenonT(30) DEF Aside

\* PARENT_UP starts both chains.
LEMMA ParentUpFits ==
  ASSUME TypeOK, NoOrphanFrame, ParentUp
  PROVE  Fits
PROOF
<1>1. cl \in State /\ ev \in EvThread /\ tm \in TmThread /\ connects \in Nat
  BY Types
<1>2. ev' = ev /\ tm' = tm /\ connects' = connects
  BY DEF ParentUp, Rest
<1>3. PICK k1, k2 \in BOOLEAN :
        cl' = [client_protocol_reconnect(client_protocol_reconnect(cl, "bulk", k1), "lowlat", k2)
                EXCEPT !.started = TRUE]
  BY ZenonT(30) DEF ParentUp
<1> DEFINE b == "bulk"
           l == "lowlat"
           u == client_protocol_reconnect(cl, b, k1)
           v == client_protocol_reconnect(u, l, k2)
<1>4. b \in Channel /\ l \in Channel /\ cl' = [v EXCEPT !.started = TRUE]
  BY <1>3 DEF Channel
<1> HIDE DEF b, l
<1>5. Aside(cl, u) /\ u \in State
  BY ZenonT(30), <1>1, <1>4, ReconnectStep
<1> HIDE DEF u
<1>6. Aside(u, v) /\ v \in State
  BY ZenonT(30), <1>4, <1>5, ReconnectStep
<1> HIDE DEF v
<1>7. cl' \in State /\ cl'.call = v.call /\ cl'.conn = v.conn /\ cl'.sock = v.sock
  BY ZenonT(30), <1>4, <1>6 DEF State
<1>8. Aside(cl, cl')
  BY ZenonT(30), <1>5, <1>6, <1>7, SameFrames, AsideTwice
<1> QED  BY ZenonT(30), <1>1, <1>2, <1>8, AsideFits

=============================================================================
