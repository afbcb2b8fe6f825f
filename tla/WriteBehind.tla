----------------------------- MODULE WriteBehind ----------------------------
(* performance/write-behind for one open file (write-behind.c).

   A write is put on the queue of its file, answered as soon as the window has
   room, and sent to the child later, packed with its neighbours. Every other
   call waits on the queue for the writes before it. The work is done by
   whichever thread is there: the thread of the application's call or the
   thread that delivers a reply. A thread is the sequence of the pieces of work
   it still has to do, each of them one critical section or one call out of the
   translator; all other threads may run between two of them.

   Sizes and offsets are counted in units of the smallest write. A request is
   named by its call, and the calls by the order they were made in. *)
EXTENDS Integers, FiniteSets, SequencesExt

CONSTANTS
  CallThread,        \* threads that bring calls of the application
  ReplyThread,       \* threads that bring replies of the child
  window_size, page_size, disable_for_first_nbytes,
  enable_trickling_writes,
  MAX_VECTOR_COUNT,
  WriteOffset, WriteSize,   \* where and how much the application writes
  Settings,          \* the combinations of options, application and child
  MaxCalls,          \* bound: calls in a behaviour
  MaxFailures        \* bound: writes the child fails

ASSUME ThreadAssumption == CallThread \cap ReplyThread = {}
ASSUME SizeAssumption ==
  /\ WriteOffset \subseteq Nat
  /\ WriteSize \subseteq 1 .. page_size
  /\ {window_size, page_size, disable_for_first_nbytes} \subseteq Nat
  /\ MAX_VECTOR_COUNT \in Nat \ {0}
ASSUME SettingsAssumption ==
  /\ enable_trickling_writes \in BOOLEAN
  /\ Settings \subseteq [flush_behind : BOOLEAN, aggregate_size : Nat,
                         callers : Nat \ {0}, in_order : BOOLEAN]

VARIABLES
  conf,      \* options, how many calls the application has open at a time, and
             \* whether the child carries calls out in the order it gets them
  file,      \* wb_file_t
  request,   \* file->request, the queue
  req,       \* wb_request_t of every call
  thread,    \* what each thread has left to do
  flight,    \* calls the child has and did not answer, oldest first
  answer,    \* what the application was told of each call
  history    \* ghost: what the properties need of the past

vars == <<conf, file, request, req, thread, flight, answer, history>>

Call   == 1 .. MaxCalls
Thread == CallThread \cup ReplyThread

(* READ stands for readv, fstat and ftruncate, whose callbacks answer after the
   queue was processed; STAT for stat, truncate and setattr, whose callbacks
   answer before. *)
Other == {"READ", "STAT", "FSYNC"}

NoRequest ==
  [op |-> "NONE", off |-> 0, write_size |-> 0, holds |-> {},
   write_behind |-> FALSE, stack_wound |-> FALSE, got_reply |-> FALSE,
   stub |-> FALSE, marked_for_resume |-> FALSE, refcount |-> 0,
   op_ret |-> "ok", reply_count |-> 0, before |-> {}]

Issued     == {c \in Call : req[c].op # "NONE"}
Unanswered == {c \in Issued : answer[c] = <<>>}
IsWrite(c) == req[c].op = "WRITE"

(* The file was opened: disabled by mandatory locking or GF_OPEN_NOWB, with no
   window by O_DIRECT, O_RDONLY or O_SYNC. Behaviours start there or after the
   first bytes, which are written without write-behind. *)
wb_file_create(off, till, w) ==
  [op_ret |-> "ok", disabled |-> off, disable_till |-> till,
   window_conf |-> w, window_current |-> 0, aggregate_current |-> 0]

Init ==
  /\ conf \in Settings
  /\ \E off \in BOOLEAN, till \in {0, disable_for_first_nbytes}, w \in {0, window_size} :
       file = wb_file_create(off, till, w)
  /\ request = <<>>
  /\ req = [c \in Call |-> NoRequest]
  /\ thread = [t \in Thread |-> <<>>]
  /\ flight = <<>>
  /\ answer = [c \in Call |-> <<>>]
  /\ history = [written |-> {}, failed |-> {}, unreported |-> {},
                stranded |-> {}, lost |-> {}]

-----------------------------------------------------------------------------
(* the reference counts of requests: the last one takes it off the queue *)

unref(r, c) == [r EXCEPT ![c].refcount = @ - 1]

Linked(q, r) == SelectSeq(q, LAMBDA c : r[c].refcount > 0)

Todo(w, c)     == [do |-> w, call |-> c]
Process(flush) == [do |-> "process", flush_all |-> flush]
Tell(c, ret)   == [do |-> "tell", call |-> c, op_ret |-> ret]

Told(c, ret) == answer' = [answer EXCEPT ![c] = Append(@, ret)]

(* The error a file remembers is returned once, by the call that takes it. *)
TakesError ==
  /\ file' = [file EXCEPT !.op_ret = "ok"]
  /\ history' = [history EXCEPT !.unreported = IF file.op_ret = "ok" THEN @ ELSE {}]

-----------------------------------------------------------------------------
(* wb_process_queue, under the lock of the file: pure functions of the requests
   r along the queue q *)

(* Writes are taken for answering as long as what was taken does not exceed the
   room left, so the last one may exceed it. *)
mark_unwind_till(r, q, f, room) ==
  LET Mark(s, c) ==
        IF s.r[c].op = "WRITE" /\ ~s.r[c].write_behind /\ s.written <= room
        THEN [r |-> [s.r EXCEPT ![c].write_behind = TRUE],
              written |-> s.written + s.r[c].write_size,
              window  |-> s.window + IF s.r[c].got_reply THEN 0 ELSE s.r[c].write_size,
              unwinds |-> Append(s.unwinds, c)]
        ELSE s
  IN FoldLeft(Mark, [r |-> r, written |-> 0, window |-> f.window_current,
                     unwinds |-> <<>>], q)

(* With the window overfull the room is negative, and nothing is taken. *)
mark_unwinds(r, q, f) ==
  mark_unwind_till(r, q, f, f.window_conf - f.window_current)

(* A write that was answered and not sent is appended to the one before it in
   the queue when it starts where that one ends and a page holds both. *)
collapse_write_bufs(r, q) ==
  LET Step(s, c) ==
        LET h == s.holder
            Keeps(holder) == [s EXCEPT !.q = Append(@, c), !.holder = holder]
        IN CASE s.stop -> Keeps(0)
             [] ~s.stop /\ (s.r[c].op # "WRITE" \/ s.r[c].stack_wound) -> Keeps(0)
             [] ~s.stop /\ s.r[c].op = "WRITE" /\ ~s.r[c].stack_wound
                  /\ ~s.r[c].write_behind ->
                  [Keeps(0) EXCEPT !.stop = TRUE]
             [] OTHER ->
                  IF /\ h # 0
                     /\ s.r[c].off = s.r[h].off + s.r[h].write_size
                     /\ s.r[h].write_size + s.r[c].write_size <= page_size
                  THEN [s EXCEPT
                         !.r = [unref(@, c) EXCEPT
                                  ![h].write_size = @ + s.r[c].write_size,
                                  ![h].holds = @ \cup s.r[c].holds]]
                  ELSE Keeps(c)
  IN FoldLeft(Step, [r |-> r, q |-> <<>>, holder |-> 0, stop |-> FALSE], q)

(* Variant: does not stop at a write. *)
other_past_writes(r, q) ==
  {i \in 1 .. Len(q) :
     /\ r[q[i]].op # "WRITE" /\ r[q[i]].stub /\ ~r[q[i]].marked_for_resume
     /\ \A j \in 1 .. i - 1 : r[q[j]].op # "WRITE" => r[q[j]].marked_for_resume}

(* The next call other than a write, when all before it on the queue are such
   calls and on their way: one at a time. *)
get_other_requests(r, q) ==
  {i \in 1 .. Len(q) :
     /\ r[q[i]].op # "WRITE" /\ r[q[i]].stub /\ ~r[q[i]].marked_for_resume
     /\ \A j \in 1 .. i - 1 :
          r[q[j]].op # "WRITE" /\ r[q[j]].stub /\ r[q[j]].marked_for_resume}

(* Writes the window holds back although the child answered every write: no
   reply is left to make room and process the queue for them. *)
HeldBack(q, r) ==
  LET writes == {c \in ToSet(q) : r[c].op = "WRITE"}
  IN IF \A c \in writes : r[c].got_reply THEN {c \in writes : ~r[c].write_behind} ELSE {}

Unwound(r, q) == {i \in 1 .. Len(q) : r[q[i]].op = "WRITE" /\ ~r[q[i]].stack_wound}

(* The write at i does not start where the one before it, of those that were
   not sent, ends. *)
Breaks(r, q, i) ==
  \E k \in Unwound(r, q) :
    /\ k < i
    /\ \A m \in Unwound(r, q) : m < i => m <= k
    /\ r[q[i]].off # r[q[k]].off + r[q[k]].write_size

(* The first place of the queue where a scan for writes to send ends *)
Ends(r, q) ==
  {i \in 1 .. Len(q) :
     r[q[i]].op # "WRITE" \/ (i \in Unwound(r, q) /\ Breaks(r, q, i))}

Incomplete(r, q) ==
  {i \in 1 .. Len(q) : r[q[i]].op = "WRITE" /\ r[q[i]].stack_wound /\ ~r[q[i]].got_reply}

Before(S, i) == \A j \in S : i < j

(* __wb_can_wind: whether the scan met an unanswered write, a gap or another
   call first *)
can_wind(r, q) ==
  LET stops == Ends(r, q) \cup Incomplete(r, q)
  IN {IF i \in Incomplete(r, q) THEN "incomplete"
      ELSE IF r[q[i]].op = "WRITE" THEN "non_contiguous"
      ELSE IF r[q[i]].stub THEN "other_fop" ELSE "resumed" :
        i \in {j \in stops : \A k \in stops : j <= k}}

(* __wb_mark_winds: the first contiguous run of writes that were not sent *)
mark_winds(r, q, flush_all, aggregate) ==
  LET met == IF flush_all \/ aggregate >= conf.aggregate_size THEN {} ELSE can_wind(r, q)
      now == \/ enable_trickling_writes /\ "incomplete" \notin met
             \/ flush_all
             \/ met \cap {"non_contiguous", "other_fop"} # {}
             \/ aggregate >= conf.aggregate_size
  IN IF now THEN SelectSeq([i \in 1 .. Len(q) |->
                              IF i \in Unwound(r, q) /\ Before(Ends(r, q), i)
                              THEN q[i] ELSE 0], LAMBDA c : c # 0)
     ELSE <<>>

Sum(r, S) == FoldSet(LAMBDA c, n : n + r[c].write_size, 0, S)

(* The work wb_do_ops has for the thread: answers, then writes to send, then the
   other call to resume *)
wb_do_ops(unwinds, winds, others) ==
  [i \in DOMAIN unwinds |-> Todo("unwind", unwinds[i])]
    \o (IF winds = <<>> THEN <<>> ELSE <<[do |-> "sync", winds |-> winds]>>)
    \o SetToSeq({Todo("resume", c) : c \in others})

(* u, k, others and winds are what the four passes over the queue found. *)
wb_process_queue(t) ==
  /\ thread[t] # <<>> /\ Head(thread[t]).do = "process"
  /\ \E u \in {mark_unwinds(req, request, file)} :
     \E k \in {collapse_write_bufs(u.r, request)} :
     \E others \in {{k.q[i] : i \in get_other_requests(k.r, k.q)}} :
     \E winds \in {IF others # {} THEN <<>>
                   ELSE mark_winds(k.r, k.q, Head(thread[t]).flush_all,
                                   file.aggregate_current)} :
       /\ req' = [c \in Call |->
                    [k.r[c] EXCEPT !.stack_wound = @ \/ c \in ToSet(winds),
                                   !.marked_for_resume = @ \/ c \in others]]
       /\ request' = Linked(k.q, k.r)
       /\ file' = [file EXCEPT !.window_current = u.window,
                               !.aggregate_current = @ - Sum(k.r, ToSet(winds))]
       /\ thread' = [thread EXCEPT ![t] = wb_do_ops(u.unwinds, winds, others) \o Tail(@)]
       /\ history' = [history EXCEPT !.stranded = @ \cup HeldBack(k.q, k.r)]
  /\ UNCHANGED <<conf, flight, answer>>

-----------------------------------------------------------------------------
(* the calls out of the translator *)

(* wb_stack_unwind, one request: the answer leaves the translator before the
   request is unreferenced. *)
wb_stack_unwind(t) ==
  LET c == Head(thread[t]).call
  IN /\ thread[t] # <<>> /\ Head(thread[t]).do = "unwind"
     /\ Told(c, req[c].op_ret)
     /\ thread' = [thread EXCEPT ![t] = <<Todo("unref", c)>> \o Tail(@)]
     /\ UNCHANGED <<conf, file, request, req, flight, history>>

(* The calls that wait on the queue q for what is before them *)
Waiting(q, r) ==
  {c \in ToSet(q) : r[c].op # "WRITE" /\ r[c].stub /\ ~r[c].marked_for_resume}

(* The last reference takes the write off the queue, and the queue is not
   processed for the calls behind it. *)
wb_request_unref(t) ==
  LET c == Head(thread[t]).call
  IN /\ thread[t] # <<>> /\ Head(thread[t]).do = "unref"
     /\ req' = unref(req, c)
     /\ request' = Linked(request, req')
     /\ history' = IF req'[c].refcount > 0 THEN history
                   ELSE [history EXCEPT !.stranded = @ \cup Waiting(request', req')]
     /\ thread' = [thread EXCEPT ![t] = Tail(@)]
     /\ UNCHANGED <<conf, file, flight, answer>>

(* How many of the writes go into one call to the child *)
Packed(w) ==
  CHOOSE n \in 1 .. Len(w) :
    LET fits(m) == /\ m <= MAX_VECTOR_COUNT
                   /\ m = 1 \/ Sum(req, {w[i] : i \in 1 .. m}) <= conf.aggregate_size
    IN fits(n) /\ (n = Len(w) \/ ~fits(n + 1))

(* wb_sync, one call to the child *)
wb_sync(t) ==
  LET w == Head(thread[t]).winds
      n == Packed(w)
  IN /\ thread[t] # <<>> /\ Head(thread[t]).do = "sync"
     /\ flight' = Append(flight, [op |-> "SYNC", calls |-> {w[i] : i \in 1 .. n}])
     /\ thread' = [thread EXCEPT ![t] =
          (IF n = Len(w) THEN <<>>
           ELSE <<[do |-> "sync", winds |-> SubSeq(w, n + 1, Len(w))]>>) \o Tail(@)]
     /\ UNCHANGED <<conf, file, request, req, answer, history>>

(* wb_resume_other_requests: a call goes to the child; the callback of a flush
   runs here and the queue is processed again after it *)
wb_resume_other_requests(t) ==
  LET c == Head(thread[t]).call
      resumed == [req EXCEPT ![c].stub = FALSE]
  IN /\ thread[t] # <<>> /\ Head(thread[t]).do = "resume"
     /\ IF req[c].op = "FLUSH"
        THEN /\ req' = unref(resumed, c)
             /\ thread' = [thread EXCEPT ![t] =
                             <<Todo("ffr", c), Process(FALSE)>> \o Tail(@)]
             /\ UNCHANGED flight
        ELSE /\ req' = resumed
             /\ thread' = [thread EXCEPT ![t] = Tail(@)]
             /\ flight' = Append(flight, [op |-> req[c].op, calls |-> {c}])
     /\ request' = Linked(request, req')
     /\ UNCHANGED <<conf, file, answer, history>>

(* STACK_UNWIND at the end of a callback *)
StackUnwind(t) ==
  /\ thread[t] # <<>> /\ Head(thread[t]).do = "tell"
  /\ Told(Head(thread[t]).call, Head(thread[t]).op_ret)
  /\ thread' = [thread EXCEPT ![t] = Tail(@)]
  /\ UNCHANGED <<conf, file, request, req, flight, history>>

(* What wb_ffr_cbk does once it may answer the flush *)
AnswersFlush(t, c) ==
  /\ TakesError
  /\ thread' = [thread EXCEPT ![t] = <<Process(FALSE), Tell(c, file.op_ret)>> \o Tail(@)]

InBackground == conf.flush_behind /\ ~file.disabled /\ file.disable_till = 0

(* wb_ffr_cbk: a flush in the background is answered by the queue alone, any
   other by the second of queue and child. The increment of reply_count is not
   under the lock, so it is a read here and a write in count_reply. *)
wb_ffr_cbk(t) ==
  LET c == Head(thread[t]).call
  IN /\ thread[t] # <<>> /\ Head(thread[t]).do = "ffr"
     /\ IF InBackground
        THEN AnswersFlush(t, c)
        ELSE /\ thread' = [thread EXCEPT ![t] =
                  <<[do |-> "count", call |-> c, n |-> req[c].reply_count + 1]>> \o Tail(@)]
             /\ UNCHANGED <<file, history>>
     /\ UNCHANGED <<conf, request, req, flight, answer>>

both_replies(n) == n = 2

count_reply(t) ==
  LET h == Head(thread[t])
  IN /\ thread[t] # <<>> /\ h.do = "count"
     /\ req' = [req EXCEPT ![h.call].reply_count = h.n]
     /\ IF both_replies(h.n)
        THEN AnswersFlush(t, h.call)
        ELSE /\ thread' = [thread EXCEPT ![t] = Tail(@)]
             /\ history' = IF req[h.call].reply_count < h.n THEN history
                           ELSE [history EXCEPT !.lost = @ \cup {h.call}]
             /\ UNCHANGED file
     /\ UNCHANGED <<conf, request, flight, answer>>

-----------------------------------------------------------------------------
(* replies of the child *)

(* Variant: the room in the window is not given back. *)
window_kept(behind) == file.window_current

window_after(behind) == file.window_current - Sum(req, behind)

(* Variant: the error is not remembered. *)
error_forgotten(ret) == file.op_ret

error_after(ret) == IF ret = "ok" THEN file.op_ret ELSE ret

(* wb_sync_cbk up to wb_process_queue *)
wb_sync_cbk(e, calls, ret) ==
  LET behind == {c \in calls : req[c].write_behind}
      held(S) == UNION {req[c].holds : c \in S}
  IN /\ req' = [c \in Call |->
                  IF c \in calls
                  THEN [req[c] EXCEPT !.got_reply = TRUE, !.refcount = @ - 1,
                          !.op_ret = IF c \notin behind THEN ret ELSE @]
                  ELSE req[c]]
     /\ request' = Linked(request, req')
     /\ file' = [file EXCEPT !.window_current = window_after(behind),
                             !.op_ret = error_after(ret)]
     /\ history' = IF ret = "ok"
          THEN [history EXCEPT !.written = @ \cup held(calls)]
          ELSE [history EXCEPT !.failed = @ \cup held(calls),
                               !.unreported = @ \cup held(behind)]
     /\ thread' = [thread EXCEPT ![e] = <<Process(FALSE)>>]
     /\ UNCHANGED answer

(* wb_writev_cbk: a write that was passed straight through *)
wb_writev_cbk(c, ret) ==
  /\ Told(c, ret)
  /\ history' = IF ret = "ok" THEN [history EXCEPT !.written = @ \cup {c}]
                              ELSE [history EXCEPT !.failed = @ \cup {c}]
  /\ UNCHANGED <<file, request, req, thread>>

answers_first(op) == op = "STAT"

(* wb_readv_cbk, wb_fsync_cbk and, answering first, wb_stat_cbk and their kin *)
wb_fop_cbk(e, c) ==
  /\ req' = unref(req, c)
  /\ request' = Linked(request, req')
  /\ IF req[c].op = "FSYNC" THEN TakesError ELSE UNCHANGED <<file, history>>
  /\ IF answers_first(req[c].op)
     THEN Told(c, "ok") /\ thread' = [thread EXCEPT ![e] = <<Process(FALSE)>>]
     ELSE /\ thread' = [thread EXCEPT ![e] =
               <<Process(FALSE),
                 Tell(c, IF req[c].op = "FSYNC" THEN file.op_ret ELSE "ok")>>]
          /\ UNCHANGED answer

(* The child carries out a call and a thread brings the reply. Only a write
   fails. *)
Reply(e, i, ret) ==
  LET m == flight[i]
  IN /\ thread[e] = <<>>
     /\ conf.in_order => i = 1
     /\ flight' = RemoveAt(flight, i)
     /\ ret # "ok" => m.op \in {"SYNC", "WRITE"} /\ Cardinality(history.failed) < MaxFailures
     /\ UNCHANGED conf
     /\ \/ m.op = "SYNC" /\ wb_sync_cbk(e, m.calls, ret)
        \/ m.op = "WRITE" /\ \E c \in m.calls : wb_writev_cbk(c, ret)
        \/ m.op \in Other /\ \E c \in m.calls : wb_fop_cbk(e, c)
        \/ /\ m.op = "FLUSH"
           /\ thread' = [thread EXCEPT ![e] = SetToSeq({Todo("ffr", c) : c \in m.calls})]
           /\ UNCHANGED <<file, request, req, answer, history>>

-----------------------------------------------------------------------------
(* calls of the application *)

(* Call c is the next one; the application has room for another open call. *)
NextCall(t, c) ==
  /\ thread[t] = <<>>
  /\ c = Cardinality(Issued) + 1
  /\ Cardinality(Unanswered) < conf.callers

Made(op) ==
  [NoRequest EXCEPT !.op = op, !.stub = TRUE,
     !.before = {w \in Issued : IsWrite(w) /\ answer[w] = <<"ok">>}]

(* wb_writev: returns the error of an earlier write, or passes the write
   through while write-behind is not in use yet, or queues it *)
wb_writev(t, c, off, size) ==
  /\ NextCall(t, c)
  /\ req' = [req EXCEPT ![c] = [Made("WRITE") EXCEPT
                !.off = off, !.write_size = size, !.holds = {c}]]
  /\ \/ /\ file.op_ret # "ok"
        /\ TakesError
        /\ Told(c, file.op_ret)
        /\ UNCHANGED <<thread, flight>>
     \/ /\ file.op_ret = "ok" /\ (file.disabled \/ file.disable_till > 0)
        /\ file' = [file EXCEPT !.disable_till = IF size > @ THEN 0 ELSE @ - size]
        /\ flight' = Append(flight, [op |-> "WRITE", calls |-> {c}])
        /\ UNCHANGED <<thread, answer, history>>
     \/ /\ file.op_ret = "ok" /\ ~file.disabled /\ file.disable_till = 0
        /\ thread' = [thread EXCEPT ![t] = <<Todo("enqueue", c), Process(FALSE)>>]
        /\ UNCHANGED <<file, flight, answer, history>>
  /\ UNCHANGED <<conf, request>>

(* wb_readv, wb_stat, wb_fsync and their kin *)
wb_fop(t, c, op) ==
  /\ NextCall(t, c)
  /\ req' = [req EXCEPT ![c] = Made(op)]
  /\ thread' = [thread EXCEPT ![t] = <<Todo("enqueue", c), Process(TRUE)>>]
  /\ UNCHANGED <<conf, file, request, flight, answer, history>>

(* Variant: the reply to a flush in the background is waited for as well. *)
waits_for_both(t, c) ==
  /\ NextCall(t, c)
  /\ req' = [req EXCEPT ![c] = Made("FLUSH")]
  /\ thread' = [thread EXCEPT ![t] =
       <<Todo("enqueue", c), Process(TRUE), [do |-> "flush", calls |-> {c}]>>]
  /\ UNCHANGED <<conf, file, request, flight, answer, history>>

(* wb_flush: the callback goes on the queue and the flush itself to the child,
   whose reply a flush in the background does not wait for *)
wb_flush(t, c) ==
  /\ NextCall(t, c)
  /\ req' = [req EXCEPT ![c] = Made("FLUSH")]
  /\ thread' = [thread EXCEPT ![t] =
       <<Todo("enqueue", c), Process(TRUE),
         [do |-> "flush", calls |-> IF InBackground THEN {} ELSE {c}]>>]
  /\ UNCHANGED <<conf, file, request, flight, answer, history>>

WindFlush(t) ==
  /\ thread[t] # <<>> /\ Head(thread[t]).do = "flush"
  /\ flight' = Append(flight, [op |-> "FLUSH", calls |-> Head(thread[t]).calls])
  /\ thread' = [thread EXCEPT ![t] = Tail(@)]
  /\ UNCHANGED <<conf, file, request, req, answer, history>>

(* Variant: the queue is not processed afterwards. *)
enqueue_only(t) ==
  LET c == Head(thread[t]).call
  IN /\ thread[t] # <<>> /\ Head(thread[t]).do = "enqueue"
     /\ request' = Append(request, c)
     /\ req' = [req EXCEPT ![c].refcount = IF IsWrite(c) THEN 2 ELSE 1]
     /\ file' = [file EXCEPT !.aggregate_current = @ + req[c].write_size]
     /\ thread' = [thread EXCEPT ![t] = Tail(Tail(@))]
     /\ UNCHANGED <<conf, flight, answer, history>>

(* wb_enqueue: a write holds a reference for the child and one for the answer *)
wb_enqueue(t) ==
  LET c == Head(thread[t]).call
  IN /\ thread[t] # <<>> /\ Head(thread[t]).do = "enqueue"
     /\ request' = Append(request, c)
     /\ req' = [req EXCEPT ![c].refcount = IF IsWrite(c) THEN 2 ELSE 1]
     /\ file' = [file EXCEPT !.aggregate_current = @ + req[c].write_size]
     /\ thread' = [thread EXCEPT ![t] = Tail(@)]
     /\ UNCHANGED <<conf, flight, answer, history>>

Work(t) ==
  \/ wb_enqueue(t)
  \/ wb_process_queue(t)
  \/ wb_stack_unwind(t)
  \/ wb_request_unref(t)
  \/ wb_sync(t)
  \/ wb_resume_other_requests(t)
  \/ wb_ffr_cbk(t)
  \/ count_reply(t)
  \/ WindFlush(t)
  \/ StackUnwind(t)

Answers(e) ==
  \E i \in 1 .. Len(flight), ret \in {"ok", "error"} : Reply(e, i, ret)

(* Somebody goes on: a thread with what it has begun, or the child with what it
   was sent. *)
GoesOn == (\E t \in Thread : Work(t)) \/ (\E e \in ReplyThread : Answers(e))

Next ==
  \/ GoesOn
  \/ \E t \in CallThread, c \in Call :
       \/ \E off \in WriteOffset, size \in WriteSize : wb_writev(t, c, off, size)
       \/ \E op \in Other : wb_fop(t, c, op)
       \/ wb_flush(t, c)

(* The application need not make another call. *)
Spec == Init /\ [][Next]_vars /\ WF_vars(GoesOn)

-----------------------------------------------------------------------------
(* properties *)

Pending == {c \in ToSet(request) : IsWrite(c) /\ req[c].write_behind /\ ~req[c].got_reply}

(* The sizes never go below zero, a request is on the queue once and has at
   most two references, for the child and for the answer (wb_enqueue,
   wb_request_unref). *)
TypeOK ==
  /\ file.op_ret \in {"ok", "error"}
  /\ {file.disable_till, file.window_conf, file.window_current,
      file.aggregate_current} \subseteq Nat
  /\ \A i, j \in DOMAIN request : request[i] \in Issued /\ (i # j => request[i] # request[j])
  /\ \A c \in Call : req[c].refcount \in 0 .. 2

(* The two counters the decisions of wb_process_queue rest on are what the
   queue says: window_current the writes answered and not yet acknowledged by
   the child, aggregate_current the writes not yet sent, however requests were
   merged and whichever thread answered, sent or acknowledged them first. What
   is answered and not acknowledged by the child exceeds the window by no more
   than one write (__wb_mark_unwind_till). *)
CountersMatchQueue ==
  /\ file.window_current = Sum(req, Pending)
  /\ file.aggregate_current =
       Sum(req, {c \in ToSet(request) : IsWrite(c) /\ ~req[c].stack_wound})
  /\ file.window_current <= file.window_conf + Max(WriteSize)

(* A call that waited on the queue reaches the child only when the child is
   done with every write the application was told about before the call
   (__wb_get_other_requests). *)
OthersSeeEarlierWrites ==
  \A i \in DOMAIN flight :
    flight[i].op \in Other =>
      \A c \in flight[i].calls : req[c].before \subseteq history.written \cup history.failed

(* When an fsync or a flush succeeds, every write the application was told had
   succeeded before it is with the child, or its failure was returned by some
   call (wb_fsync_cbk, wb_ffr_cbk). *)
SyncCoversWrites ==
  [][\A c \in Issued :
       answer[c] = <<>> /\ answer'[c] = <<"ok">> /\ req[c].op \in {"FSYNC", "FLUSH"} =>
         /\ req[c].before \subseteq history.written \cup history.failed
         /\ req[c].before \cap history.unreported = {}]_vars

(* No call is answered twice, though queue and child both run the callback of a
   flush and two threads may run it at once. It takes an application with one
   call at a time, or flush-behind off: wb_ffr_cbk looks at disable_till again,
   which a write of another caller changes. *)
AnsweredOnce ==
  conf.callers = 1 \/ ~conf.flush_behind => \A c \in Call : Len(answer[c]) <= 1

(* Every call is answered in the end, a write that the window holds back too:
   there is always a later time at which none of the calls made is open, which
   with MaxCalls calls is to say that each of them is answered.
   Three ways to be forgotten are excepted, and nothing else forgets a call: a
   call waits behind a write when wb_stack_unwind drops its last reference,
   after which nobody processes the queue; a write waits for room when the last
   reply is in, and that makes room for one write before it only
   (__wb_mark_unwind_till); a flush loses an increment of reply_count in
   wb_ffr_cbk. *)
EveryCallAnswered ==
  []<>(\A c \in Issued : answer[c] # <<>> \/ c \in history.stranded \cup history.lost)

=============================================================================
