----------------------------- MODULE IoThreads -----------------------------
(***************************************************************************)
(* performance/io-threads (io-threads.c): every call is put into a call    *)
(* stub and queued for a worker thread, which winds it to the child.  Path *)
(* operations go to a random worker of the unordered pool; operations on   *)
(* an open file go to the worker of the ordered pool that the inode was    *)
(* associated with by its first such call, so that the child sees them in  *)
(* the order in which they came.  Worker threads above a minimum leave     *)
(* when they have been idle for u_idle_time / o_idle_time seconds, and the *)
(* next request for a worker without a thread starts it again.             *)
(*                                                                         *)
(* Everything done under a worker's qlock (and, for ordered requests, the  *)
(* inode's lock around it) is one step.  The child is external: it answers *)
(* any time after it was called.                                           *)
(***************************************************************************)
EXTENDS Naturals, Sequences, SequencesExt, FiniteSets

CONSTANTS
    Request,        \* the calls made in a behaviour
    Inode,
    MinThreads,     \* conf->min_o_threads, conf->min_u_threads
    MaxThreads,     \* conf->max_o_threads, conf->max_u_threads
    NoInode         \* "no inode"

VARIABLES
    req,        \* what became of every request
    worker,     \* conf->oworkers and conf->uworkers
    assoc,      \* the ordered worker in the inode's context, if any
    arrived,    \* the ordered requests of an inode as they were queued
    wound       \* ... and as the child got them

iotVars == <<req, worker, assoc, arrived, wound>>

Index == 0 .. MaxThreads - 1
Worker == {"o", "u"} \X Index
NoIndex == MaxThreads

-----------------------------------------------------------------------------
(* The calls: how each is scheduled.  A path operation that may concern an *)
(* open file asks fd_lookup for an fd of the calling process.  The calls   *)
(* are in the order of the file.                                           *)
Unordered(calls) == calls \X {"u"}
Ordered(calls) == calls \X {"o"}
ByOpenFd(calls) == calls \X {"u", "o"}

iot_lookup_setattr_fsetattr ==
    Unordered({"lookup", "setattr"}) \cup Ordered({"fsetattr"})

iot_access_readlink_mknod ==
    Unordered({"access", "readlink", "mknod"})

iot_mkdir_rmdir_symlink ==
    Unordered({"mkdir", "rmdir", "symlink"})

iot_rename_open ==
    Unordered({"rename", "open"})

iot_create_readv ==
    Unordered({"create"}) \cup Ordered({"readv"})

iot_flush_fsync_writev ==
    Ordered({"flush", "fsync", "writev"})

iot_lk_stat ==
    Ordered({"lk"}) \cup ByOpenFd({"stat"})

iot_fstat_truncate ==
    Ordered({"fstat"}) \cup ByOpenFd({"truncate"})

iot_ftruncate_checksum_unlink ==
    Unordered({"checksum", "unlink"}) \cup Ordered({"ftruncate"})

iot_link_opendir_fsyncdir ==
    Unordered({"link", "opendir"}) \cup Ordered({"fsyncdir"})

iot_statfs_setxattr ==
    Unordered({"statfs"}) \cup ByOpenFd({"setxattr"})

iot_getxattr_fgetxattr_fsetxattr ==
    Ordered({"fgetxattr", "fsetxattr"}) \cup ByOpenFd({"getxattr"})

iot_removexattr_readdirp_readdir ==
    Ordered({"readdirp", "readdir"}) \cup ByOpenFd({"removexattr"})

iot_xattrop_fxattrop ==
    Ordered({"fxattrop"}) \cup ByOpenFd({"xattrop"})

Calls ==
    iot_lookup_setattr_fsetattr \cup iot_access_readlink_mknod \cup
    iot_mkdir_rmdir_symlink \cup iot_rename_open \cup iot_create_readv \cup
    iot_flush_fsync_writev \cup iot_lk_stat \cup iot_fstat_truncate \cup
    iot_ftruncate_checksum_unlink \cup iot_link_opendir_fsyncdir \cup
    iot_statfs_setxattr \cup iot_getxattr_fgetxattr_fsetxattr \cup
    iot_removexattr_readdirp_readdir \cup iot_xattrop_fxattrop

-----------------------------------------------------------------------------
(* A worker.  at is where its thread is: "none", "top" (about to take      *)
(* qlock and look at the queue), "wait" (in iot_notify_wait), "woken" and  *)
(* "timedout" (the wait is over, qlock not yet taken again), "run" (about  *)
(* to resume the stub it took).                                            *)
DeadWorker == [state |-> "DEAD", at |-> "none", queue |-> <<>>, stub |-> {}]

\* pthread_create may fail, and iot_startup_worker says so
iot_startup_worker(w) ==
    {w, [w EXCEPT !.state = "ACTIVE", !.at = "top"]}

iot_notify_worker(w) ==
    [w EXCEPT !.at = IF @ = "wait" THEN "woken" ELSE @]

\* Mutant of _iot_queue: a request is queued without waking the worker.
queue_without_notify(w, r) == [w EXCEPT !.queue = Append(@, r)]

_iot_queue(w, r) == iot_notify_worker([w EXCEPT !.queue = Append(@, r)])

\* The outcomes: the worker with the request queued, or unchanged.
iot_request_queue_and_thread_fire(w, r) ==
    IF w.state = "ACTIVE" THEN {_iot_queue(w, r)}
    ELSE {IF v.state = "ACTIVE" THEN _iot_queue(v, r) ELSE v :
            v \in iot_startup_worker(w)}

\* With scaling on a thread index is drawn below MaxThreads, with scaling off
\* below MinThreads; init makes the two equal then.
iot_unordered_request_balancer == Index

iot_create_inode_worker_assoc == Index

\* Mutant of iot_ordered_request_balancer: every request draws a worker,
\* whatever the inode is associated with.
balancer_forgets(i) == iot_create_inode_worker_assoc

iot_ordered_request_balancer(i) ==
    IF assoc[i] = NoIndex THEN iot_create_inode_worker_assoc
                          ELSE {assoc[i]}

-----------------------------------------------------------------------------
Init ==
    /\ req = [r \in Request |-> [st |-> "idle", inode |-> NoInode]]
    /\ assoc = [i \in Inode |-> NoIndex]
    /\ arrived = [i \in Inode |-> <<>>]
    /\ wound = [i \in Inode |-> <<>>]
    \* workers_init: the first MinThreads workers are started; one whose
    \* thread cannot be created ends the loop, which init does not notice
    /\ \E n \in 0 .. MinThreads :
         worker = [w \in Worker |->
                     IF w[2] < n THEN [DeadWorker EXCEPT !.state = "ACTIVE",
                                                         !.at = "top"]
                     ELSE DeadWorker]

\* No memory for the stub or the request, or no thread: the caller is answered
\* with the error and the stub is destroyed.
Refuse(r) == req' = [req EXCEPT ![r].st = "refused"]

iot_schedule_unordered(r) ==
    \/ \E k \in iot_unordered_request_balancer :
         \E w \in iot_request_queue_and_thread_fire(worker[<<"u", k>>], r) :
            /\ worker' = [worker EXCEPT ![<<"u", k>>] = w]
            /\ \/ /\ w.state = "ACTIVE"
                  /\ req' = [req EXCEPT ![r].st = "queued"]
               \/ /\ w.state # "ACTIVE"
                  /\ Refuse(r)
            /\ UNCHANGED <<assoc, arrived, wound>>
    \/ /\ Refuse(r)
       /\ UNCHANGED <<worker, assoc, arrived, wound>>

iot_schedule_ordered(r, i) ==
    \/ \E k \in iot_ordered_request_balancer(i) :
         /\ assoc' = [assoc EXCEPT ![i] = k]
         /\ \/ \E w \in iot_request_queue_and_thread_fire(worker[<<"o", k>>], r) :
                 /\ worker' = [worker EXCEPT ![<<"o", k>>] = w]
                 /\ \/ /\ w.state = "ACTIVE"
                       /\ req' = [req EXCEPT ![r] = [st |-> "queued", inode |-> i]]
                       /\ arrived' = [arrived EXCEPT ![i] = Append(@, r)]
                    \/ /\ w.state # "ACTIVE"
                       /\ Refuse(r)
                       /\ UNCHANGED arrived
            \/ /\ Refuse(r)
               /\ UNCHANGED <<worker, arrived>>
         /\ UNCHANGED wound
    \/ /\ Refuse(r)
       /\ UNCHANGED <<worker, assoc, arrived, wound>>

Call(r) ==
    /\ req[r].st = "idle"
    /\ \E pool \in {c[2] : c \in Calls} :
         \/ pool = "u" /\ iot_schedule_unordered(r)
         \/ pool = "o" /\ \E i \in Inode : iot_schedule_ordered(r, i)

\* iot_dequeue_ordered, iot_dequeue_unordered: the head of the queue, or wait
iot_dequeue(w) ==
    /\ worker[w].at \in {"top", "woken"}
    /\ worker' = [worker EXCEPT ![w] =
         IF @.queue = <<>> THEN [@ EXCEPT !.at = "wait"]
         ELSE [@ EXCEPT !.queue = Tail(@), !.at = "run",
                        !.stub = {Head(worker[w].queue)}]]
    /\ UNCHANGED <<req, assoc, arrived, wound>>

\* The idle time is over.
IdleTimeout(w) ==
    /\ worker[w].at = "wait"
    /\ worker' = [worker EXCEPT ![w].at = "timedout"]
    /\ UNCHANGED <<req, assoc, arrived, wound>>

\* A left-over post of the semaphore, or a spurious wakeup.
Spurious(w) ==
    /\ worker[w].at = "wait"
    /\ worker' = [worker EXCEPT ![w].at = "woken"]
    /\ UNCHANGED <<req, assoc, arrived, wound>>

iot_can_exit(w) == w[2] >= MinThreads

\* iot_ordered_exit, iot_unordered_exit after a wait that timed out: the queue
\* is not looked at, although a request may have come before qlock was taken
iot_exit(w) ==
    /\ worker[w].at = "timedout"
    /\ worker' = [worker EXCEPT ![w] =
         IF iot_can_exit(w) THEN [@ EXCEPT !.state = "DEAD", !.at = "none"]
         ELSE [@ EXCEPT !.at = "woken"]]
    /\ UNCHANGED <<req, assoc, arrived, wound>>

\* call_resume in iot_worker_ordered, iot_worker_unordered: the wrapper winds
\* the call to the child
iot_worker(w) ==
    /\ worker[w].at = "run"
    /\ LET r == CHOOSE q \in worker[w].stub : TRUE
           i == req[r].inode
       IN  /\ req' = [req EXCEPT ![r].st = "wound"]
           /\ wound' = IF i = NoInode THEN wound
                       ELSE [wound EXCEPT ![i] = Append(@, r)]
    /\ worker' = [worker EXCEPT ![w].at = "top", ![w].stub = {}]
    /\ UNCHANGED <<assoc, arrived>>

\* The child answers, and the iot_*_cbk passes the answer on.
Answer(r) ==
    /\ req[r].st = "wound"
    /\ req' = [req EXCEPT ![r].st = "answered"]
    /\ UNCHANGED <<worker, assoc, arrived, wound>>

Next ==
    \/ \E r \in Request : Call(r) \/ Answer(r)
    \/ \E w \in Worker :
         iot_dequeue(w) \/ IdleTimeout(w) \/ Spurious(w) \/ iot_exit(w)
         \/ iot_worker(w)

\* A running thread goes on; the child answers.
Fairness ==
    /\ \A r \in Request : WF_iotVars(Answer(r))
    /\ \A w \in Worker :
         WF_iotVars(iot_dequeue(w) \/ iot_exit(w) \/ iot_worker(w))

Spec == Init /\ [][Next]_iotVars /\ Fairness

-----------------------------------------------------------------------------
TypeOK ==
    /\ \A r \in Request : req[r].st \in
         {"idle", "refused", "queued", "wound", "answered"}
    /\ \A w \in Worker :
         /\ worker[w].state = "DEAD" <=> worker[w].at = "none"
         /\ worker[w].at = "run" <=> worker[w].stub # {}

(* The child gets the operations on an open file in the order in which     *)
(* they were queued, over any number of idle exits and restarts of the     *)
(* worker that serves the file.                                            *)
OrderKept == \A i \in Inode : IsPrefix(wound[i], arrived[i])

(* A request waits in the queue of a worker that has a thread, or of one   *)
(* that is allowed to exit and did so while the request was being queued:  *)
(* with as many threads as workers, the default, none is ever left behind. *)
LeftBehind(w) == worker[w].queue # <<>> /\ worker[w].state = "DEAD"

NeverLeftBelowMin == \A w \in Worker : LeftBehind(w) => w[2] >= MinThreads

(* A queued request is answered, unless its worker left it behind.         *)
Settled(r) ==
    \/ req[r].st = "answered"
    \/ \E w \in Worker : LeftBehind(w) /\ r \in Range(worker[w].queue)

=============================================================================
