------------------------------ MODULE MCBrick -------------------------------
(* What a brick process is made of, each part on its own: call-stub, io-   *)
(* threads, protocol/server with its descriptor tables, and                *)
(* storage/posix. A behaviour is one of an instance, chosen in Init.       *)
EXTENDS Integers, Sequences, FiniteSets, TLC

CONSTANTS ServerFopsAll, ServerFopsTwo, ServerFopsThree, r1, r2, i1, NoInode, t1, t2,
          c1, c2, q1, q2, f1, f2

PF == INSTANCE PosixFops
AllPosixFops == DOMAIN PF!fops

SF == INSTANCE ServerFops
AllServerFops == SF!gf_fops
TwoServerFops == [open |-> AllServerFops.open, readv |-> AllServerFops.readv]
ThreeServerFops == TwoServerFops @@ [ftruncate |-> AllServerFops.ftruncate]

VARIABLE part \* which of the instances below this behaviour is of

-----------------------------------------------------------------------------
\* libglusterfs/src/call-stub.c
VARIABLES stub
stubVars == <<stub>>
stubOff == stub = 0
CS == INSTANCE CallStub

-----------------------------------------------------------------------------
\* performance/io-threads: one ordered and one unordered worker may exit
VARIABLES iot_req, worker, assoc, arrived, wound
iotVars == <<iot_req, worker, assoc, arrived, wound>>
iotOff == iot_req = 0 /\ worker = 0 /\ assoc = 0 /\ arrived = 0 /\ wound = 0
IOT == INSTANCE IoThreads WITH Request <- {r1, r2}, Inode <- {i1}, MinThreads <- 1,
    MaxThreads <- 2, req <- iot_req

-----------------------------------------------------------------------------
\* protocol/server: two sockets, two requests; every fop on one socket; and one request, for liveness
VARIABLES trans, conn, server_req, ref, flushing, wrong, accepts
serverVars == <<trans, conn, server_req, ref, flushing, wrong, accepts>>
serverOff == trans = 0 /\ conn = 0 /\ server_req = 0 /\ ref = 0 /\ flushing = 0
             /\ wrong = 0 /\ accepts = 0
SRV == INSTANCE Server WITH Trans <- {t1, t2}, Conn <- {c1, c2}, Req <- {q1, q2},
    File <- {1, 2}, FdUnit <- 1, MaxAccepts <- 2, Fops <- ServerFopsThree,
    req <- server_req
SRVOPS == INSTANCE Server WITH Trans <- {t1}, Conn <- {c1}, Req <- {q1}, File <- {1},
    FdUnit <- 1, MaxAccepts <- 1, Fops <- ServerFopsAll, req <- server_req
SRVONE == INSTANCE Server WITH Trans <- {t1, t2}, Conn <- {c1}, Req <- {q1},
    File <- {1}, FdUnit <- 1, MaxAccepts <- 3, Fops <- ServerFopsTwo,
    req <- server_req

-----------------------------------------------------------------------------
\* storage/posix: every operation, with a system call that fails and a restart
VARIABLES entry, file, desc, fd, op, gen_seq, janitor, nr_files, used, added, spoilt
posixVars == <<entry, file, desc, fd, op, gen_seq, janitor, nr_files, used, added,
               spoilt>>
posixOff == entry = 0 /\ file = 0 /\ desc = 0 /\ fd = 0 /\ op = 0
            /\ gen_seq = 0 /\ janitor = 0 /\ nr_files = 0 /\ used = 0
            /\ added = 0 /\ spoilt = 0
PSX == INSTANCE Posix WITH PosixName <- {"a", "b"}, Landfill <- {"b"},
    PosixReq <- {q1}, Fd <- {f1}, Descs <- 2, MaxFiles <- 2, MaxFaults <- 1,
    MaxOps <- 2, MaxBoots <- 2, Width <- 1, GenPerBoot <- 8, PosixFop <- AllPosixFops

-----------------------------------------------------------------------------
sumVars == <<part, stubVars, iotVars, serverVars, posixVars>>

Init ==
  \/ /\ iotOff /\ serverOff /\ posixOff
     /\ part = "stub" /\ CS!Init
  \/ /\ stubOff /\ serverOff /\ posixOff
     /\ part = "iot" /\ IOT!Init
  \/ /\ stubOff /\ iotOff /\ posixOff
     /\ \/ part = "srv" /\ SRV!Init
        \/ part = "srvops" /\ SRVOPS!Init
        \/ part = "srvone" /\ SRVONE!Init
  \/ /\ stubOff /\ iotOff /\ serverOff
     /\ part = "posix" /\ PSX!Init

Next ==
  \/ /\ UNCHANGED <<part, iotVars, serverVars, posixVars>>
     /\ part = "stub" /\ CS!Next
  \/ /\ UNCHANGED <<part, stubVars, serverVars, posixVars>>
     /\ part = "iot" /\ IOT!Next
  \/ /\ UNCHANGED <<part, stubVars, iotVars, posixVars>>
     /\ \/ part = "srv" /\ SRV!Next
        \/ part = "srvops" /\ SRVOPS!Next
        \/ part = "srvone" /\ SRVONE!Next
  \/ /\ UNCHANGED <<part, stubVars, iotVars, serverVars>>
     /\ part = "posix" /\ PSX!Next

Fairness ==
  /\ \A r \in {r1, r2} : WF_iotVars(part = "iot" /\ IOT!Answer(r))
  /\ \A w \in IOT!Worker :
       WF_iotVars(part = "iot" /\ (IOT!iot_dequeue(w) \/ IOT!iot_exit(w) \/ IOT!iot_worker(w)))
  /\ WF_serverVars(/\ part = "srvone" /\ server_req[q1] # SRVONE!Idle
                   /\ SRVONE!resolve_deep_cbk(q1) \/ SRVONE!server_open_cbk_end(q1) \/ SRVONE!Answer(q1))
  /\ \A t \in {t1, t2} : WF_serverVars(part = "srvone" /\ SRVONE!TransportCleanup(t))
  /\ WF_serverVars(part = "srvone" /\ SRVONE!server_connection_cleanup_flush_cbk(1))
  /\ WF_posixVars(part = "posix" /\ PSX!posix_janitor_thread_proc)

Spec == Init /\ [][Next]_sumVars /\ Fairness

-----------------------------------------------------------------------------
\* Whatever is taken is given back once: what a stub keeps (call-stub.c), the
\* references of a file, the numbers of a descriptor table and the connection
\* objects (server-protocol.c, server-helpers.c, fd.c), and the open descriptors
\* of the storage, which nr_files counts (posix.c).
NothingLeaks ==
  /\ part = "stub" => CS!RefsReturned
  /\ part = "srv" => SRV!RefAccount /\ SRV!FdNumbersSound /\ SRV!NoStaleConn
  /\ part = "srvops" => SRVOPS!RefAccount /\ SRVOPS!FdNumbersSound /\ SRVOPS!NoStaleConn
  /\ part = "srvone" => SRVONE!RefAccount /\ SRVONE!FdNumbersSound /\ SRVONE!NoStaleConn
  /\ part = "posix" => PSX!DescriptorsOwned

\* io-threads.c: the child gets the operations on an open file in the order in
\* which they were queued, and only a worker that is allowed to exit can leave
\* one behind. server-protocol.c: a reply names the operation asked for, which
\* was the one run, but for fentrylk and fsetxattr. posix.c: no two files have
\* the same generation, before and after restarts.
ServedTruly ==
  /\ part = "iot" => IOT!OrderKept /\ IOT!NeverLeftBelowMin
  /\ part = "srv" => SRV!AnsweredAsAsked
  /\ part = "srvops" => SRVOPS!AnsweredAsAsked
  /\ part = "srvone" => SRVONE!AnsweredAsAsked
  /\ part = "posix" => PSX!GenerationsDiffer

\* call-stub.c: a resumed call gets every argument that was stored. server-
\* helpers.c: cleanup flushes a file only when no socket of its connection is up.
\* posix.c: an operation that makes a name, ran alone and fails leaves its names
\* as they were.
StepsTakeBack ==
  [][ /\ part = "stub" => CS!ResumesWithAll
      /\ part = "srv" => SRV!CleanupOnlyWhenAllDown
      /\ part = "srvops" => SRVOPS!CleanupOnlyWhenAllDown
      /\ part = "srvone" => SRVONE!CleanupOnlyWhenAllDown
      /\ part = "posix" => PSX!FailureTakesBack]_sumVars

\* io-threads.c: a queued request is answered, unless its worker left it behind.
\* server-helpers.c: when the sockets are down for good every file is closed in
\* the end. posix.c: a descriptor handed to the janitor is closed.
EverythingSettles ==
  /\ \A r \in {r1, r2} :
       (part = "iot" /\ iot_req[r].st = "queued") ~> (part = "iot" /\ IOT!Settled(r))
  /\ <>[](part = "srvone" /\ SRVONE!AllDown) => <>[](part = "srvone" /\ SRVONE!NothingOpen)
  /\ \A d \in 1 .. 2 :
       (part = "posix" /\ PSX!WithJanitor(d)) ~> (part = "posix" /\ ~PSX!WithJanitor(d))

=============================================================================
