------------------------------- MODULE Server -------------------------------
(***************************************************************************)
(* protocol/server: transports, the connection object the transports of one *)
(* client process share, the requests in progress and the descriptors the   *)
(* client holds open (xlators/protocol/server/src/server-protocol.c,         *)
(* server-helpers.c, server-resolve.c).  The volume below answers requests   *)
(* in any order and from any thread; the event thread reads requests and     *)
(* notices disconnections.  What a name resolves to is left open here        *)
(* (ServerResolve has it), and the lock tables are those of LockDomain.      *)
(*                                                                         *)
(*   trans   each transport: whether its socket is up, and the connection   *)
(*           object it is bound to (xl_private)                             *)
(*   conn    the connection objects: ref, active_transports, whether a       *)
(*           volume is bound, whether it is on conf->conns, the fd table     *)
(*   req     the requests in progress: the transport whose reference the     *)
(*           frame holds, the functions it runs, the file of its state       *)
(*   ref     refcount of each file (fd_t); 0 when not allocated or freed     *)
(*   flushing files whose cleanup flush is under way                         *)
(*   wrong   <<asked, wound, answered>> of the replies that do not name the   *)
(*           operation the client asked for                                 *)
(*   accepts connections accepted so far                                    *)
(***************************************************************************)
EXTENDS Integers, FiniteSets

CONSTANTS
  Trans, Conn, Req, File, FdUnit, MaxAccepts,
  Fops    \* the requests clients send: gf_fops of ServerFops, or a part of it

VARIABLES trans, conn, req, ref, flushing, wrong, accepts

serverVars == <<trans, conn, req, ref, flushing, wrong, accepts>>

NoFile == 0
None == "none"
FT == INSTANCE FdTable WITH NoFile <- NoFile, Unit <- FdUnit

Idle == [st |-> "idle"]
Gone == [st |-> "gone"]

Init ==
    /\ trans = [t \in Trans |-> [up |-> FALSE, conn |-> None]]
    /\ conn = [c \in Conn |-> Gone]
    /\ req = [q \in Req |-> Idle]
    /\ ref = [f \in File |-> 0]
    /\ flushing = {}
    /\ wrong = {}
    /\ accepts = 0

(***************************************************************************)
(* Connection objects.                                                     *)
(***************************************************************************)
\* do_fd_cleanup: the table's reference on each file goes to a flush.
do_fd_cleanup(c) == IF conn[c].bound THEN FT!FilesOf(conn[c].fdtable) ELSE {}

\* The last reference: flush what is left in the table, free the object.
server_connection_destroy(c) ==
    /\ conn' = [conn EXCEPT ![c] = Gone]
    /\ flushing' = flushing \cup do_fd_cleanup(c)

server_connection_put(c) ==
    IF conn[c].ref = 1 THEN server_connection_destroy(c)
    ELSE conn' = [conn EXCEPT ![c].ref = @ - 1] /\ UNCHANGED flushing

\* The object of the client's process, found on the list or made.
server_connection_get(c, bound) ==
    IF conn[c] # Gone
    THEN conn' = [conn EXCEPT ![c].ref = @ + 1, ![c].active = @ + 1,
                              ![c].bound = @ \/ bound]
    ELSE /\ \A d \in Conn : conn[d] = Gone
         /\ conn' = [conn EXCEPT ![c] = [st |-> "live", ref |-> 1, active |-> 1,
                                         bound |-> bound,
                                         fdtable |-> FT!gf_fd_fdtable_alloc]]

\* POLLERR: when the last transport goes, the files are taken and flushed.
server_connection_cleanup(c) ==
    LET last == conn[c].active = 1
        all == FT!gf_fd_fdtable_get_all_fds(conn[c].fdtable)
    IN  /\ conn' = [conn EXCEPT ![c].active = @ - 1,
                                ![c].fdtable = IF last THEN all.left ELSE @]
        /\ flushing' = flushing \cup (IF last THEN do_fd_cleanup(c) ELSE {})

(***************************************************************************)
(* Transports.  A transport lives while its socket is up or a request's      *)
(* state holds a reference; then TRANSPORT_CLEANUP gives up the connection.  *)
(***************************************************************************)
Users(t) == {q \in Req : req[q] # Idle /\ req[q].trans = t}

Accept(t) ==
    /\ ~ trans[t].up /\ trans[t].conn = None /\ Users(t) = {}
    /\ accepts < MaxAccepts
    /\ trans' = [trans EXCEPT ![t].up = TRUE]
    /\ accepts' = accepts + 1
    /\ UNCHANGED <<conn, req, ref, flushing, wrong>>

\* The handshake; bound is whether the volume was found and access granted.
mop_setvolume(t) ==
    /\ trans[t].up /\ trans[t].conn = None
    /\ \E c \in Conn, bound \in BOOLEAN :
           /\ server_connection_get(c, bound)
           /\ trans' = [trans EXCEPT ![t].conn = c]
    /\ UNCHANGED <<req, ref, flushing, wrong, accepts>>

\* notify with POLLERR.
PollErr(t) ==
    /\ trans[t].up
    /\ trans' = [trans EXCEPT ![t].up = FALSE]
    /\ IF trans[t].conn = None THEN UNCHANGED <<conn, flushing>>
       ELSE server_connection_cleanup(trans[t].conn)
    /\ UNCHANGED <<req, ref, wrong, accepts>>

\* notify with TRANSPORT_CLEANUP, when the last reference was dropped.
TransportCleanup(t) ==
    /\ ~ trans[t].up /\ trans[t].conn # None /\ Users(t) = {}
    /\ trans' = [trans EXCEPT ![t].conn = None]
    /\ server_connection_put(trans[t].conn)
    /\ UNCHANGED <<req, ref, wrong, accepts>>

(***************************************************************************)
(* Requests.                                                               *)
(***************************************************************************)
\* The state gives up its file and, by going idle, its transport.
free_state(q, held) ==
    /\ req' = [req EXCEPT ![q] = Idle]
    /\ ref' = [f \in File |-> ref[f] - IF f = held THEN 1 ELSE 0]
    /\ UNCHANGED <<trans, conn, flushing>>

protocol_server_reply(asked, wound, answered) ==
    wrong' = wrong \cup IF asked = answered /\ wound \in {asked, None} THEN {}
                        ELSE {<<asked, wound, answered>>}

\* The resume function found its file: create one for an open, then wind.
Resume(q, t, op, resume, file) ==
    /\ req' = [req EXCEPT ![q] = [st |-> "wound", trans |-> t, op |-> op,
                                  resume |-> resume, file |-> file]]
    /\ ref' = [f \in File |-> ref[f] + IF f = file THEN 1 ELSE 0]
    /\ UNCHANGED wrong

Fresh == {f \in File : ref[f] = 0 /\ f \notin flushing
                       /\ \A q \in Req : req[q] # Idle => req[q].file # f
                       /\ \A c \in Conn : conn[c] # Gone => f \notin FT!FilesOf(conn[c].fdtable)}

WindFound(q, t, op, resume) ==
    IF resume.creates
    THEN Fresh # {} /\ Resume(q, t, op, resume, CHOOSE f \in Fresh : \A g \in Fresh : f <= g)
    ELSE Resume(q, t, op, resume, NoFile)

\* A request arrives on a bound transport.  The event thread decodes it and
\* resolves what it names until something has to be looked up in the volume.
protocol_server_interpret(q, t, op) ==
    /\ trans[t].up /\ trans[t].conn # None /\ conn[trans[t].conn].bound
    /\ req[q] = Idle
    /\ LET r == Fops[op]
           table == conn[trans[t].conn].fdtable
       IN  \/ /\ \E cbk \in r.undecoded : protocol_server_reply(op, None, cbk.op)
              /\ UNCHANGED <<req, ref>>
           \/ /\ r.by = "fd"
              /\ \E no \in 0 .. table.max :
                     LET file == FT!gf_fd_fdptr_get(table, no)
                     IN  IF file = NoFile
                         THEN /\ protocol_server_reply(op, None, r.resume.refused.op)
                              /\ UNCHANGED <<req, ref>>
                         ELSE Resume(q, t, op, r.resume, file)
           \/ /\ r.by # "fd"
              /\ protocol_server_reply(op, None, r.resume.refused.op)
              /\ UNCHANGED <<req, ref>>
           \/ /\ r.by # "fd"
              /\ WindFound(q, t, op, r.resume)
           \/ /\ r.by # "fd"
              /\ req' = [req EXCEPT ![q] = [st |-> "deep", trans |-> t, op |-> op,
                                            resume |-> r.resume, file |-> NoFile]]
              /\ UNCHANGED <<ref, wrong>>
    /\ UNCHANGED <<trans, conn, flushing, accepts>>

\* The lookups of a path's components end, and the request is resumed.
resolve_deep_cbk(q) ==
    /\ req[q].st = "deep"
    /\ \/ /\ WindFound(q, req[q].trans, req[q].op, req[q].resume)
          /\ UNCHANGED <<trans, conn, flushing>>
       \/ /\ free_state(q, NoFile)
          /\ protocol_server_reply(req[q].op, None, req[q].resume.refused.op)
    /\ UNCHANGED accepts

\* The volume answers.  A new file is first entered in the table ...
Number(q) ==
    /\ req[q].st = "wound" /\ "number" \in req[q].resume.cbk.does
    /\ LET c == trans[req[q].trans].conn
       IN  conn' = [conn EXCEPT ![c].fdtable = FT!gf_fd_unused_get(@, req[q].file).left]
    /\ req' = [req EXCEPT ![q].st = "numbered"]
    /\ UNCHANGED <<trans, ref, flushing, wrong, accepts>>

\* Mutant of server_open_cbk_end: fd_ref is forgotten.
open_unreferenced(q) ==
    /\ req[q].st = "numbered"
    /\ free_state(q, req[q].file)
    /\ protocol_server_reply(req[q].op, req[q].resume.fop, req[q].resume.cbk.op)
    /\ UNCHANGED accepts

\* ... and then referenced for it, before the reply drops the state's own.
server_open_cbk_end(q) ==
    /\ req[q].st = "numbered"
    /\ free_state(q, NoFile)
    /\ protocol_server_reply(req[q].op, req[q].resume.fop, req[q].resume.cbk.op)
    /\ UNCHANGED accepts

\* Any other answer, and a failed open.
Answer(q) ==
    /\ req[q].st = "wound"
    /\ free_state(q, req[q].file)
    /\ protocol_server_reply(req[q].op, req[q].resume.fop, req[q].resume.cbk.op)
    /\ UNCHANGED accepts

\* The client gives a number back (server_releasedir is the same).
server_release(t, no) ==
    /\ trans[t].up /\ trans[t].conn # None /\ conn[trans[t].conn].bound
    /\ LET c == trans[t].conn
           put == FT!gf_fd_put(conn[c].fdtable, no)
       IN  /\ conn' = [conn EXCEPT ![c].fdtable = put.left]
           /\ ref' = [f \in File |-> ref[f] - IF f = put.fd THEN 1 ELSE 0]
    /\ UNCHANGED <<trans, req, flushing, wrong, accepts>>

server_connection_cleanup_flush_cbk(f) ==
    /\ f \in flushing
    /\ flushing' = flushing \ {f}
    /\ ref' = [ref EXCEPT ![f] = @ - 1]
    /\ UNCHANGED <<trans, conn, req, wrong, accepts>>

Numbers == UNION {0 .. conn[c].fdtable.max - 1 : c \in {d \in Conn : conn[d] # Gone}}

Next ==
    \/ \E t \in Trans : Accept(t) \/ mop_setvolume(t) \/ PollErr(t) \/ TransportCleanup(t)
    \/ \E t \in Trans, q \in Req, op \in DOMAIN Fops : protocol_server_interpret(q, t, op)
    \/ \E t \in Trans, no \in Numbers : server_release(t, no)
    \/ \E q \in Req : req[q] # Idle /\ (resolve_deep_cbk(q) \/ Number(q)
                                        \/ server_open_cbk_end(q) \/ Answer(q))
    \/ \E f \in File : server_connection_cleanup_flush_cbk(f)

\* The volume answers every call wound to it and every cleanup flush; a
\* descriptor in the table is referenced by the thread that entered it.
Fairness ==
    /\ \A q \in Req : WF_serverVars(req[q] # Idle /\ (resolve_deep_cbk(q)
                          \/ server_open_cbk_end(q) \/ Answer(q)))
    /\ \A t \in Trans : WF_serverVars(TransportCleanup(t))
    /\ \A f \in File : WF_serverVars(server_connection_cleanup_flush_cbk(f))

Spec == Init /\ [][Next]_serverVars /\ Fairness

(***************************************************************************)
(* Properties.                                                             *)
(***************************************************************************)
Holders(f) ==
    Cardinality({c \in Conn : conn[c] # Gone /\ f \in FT!FilesOf(conn[c].fdtable)})
    + Cardinality({q \in Req : req[q] # Idle /\ req[q].file = f})
    + IF f \in flushing THEN 1 ELSE 0

\* Every file is counted once for the table that numbers it, each request that
\* uses it and its cleanup flush, so that it is closed with the last of them.
\* The one exception is the time between gf_fd_unused_get and fd_ref in the
\* callback of an open, when the table's share is not counted yet: a cleanup
\* that takes the file and finishes in that window closes it under the callback.
RefAccount ==
    \A f \in File : Holders(f) =
        ref[f] + Cardinality({q \in Req : req[q] # Idle /\ req[q].st = "numbered"
                                         /\ req[q].file = f})

\* The descriptor numbers of a connection stay sound through releases, cleanups
\* that empty the table without resetting its first free entry, and expansion.
FdNumbersSound == \A c \in Conn : conn[c] # Gone => FT!Sound(conn[c].fdtable)

\* No transport, and so no request in progress, is left with the address of a
\* connection object that server_connection_destroy has freed; and the object
\* counts the sockets that are up.
NoStaleConn ==
    /\ \A t \in Trans : trans[t].conn # None => conn[trans[t].conn] # Gone
    /\ \A c \in Conn : conn[c] # Gone =>
           /\ conn[c].ref = Cardinality({t \in Trans : trans[t].conn = c})
           /\ conn[c].active = Cardinality({t \in Trans : trans[t].conn = c /\ trans[t].up})

\* Every reply names the operation the client asked for, and that operation was
\* run: except that server_fentrylk resumes in server_finodelk_resume and
\* server_fsetxattr answers through server_setxattr_cbk.
AnsweredAsAsked ==
    \A w \in wrong :
        \/ w[1] = "fentrylk" /\ w[3] = "finodelk" /\ w[2] \in {"finodelk", None}
        \/ w[1] = "fsetxattr" /\ w[3] = "setxattr" /\ w[2] \in {"fsetxattr", None}

\* A client whose second connection is still up keeps its open files: cleanup
\* flushes a file only when no transport of the connection is up any more.
CleanupOnlyWhenAllDown ==
    \A f \in flushing' \ flushing : \A t \in Trans, c \in Conn :
        conn[c] # Gone /\ f \in FT!FilesOf(conn[c].fdtable) /\ trans[t].conn = c
            => ~ trans'[t].up

\* When a client's sockets are all down for good, every file it had open, also
\* by an open that was answered after the disconnection, is closed in the end.
AllDown == \A t \in Trans : ~ trans[t].up
NothingOpen == \A f \in File : ref[f] = 0

=============================================================================
