--------------------------------- MODULE Ha ---------------------------------
(***************************************************************************)
(* cluster/ha: several client translators that lead to ONE storage, and    *)
(* the fail-over between them.                                             *)
(*                                                                         *)
(* What the translator knows: heard (pvt->state, set by notify), ino (the  *)
(* state array in the context of an inode: the children that know it) and  *)
(* hfd (the hafd_t of an open file: the children that hold it open, and    *)
(* the one to start with).  call[r] is a frame with its ha_local_t.        *)
(*                                                                         *)
(* The children are external.  A call reaches a child if the link is up    *)
(* when it is wound; the link may then break before the call is executed   *)
(* or after it, and both look alike from here: ENOTCONN.  A call on a file *)
(* the child does not have open is refused with EBADFD without being sent. *)
(* A client answers every call it has pending before it connects again.    *)
(***************************************************************************)
EXTENDS Integers, FiniteSets

CONSTANTS
  N,          \* pvt->child_count
  Pref,       \* pvt->pref_subvol, or -1
  HaReq,      \* the calls from above
  HaKinds,    \* fops of HaFops: the kind of every fop
  HaFop,      \* the fops they ask for
  MaxLinkDown \* bound: how often a link breaks

VARIABLES link, isopen, heard, ino, hfd, call, breaks

haVars == <<link, isopen, heard, ino, hfd, call, breaks>>

Child == 0 .. N - 1

None == [known |-> FALSE, set |-> {}]
Known(S) == [known |-> TRUE, set |-> S]

Lowest(S) == CHOOSE c \in S : \A d \in S : c <= d

\* How a fop goes about its children.
Kind(cl) == HaKinds[cl.fop]

(***************************************************************************)
(* Frames.  asked counts what each child was sent, done and lost what the  *)
(* storage executed and how much of it was never reported.                 *)
(***************************************************************************)
Zero == [c \in Child |-> 0]

Frame(f) ==
  [st |-> "run", fop |-> f, active |-> -1, state |-> {}, tries |-> 0,
   count |-> 0, phase |-> f, ret |-> "notconn", revalidate |-> FALSE,
   revalidate_error |-> FALSE, out |-> Zero, sent |-> {}, asked |-> Zero,
   done |-> 0, lost |-> 0]

Idle == [Frame("stat") EXCEPT !.st = "idle"]

\* STACK_WIND of cl's operation ph to the children of C.
Wind(cl, C, ph) ==
  [cl EXCEPT
     !.phase = ph,
     !.out = [c \in Child |-> @[c] + (IF c \in C THEN 1 ELSE 0)],
     !.asked = [c \in Child |-> @[c] + (IF c \in C THEN 1 ELSE 0)],
     !.sent = (@ \ C) \cup
              {c \in C : link[c] /\ (Kind(cl) = "fd" => c \in isopen)}]

\* STACK_UNWIND: the answer goes up and the ha_local_t is gone.
Unwind(cl, ret) ==
  [cl EXCEPT !.st = "done", !.ret = ret, !.active = -1, !.tries = 0,
             !.count = 0, !.phase = cl.fop, !.sent = {},
             !.revalidate = FALSE, !.revalidate_error = FALSE]

\* children[-1] and a NULL private: the process is gone.
Crash(cl) == [cl EXCEPT !.st = "crash"]

----------------------------------------------------------------------------
(* Fail-over: fops on an inode or on an open file. *)

\* The child to start with: the preferred one if it is in the state array,
\* else the first that is.
FirstOf(pref, state) ==
  IF pref \in state THEN pref
  ELSE IF state = {} THEN -1 ELSE Lowest(state)

ha_alloc_init_inode(cl) ==
  [cl EXCEPT !.state = ino.set, !.tries = Cardinality(ino.set),
             !.active = FirstOf(Pref, ino.set)]

ha_alloc_init_fd(cl) ==
  [cl EXCEPT !.state = hfd.set, !.tries = Cardinality(hfd.set),
             !.active = FirstOf(IF Pref = -1 THEN hfd.active ELSE Pref,
                                hfd.set)]

StartFailOver(cl) ==
  LET l == IF Kind(cl) = "fd" THEN ha_alloc_init_fd(cl)
                              ELSE ha_alloc_init_inode(cl)
  IN  IF l.active = -1 THEN Unwind(l, "notconn")
                       ELSE Wind(l, {l.active}, l.fop)

\* Mutant of HA_TRANSPORT_NOTCONN: a call on an open file whose answer was
\* lost is sent again as well.
notconn_for_all(cl, res) == res \in {"notconn", "badfd"}

HA_TRANSPORT_NOTCONN(cl, res) ==
  res = (IF Kind(cl) = "fd" THEN "badfd" ELSE "notconn")

\* The state array of an inode is the one in its context, seen live; that of
\* an open file is the copy made at the start.
Rotation(cl) == IF Kind(cl) = "fd" THEN cl.state ELSE ino.set

\* The next child of S after c, around the ring.
NextAround(S, c) ==
  LET step == CHOOSE k \in 1 .. N :
                /\ (c + k) % N \in S
                /\ \A j \in 1 .. k - 1 : (c + j) % N \notin S
  IN  (c + step) % N

ha_handle_cbk(cl, c, res) ==
  IF HA_TRANSPORT_NOTCONN(cl, res) /\ cl.tries > 1
  THEN LET n == NextAround(Rotation(cl), cl.active)
       IN  Wind([cl EXCEPT !.tries = @ - 1, !.active = n], {n}, cl.fop)
  ELSE Unwind(cl, res)

----------------------------------------------------------------------------
(* lookup and open: every child at once. *)

ha_lookup(cl) ==
  Wind([cl EXCEPT !.revalidate = ino.known, !.count = N], Child, "lookup")

\* Each answer is held against the array of the inode (a revalidation) or
\* entered there; a child that changed its mind spoils a revalidation.
ha_lookup_cbk(cl, c, res) ==
  LET ok == res = "ok"
      l  == [cl EXCEPT
               !.revalidate_error =
                  @ \/ (cl.revalidate /\ (ok # (c \in ino.set))),
               !.ret = IF ok \/ @ = "ok" THEN "ok" ELSE res,
               !.count = @ - 1]
  IN  IF l.count # 0 THEN l
      ELSE Unwind(l, IF l.revalidate_error THEN "eio" ELSE l.ret)

\* With no child in the array nothing is wound, and nobody answers.
ha_open(cl) ==
  Wind([cl EXCEPT !.count = Cardinality(ino.set)], ino.set, cl.fop)

ha_open_cbk(cl, c, res) ==
  LET l == [cl EXCEPT
              !.ret = IF res = "ok" \/ @ = "ok" THEN "ok"
                      ELSE IF res = "err" THEN res ELSE @,
              !.count = @ - 1]
  IN  IF l.count # 0 THEN l ELSE Unwind(l, l.ret)

----------------------------------------------------------------------------
(* mknod, mkdir, symlink, link: one child after the other until it is      *)
(* made, then a lookup on each of the others.                              *)

After(cl) == {c \in cl.state : c > cl.active}

\* The children that are up, from the first.
StartAtFirst(cl) ==
  LET l == [cl EXCEPT !.state = heard, !.count = Cardinality(heard),
                      !.active = FirstOf(-1, heard)]
  IN  IF l.active = -1 THEN Crash(l) ELSE Wind(l, {l.active}, l.fop)

ha_mknod(cl) == StartAtFirst(cl)

\* A link is made to an inode whose array is there already.
ha_link(cl) == IF ino.known THEN StartAtFirst(cl) ELSE Unwind(cl, "err")

\* The answer of a child that was asked to make the inode ...
Made(cl, c, res) ==
  LET l == [cl EXCEPT !.ret = IF res = "ok" THEN "ok" ELSE res,
                      !.count = @ - 1]
  IN  IF l.count = 0 \/ After(l) = {} THEN Unwind(l, l.ret)
      ELSE LET n == [l EXCEPT !.active = Lowest(After(l))] IN
           IF l.ret = "ok" THEN Wind(n, After(l), "seek")
           ELSE Wind(n, {n.active}, n.fop)

\* ... and of one that was asked to look it up.
Sought(cl) ==
  LET l == [cl EXCEPT !.count = @ - 1]
  IN  IF l.count = 0 THEN Unwind(l, l.ret) ELSE l

ha_mknod_cbk(cl, c, res) ==
  IF cl.phase = "seek" THEN Sought(cl) ELSE Made(cl, c, res)

ha_mkdir_cbk(cl, c, res) == ha_mknod_cbk(cl, c, res)

ha_symlink_cbk(cl, c, res) == ha_mknod_cbk(cl, c, res)

ha_link_cbk(cl, c, res) == ha_mknod_cbk(cl, c, res)

----------------------------------------------------------------------------
(* create: like mknod, but the others are asked to create as well, without *)
(* O_EXCL.  Every answer, not only the first, looks for children after     *)
(* local->active: from three children on some are asked twice.             *)

ha_create(cl) == StartAtFirst(cl)

ha_create_cbk(cl, c, res) ==
  LET l == [cl EXCEPT !.ret = IF res = "ok" \/ @ = "ok" THEN "ok" ELSE res,
                      !.count = @ - 1]
  IN  IF l.count = 0 \/ After(l) = {} THEN Unwind(l, l.ret)
      ELSE LET n == [l EXCEPT !.active = Lowest(After(l))] IN
           IF l.ret = "ok" THEN Wind(n, After(l), "create")
           ELSE Wind(n, {n.active}, "create")

----------------------------------------------------------------------------
(* statfs, stats, getspec, lk *)

ha_statfs(cl) ==
  LET a == IF Pref = -1 THEN 0 ELSE Pref
  IN  Wind([cl EXCEPT !.active = a, !.tries = N], {a}, "statfs")

\* The fail-over goes through a private pointer nobody set.
ha_statfs_cbk(cl, c, res) ==
  IF res = "ok" THEN Unwind(cl, res) ELSE Crash(cl)

ha_stats(cl) ==
  IF heard = {} THEN Unwind(cl, "notconn")
  ELSE Wind(cl, {Lowest(heard)}, cl.fop)

ha_stats_cbk(cl, c, res) ==
  LET rest == {d \in heard : d > c}
  IN  IF res = "notconn" /\ rest # {}
      THEN Wind(cl, {Lowest(rest)}, cl.fop)
      ELSE Unwind(cl, res)

\* local->active is -1 where it is tested: no lock is ever asked for.
ha_lk(cl) == Unwind(cl, "notconn")

----------------------------------------------------------------------------
(* A call comes in; a child answers. *)

Entry(cl) ==
  CASE Kind(cl) \in {"inode", "fd"} -> StartFailOver(cl)
    [] cl.fop = "lookup"    -> ha_lookup(cl)
    [] Kind(cl) = "open"    -> ha_open(cl)
    [] cl.fop = "link"      -> ha_link(cl)
    [] cl.fop \in {"mknod", "mkdir", "symlink"} -> ha_mknod(cl)
    [] cl.fop = "create"    -> ha_create(cl)
    [] cl.fop = "statfs"    -> ha_statfs(cl)
    [] Kind(cl) = "mop"     -> ha_stats(cl)
    [] cl.fop = "lk"        -> ha_lk(cl)

Callback(cl, c, res) ==
  CASE Kind(cl) \in {"inode", "fd"} -> ha_handle_cbk(cl, c, res)
    [] cl.fop = "lookup"    -> ha_lookup_cbk(cl, c, res)
    [] Kind(cl) = "open"    -> ha_open_cbk(cl, c, res)
    [] cl.fop = "mknod"     -> ha_mknod_cbk(cl, c, res)
    [] cl.fop = "mkdir"     -> ha_mkdir_cbk(cl, c, res)
    [] cl.fop = "symlink"   -> ha_symlink_cbk(cl, c, res)
    [] cl.fop = "link"      -> ha_link_cbk(cl, c, res)
    [] cl.fop = "create"    -> ha_create_cbk(cl, c, res)
    [] cl.fop = "statfs"    -> ha_statfs_cbk(cl, c, res)
    [] Kind(cl) = "mop"     -> ha_stats_cbk(cl, c, res)

\* What the caller must have before it asks: a new inode for what makes one,
\* a looked-up inode or an open file for what uses one.
Allowed(f) ==
  CASE HaKinds[f] = "fd" \/ f = "lk" -> hfd.known
    [] HaKinds[f] = "inode" \/ HaKinds[f] = "open" \/ f = "link" -> ino.known
    [] f \in {"mknod", "mkdir", "symlink", "create"} -> ~ino.known
    [] OTHER -> TRUE

\* The open file gets its hafd_t, the new inode its array, when the call
\* comes in.
Ask(r, f) ==
  LET cl == Entry(Frame(f)) IN
  /\ call[r].st = "idle" /\ Allowed(f)
  /\ call' = [call EXCEPT ![r] = cl]
  /\ ino' = IF ino.known \/ HaKinds[f] \notin {"lookup", "make", "create"}
            THEN ino ELSE Known({})
  /\ IF HaKinds[f] \in {"open", "create"}
     THEN /\ ~hfd.known
          /\ \E a \in (IF Pref = -1 /\ f = "open" THEN Child
                       ELSE IF f = "open" THEN {-1} ELSE {0}) :
               hfd' = [known |-> TRUE, set |-> {}, active |-> a]
     ELSE UNCHANGED hfd
  /\ UNCHANGED <<link, isopen, heard, breaks>>

Opens(cl) == Kind(cl) \in {"open", "create"}

\* Child c answers; what it says is entered in the arrays.
Answer(r, c, res) ==
  LET ran == res = "ok" /\ link[c] /\ c \in call[r].sent
      cl  == [call[r] EXCEPT !.out[c] = @ - 1,
                             !.done = @ + (IF ran THEN 1 ELSE 0)]
  IN
  /\ call[r].out[c] > 0
  /\ res \in (IF c \notin call[r].sent
              THEN {IF Kind(cl) = "fd" THEN "badfd" ELSE "notconn"}
              ELSE IF link[c] THEN {"ok", "err"} ELSE {"notconn"})
  /\ call' = [call EXCEPT ![r] =
                IF cl.st = "run" THEN Callback(cl, c, res) ELSE cl]
  /\ ino' = IF /\ res = "ok" /\ Kind(cl) \in {"lookup", "make", "create"}
               /\ ~(Kind(cl) = "lookup" /\ cl.revalidate)
            THEN Known(ino.set \cup {c}) ELSE ino
  /\ hfd' = IF res = "ok" /\ Opens(cl) THEN [hfd EXCEPT !.set = @ \cup {c}]
            ELSE IF res = "badfd" THEN [hfd EXCEPT !.set = @ \ {c}]
            ELSE hfd
  /\ isopen' = IF res = "ok" /\ Opens(cl) THEN isopen \cup {c} ELSE isopen
  /\ UNCHANGED <<link, heard, breaks>>

Pending(c) == {r \in HaReq : call[r].out[c] > 0 /\ c \in call[r].sent}

\* The link to c breaks.  Of the calls under way some were executed.
Break(c) ==
  /\ link[c] /\ c \in heard /\ breaks < MaxLinkDown
  /\ breaks' = breaks + 1
  /\ link' = [link EXCEPT ![c] = FALSE]
  /\ isopen' = isopen \ {c}
  /\ \E ran \in SUBSET Pending(c) :
       call' = [r \in HaReq |->
                  IF r \in ran
                  THEN [call[r] EXCEPT !.done = @ + 1, !.lost = @ + 1]
                  ELSE call[r]]
  /\ UNCHANGED <<heard, ino, hfd>>

\* The client connects again, having answered what was pending, and may
\* have opened the file again.
Mend(c) ==
  /\ ~link[c] /\ c \notin heard
  /\ \A r \in HaReq : call[r].out[c] = 0
  /\ link' = [link EXCEPT ![c] = TRUE]
  /\ \E again \in {{}, {c} \cap hfd.set} : isopen' = isopen \cup again
  /\ UNCHANGED <<heard, ino, hfd, call, breaks>>

notify(c) ==
  /\ (c \in heard) # link[c]
  /\ heard' = IF link[c] THEN heard \cup {c} ELSE heard \ {c}
  /\ UNCHANGED <<link, isopen, ino, hfd, call, breaks>>

Quiet == \A r \in HaReq : call[r].st # "run" /\ call[r].out = Zero

\* The caller is through with the file.
ha_close ==
  /\ hfd.known /\ Quiet
  /\ hfd' = [known |-> FALSE, set |-> {}, active |-> 0]
  /\ isopen' = {}
  /\ UNCHANGED <<link, heard, ino, call, breaks>>

ha_closedir == ha_close

\* ... and with the inode: it is looked up afresh when it is needed again.
ha_forget ==
  /\ ino.known /\ ~hfd.known /\ Quiet
  /\ ino' = None
  /\ UNCHANGED <<link, isopen, heard, hfd, call, breaks>>

NoCrash == \A r \in HaReq : call[r].st # "crash"

Init ==
  /\ link \in [Child -> BOOLEAN]
  /\ heard = {c \in Child : link[c]}
  /\ ino \in {None} \cup {Known(S) : S \in (SUBSET Child) \ {{}}}
  /\ \/ hfd = [known |-> FALSE, set |-> {}, active |-> 0]
     \/ \E S \in (SUBSET ino.set) \ {{}} :
          hfd = [known |-> TRUE, set |-> S, active |-> 0]
  /\ isopen \in SUBSET (hfd.set \cap heard)
  /\ call = [r \in HaReq |-> Idle]
  /\ breaks = 0

HaStep ==
  /\ NoCrash
  /\ \/ \E r \in HaReq, f \in HaFop : Ask(r, f)
     \/ \E c \in Child : Break(c) \/ Mend(c) \/ notify(c)
     \/ ha_closedir
     \/ ha_forget

HaAnswer ==
  /\ NoCrash
  /\ \E r \in HaReq, c \in Child, res \in {"ok", "err", "notconn", "badfd"} :
       Answer(r, c, res)

Next == HaStep \/ HaAnswer

\* A client answers every call: with the server's reply or, when the link is
\* gone or the call bails out, with ENOTCONN.
Spec == Init /\ [][Next]_haVars /\ WF_haVars(HaAnswer)

----------------------------------------------------------------------------
\* The callbacks of a create that two children are asked for at once each
\* ask the children after local->active again.
AsksAgain(cl) == cl.fop = "create" /\ Cardinality(cl.state) > 2

\* A frame is unwound once, when nothing it wound is still out: a callback
\* that came later would work on memory that is free.
UnwoundLast ==
  \A r \in HaReq :
    call[r].st = "done" => call[r].out = Zero \/ AsksAgain(call[r])

\* The fail-over ends: no child is asked twice for one call, but by such a
\* create, which asks the last child twice.
EachChildOnce ==
  \A r \in HaReq, c \in Child :
    \/ call[r].asked[c] <= 1
    \/ AsksAgain(call[r]) /\ c > 1 /\ call[r].asked[c] <= c

\* A call on an open file (a write) is executed at most once, whatever
\* breaks: only what was not sent is sent elsewhere.  A call by path may be
\* executed again, but only when an answer was lost.
ExecutedOnce ==
  \A r \in HaReq :
    LET cl == call[r] IN
    /\ Kind(cl) = "fd" => cl.done <= 1
    /\ Kind(cl) = "inode" => cl.done <= 1 + cl.lost

\* "Not connected" is said only of a call that every child of its array was
\* asked, or of a call on an open file that was under way.
AllTriedBeforeGivingUp ==
  \A r \in HaReq :
    LET cl == call[r] IN
    cl.st = "done" =>
      /\ Kind(cl) = "inode" /\ cl.ret = "notconn" =>
           \A c \in cl.state : cl.asked[c] > 0
      /\ Kind(cl) = "fd" /\ cl.ret = "badfd" =>
           \A c \in cl.state : cl.asked[c] > 0

\* Every call is answered, unless the process is gone or an open found no
\* child that knows the inode.
Asked(r) == call[r].st = "run" /\ call[r].asked # Zero
Answered(r) == call[r].st = "done" \/ ~NoCrash
EveryCallAnswered == \A r \in HaReq : Asked(r) ~> Answered(r)
=============================================================================
