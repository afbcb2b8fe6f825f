------------------------ MODULE AfrTransactionProofs ------------------------
(* The transactions of cluster/afr, for any number of children, callers,
   descriptors and blocks: type correctness, and mutual exclusion of writes. *)
EXTENDS AfrTransaction, WellFoundedInduction, TLAPS

-----------------------------------------------------------------------------
(* The phases keep a local state well-formed. *)

\* A set of natural numbers that is not empty has a least element.
LEMMA NatSetHasMinimum ==
  ASSUME NEW S, S \subseteq Nat, S # {}
  PROVE  \E x \in S : \A y \in S : x <= y
<1> DEFINE Less == OpToRel(<, Nat)
<1>1. \A x, y \in Nat : y < x => <<y, x>> \in Less
  BY Zenon DEF OpToRel
<1>2. IsWellFoundedOn(Less, Nat)
  BY ZenonT(30), NatLessThanWellFounded
<1> HIDE DEF Less
<1>3. PICK x \in S : \A y \in S : ~ (<<y, x>> \in Less)
  BY ZenonT(30), <1>2, WFMin
<1>4. ASSUME NEW y \in S PROVE x <= y
  <2>1. x \in Nat /\ y \in Nat
    OBVIOUS
  <2>2. ~(y < x)
    BY <1>1, <1>3, <2>1, Zenon
  <2> QED
    BY <2>1, <2>2
<1> QED
  BY <1>4

\* The lowest child of a set is one of the set.
LEMMA LowestIsElement ==
  ASSUME NEW S, S \subseteq Child, S # {}
  PROVE  Lowest(S) \in S
<1>1. S \subseteq Nat
  BY ChildAssumption DEF Child
<1> QED
  BY ZenonT(30), <1>1, NatSetHasMinimum DEF Lowest

(* A function with values in 0 .. N has a greatest value on a non-empty set. *)
LEMMA HasGreatest ==
  ASSUME NEW S, S # {}, NEW N \in Nat, NEW f, \A i \in S : f[i] \in 0 .. N
  PROVE  \E i \in S : \A j \in S : f[j] <= f[i]
<1> DEFINE T == {N - f[i] : i \in S}
<1>1. T \subseteq Nat /\ T # {}
  OBVIOUS
<1>2. PICK t \in T : \A u \in T : t <= u
  BY ZenonT(30), <1>1, NatSetHasMinimum
<1>3. PICK i \in S : t = N - f[i]
  OBVIOUS
<1>4. ASSUME NEW j \in S PROVE f[j] <= f[i]
  <2>1. N - f[i] <= N - f[j]
    BY <1>2, <1>3
  <2> QED
    BY <2>1
<1> QED
  BY <1>4

\* The types of what is built from the constants.
LEMMA ConstantTypes ==
  /\ Child \subseteq Nat /\ Block \subseteq Nat /\ NoSource \in Int
  /\ \A n \in {-1, 0, 1} : All(n) \in [Child -> {-1, 0, 1}]
  /\ NoHeal \in SelfHeal /\ Idle \in Local /\ Closed \in FdCtx
<1>1. Child \subseteq Nat /\ Block \subseteq Nat /\ NoSource \in Int
  BY ChildAssumption, BoundAssumption DEF Child, Block, NoSource
<1>2. \A n \in {-1, 0, 1} : All(n) \in [Child -> {-1, 0, 1}]
  BY DEF All
<1>3. NoHeal \in SelfHeal
  BY DEF NoHeal, SelfHeal, Unread
<1>4. All("none") \in [Child -> {"none", "sent", "done", "lost"}]
  BY DEF All
<1>5. Idle \in Local
  BY <1>2, <1>3, <1>4 DEF Idle, Local, Pc
<1>6. Closed \in FdCtx
  BY DEF Closed, FdCtx
<1> QED
  BY <1>1, <1>2, <1>3, <1>5, <1>6

\* The size of a copy is within the blocks.
LEMMA SizeType ==
  ASSUME NEW c \in Child PROVE size(c) \in 0 .. BlockCount
<1> DEFINE S == {b \in Block : data[c][b] # 0}
<1> DEFINE id == [b \in Block |-> b]
<1>1. CASE S = {}
  BY <1>1, BoundAssumption DEF size
<1>2. CASE S # {}
  <2>1. \A b \in S : id[b] \in 0 .. BlockCount
    BY BoundAssumption DEF Block
  <2>2. PICK b \in S : \A a \in S : id[a] <= id[b]
    BY ZenonT(30), <1>2, <2>1, BoundAssumption, HasGreatest
  <2>3. ASSUME NEW a \in Block, a > b PROVE data[c][a] = 0
    <3>1. ~(a <= b)
      BY <2>3, ConstantTypes
    <3>2. a \in S => a <= b
      BY <2>2
    <3> QED
      BY <3>1, <3>2
  <2>4. \E a \in Block : data[c][a] # 0 /\ \A d \in Block : d > a => data[c][d] = 0
    BY <2>2, <2>3
  <2>5. PICK m \in Block : size(c) = 1 + m
    BY ZenonT(30), <2>4 DEF size
  <2> QED
    BY <2>5, BoundAssumption DEF Block
<1> QED
  BY <1>1, <1>2

(* Self-heal chooses a child, if it chooses one. *)
LEMMA FixType ==
  ASSUME NEW X, NEW sizes, \A i \in Child : sizes[i] \in 0 .. BlockCount, NEW E
  PROVE  afr_sh_data_fix(X, sizes, E).source \in Child \cup {NoSource}
<1> DEFINE M == afr_sh_build_pending_matrix(X)
<1> DEFINE marked == afr_sh_mark_sources(M, sizes)
<1>1. ASSUME NEW S, S \subseteq Child, S # {} PROVE biggest(S, sizes) \in Child
  <2> DEFINE B == {i \in S : \A j \in S : sizes[j] <= sizes[i]}
  <2>1. B # {} /\ B \subseteq Child
    BY <1>1, BoundAssumption, HasGreatest
  <2> QED
    BY <2>1, LowestIsElement DEF biggest
<1>2. Child # {}
  BY ChildAssumption DEF Child
<1>3. innocent(M) # Child /\ wise(M) = {} => fool(M) # {} /\ fool(M) \subseteq Child
  BY DEF wise, innocent, fool
<1>4. marked.sources \subseteq Child
  <2>1. CASE innocent(M) = Child
    BY <2>1, <1>1, <1>2 DEF afr_sh_mark_sources, Marked
  <2>2. CASE innocent(M) # Child /\ wise(M) # {}
    BY <2>2 DEF afr_sh_mark_sources, Marked, wisest, wise
  <2>3. CASE innocent(M) # Child /\ wise(M) = {}
    BY <2>3, <1>1, <1>3 DEF afr_sh_mark_sources, Marked
  <2> QED
    BY <2>1, <2>2, <2>3
<1>5. {FavoriteChild} \ ({-1} \cup E) \subseteq Child
  BY FavoriteAssumption, ChildAssumption DEF Child
<1> HIDE DEF marked
<1> QED
  BY <1>4, <1>5, LowestIsElement DEF afr_sh_data_fix, marked

(* A local state is well-formed, and a self-heal that copies has a source. *)
LocalOK == {l \in Local : l.pc = "sync" => l.sh.source \in Child}

TypeInv == TypeOK /\ local \in [Frame -> LocalOK]

\* A frame that winds to children keeps its types.
LEMMA WindType ==
  ASSUME NEW l \in Local, NEW pc \in Pc \ {"sync"}, NEW S
  PROVE  Wind(l, pc, S) \in LocalOK
<1>1. Wind(l, pc, S) \in Local /\ Wind(l, pc, S).pc = pc
  BY ZenonT(30) DEF Wind, Local
<1> QED
  BY <1>1 DEF LocalOK

\* The phases of a transaction keep the types of the frame.
LEMMA PhaseTypes ==
  ASSUME NEW l \in Local
  PROVE  /\ afr_unlock(l) \in LocalOK /\ transaction_fop(l) \in LocalOK
         /\ done_locking(l) \in LocalOK /\ afr_transaction(l) \in LocalOK
         /\ afr_changelog_post_op(l) \in LocalOK /\ resume(l) \in LocalOK
<1>0. {"unlock", "fop", "preop", "lock", "postop"} \subseteq Pc \ {"sync"}
  BY DEF Pc
<1>1. ASSUME NEW k \in Local PROVE afr_unlock(k) \in LocalOK
  BY <1>0, <1>1, WindType DEF afr_unlock
<1>2. ASSUME NEW k \in Local, NEW n \in {-1, 0, 1}
      PROVE  /\ [k EXCEPT !.pending = All(n)] \in Local
             /\ [k EXCEPT !.index = 0, !.locked = {}, !.pending = All(0)] \in Local
  BY ZenonT(30), ConstantTypes DEF Local
<1>3. ASSUME NEW k \in Local PROVE transaction_fop(k) \in LocalOK
  BY ZenonT(30), <1>0, <1>2, <1>3, WindType DEF transaction_fop
<1>4. ASSUME NEW k \in Local PROVE afr_changelog_pre_op(k) \in LocalOK
  BY ZenonT(30), <1>0, <1>1, <1>2, <1>4, WindType DEF afr_changelog_pre_op
<1>5. ASSUME NEW k \in Local PROVE done_locking(k) \in LocalOK
  BY <1>3, <1>4, <1>5 DEF done_locking
<1>6. afr_transaction(l) \in LocalOK
  BY ZenonT(30), <1>0, <1>2, <1>5, WindType DEF afr_transaction
<1>7. afr_changelog_post_op(l) \in LocalOK
  <2>1. [l EXCEPT !.pending = [c \in Child |-> IF c \in not_successful(l) THEN 0 ELSE @[c]]]
          \in Local
    BY DEF Local
  <2> QED
    BY ZenonT(30), <1>0, <1>1, <2>1, WindType DEF afr_changelog_post_op
<1>8. resume(l) \in LocalOK
  BY <1>1, <1>7 DEF resume
<1> QED
  BY <1>1, <1>3, <1>5, <1>6, <1>7, <1>8

(* A call that has been answered *)
LEMMA ReturnedType ==
  ASSUME NEW l \in LocalOK, NEW c \in Child
  PROVE  /\ Returned(l, c) \in LocalOK
         /\ [Returned(l, c) EXCEPT !.index = c + 1, !.locked = @ \cup {c}, !.lock_count = @ + 1]
               \in LocalOK
         /\ [Returned(l, c) EXCEPT !.index = c + 1, !.child_up = @ \ {c}] \in LocalOK
         /\ \A e \in BOOLEAN :
              [Returned(l, c) EXCEPT !.child_up = @ \ {c}, !.enotsup = e] \in LocalOK
         /\ [Returned(l, c) EXCEPT !.op_ret = TRUE] \in LocalOK
         /\ [Returned(l, c) EXCEPT !.pending[c] = 0] \in LocalOK
<1>1. c + 1 \in Nat
  BY ConstantTypes
<1>2. Returned(l, c) \in LocalOK
  BY ZenonT(30) DEF Returned, LocalOK, Local
<1> DEFINE r == Returned(l, c)
<1> HIDE DEF r
<1>3. r \in LocalOK
  BY <1>2 DEF r
<1>4. [r EXCEPT !.index = c + 1, !.locked = @ \cup {c}, !.lock_count = @ + 1] \in LocalOK
  <2>1. r.lock_count + 1 \in Nat /\ r.locked \cup {c} \in SUBSET Child
    BY <1>3 DEF LocalOK, Local
  <2>2. ASSUME NEW i \in Nat, NEW n \in Nat, NEW S \in SUBSET Child
        PROVE  [r EXCEPT !.index = i, !.locked = S, !.lock_count = n] \in LocalOK
    BY ZenonT(30), <1>3 DEF LocalOK, Local
  <2> QED
    BY ZenonT(30), <1>1, <2>1, <2>2
<1>5. [r EXCEPT !.index = c + 1, !.child_up = @ \ {c}] \in LocalOK
  BY ZenonT(30), <1>1, <1>3 DEF LocalOK, Local
<1>6. ASSUME NEW e \in BOOLEAN PROVE [r EXCEPT !.child_up = @ \ {c}, !.enotsup = e] \in LocalOK
  BY ZenonT(30), <1>3 DEF LocalOK, Local
<1>7. [r EXCEPT !.op_ret = TRUE] \in LocalOK
  BY ZenonT(30), <1>3 DEF LocalOK, Local
<1>8. [r EXCEPT !.pending[c] = 0] \in LocalOK
  BY ZenonT(30), <1>3 DEF LocalOK, Local
<1> QED
  BY ZenonT(30), <1>2, <1>4, <1>5, <1>6, <1>7, <1>8 DEF r

\* What a write writes.
LEMMA ContentType == ASSUME NEW l \in LocalOK PROVE NewContent(l) \in Nat
BY DEF NewContent, LocalOK, Local

\* A write whose caller has not been answered may be there or not.
LEMMA UncertainType ==
  ASSUME NEW l \in LocalOK, valid \in [Block -> SUBSET Nat], Uncertain(l)
  PROVE  valid' \in [Block -> SUBSET Nat]
BY ZenonT(30), ContentType DEF Uncertain

-----------------------------------------------------------------------------
(* Type correctness, action by action *)

\* A new frame has the types of one.
LEMMA TypeStart ==
  ASSUME TypeInv, NEW f \in Frame, NEW op, NEW l \in LocalOK, Start(f, op, l)
  PROVE  TypeInv'
<1>1. valid' \in [Block -> SUBSET Nat]
  BY UncertainType DEF Start, TypeInv, TypeOK
<1>2. local' \in [Frame -> LocalOK] /\ local' \in [Frame -> Local]
  BY DEF Start, TypeInv, LocalOK
<1>3. ops' \in Nat
  BY DEF Start, TypeInv, TypeOK
<1> QED
  BY ZenonT(30), <1>1, <1>2, <1>3 DEF Start, TypeInv, TypeOK, priv, disk

\* The request of a call has its types.
LEMMA TypeRequest ==
  ASSUME TypeInv, NEW op \in {"WRITE", "FTRUNCATE", "TRUNCATE", "FLUSH"},
         NEW fd \in Fd \cup {NoFd}, NEW b \in Nat
  PROVE  /\ Request(op, fd, b) \in Local
         /\ Request(op, fd, b).op = op
         /\ [Request(op, fd, b) EXCEPT !.id = 0] \in Local
<1>1. ops + 1 \in Nat /\ child_up \in SUBSET Child
  BY DEF TypeInv, TypeOK
<1>2. ASSUME NEW n \in Nat, NEW S \in SUBSET Child
      PROVE  /\ [Idle EXCEPT !.op = op, !.fd = fd, !.at = b, !.id = n, !.child_up = S] \in Local
             /\ [Idle EXCEPT !.op = op, !.fd = fd, !.at = b, !.id = n, !.child_up = S].op = op
  BY ZenonT(30), ConstantTypes DEF Local
<1>3. Request(op, fd, b) \in Local /\ Request(op, fd, b).op = op
  BY ZenonT(30), <1>1, <1>2 DEF Request
<1>4. ASSUME NEW l \in Local PROVE [l EXCEPT !.id = 0] \in Local
  BY DEF Local
<1> QED
  BY <1>3, <1>4

\* An open keeps the types.
LEMMA TypeOpen ==
  ASSUME TypeInv, NEW fd \in Fd, afr_open(fd)
  PROVE  TypeInv'
<1>1. [Closed EXCEPT !.open = TRUE, !.opened_on = child_up \cap connected,
                     !.up_count = up_count, !.down_count = down_count] \in FdCtx
  BY ZenonT(30), ConstantTypes DEF FdCtx, TypeInv, TypeOK
<1> QED
  BY <1>1 DEF afr_open, TypeInv, TypeOK, disk, history

\* The calls that begin a transaction keep the types.
LEMMA TypeCalls ==
  ASSUME TypeInv, NEW f \in Frame, NEW fd, NEW b
  PROVE  /\ fd \in Fd /\ b \in Block => (afr_writev(f, fd, b) \/ afr_ftruncate(f, fd, b) => TypeInv')
         /\ b \in Block /\ afr_truncate(f, b) => TypeInv'
         /\ fd \in Fd /\ afr_flush(f, fd) => TypeInv'
<1>0. b \in Block => b \in Nat
  BY ConstantTypes
<1>2. ASSUME NEW l \in Local, l.op \in {"WRITE", "FTRUNCATE"}, NEW hook \in BOOLEAN
      PROVE  afr_up_down_flush(l, hook) \in LocalOK
  <2>1. [l EXCEPT !.next = l.op, !.op = "FLUSH", !.hook = hook] \in Local
    BY ZenonT(30), <1>2 DEF Local
  <2> QED
    BY <2>1, PhaseTypes DEF afr_up_down_flush
<1>3. CASE fd \in Fd /\ b \in Block /\ afr_writev(f, fd, b)
  <2>1. Request("WRITE", fd, b) \in Local /\ Request("WRITE", fd, b).op = "WRITE"
    BY ZenonT(30), <1>0, <1>3, TypeRequest
  <2> QED
    BY ZenonT(30), <1>2, <1>3, <2>1, PhaseTypes, TypeStart DEF afr_writev
<1>4. CASE fd \in Fd /\ b \in Block /\ afr_ftruncate(f, fd, b)
  <2>1. Request("FTRUNCATE", fd, b) \in Local /\ Request("FTRUNCATE", fd, b).op = "FTRUNCATE"
    BY ZenonT(30), <1>0, <1>4, TypeRequest
  <2> QED
    BY ZenonT(30), <1>2, <1>4, <2>1, PhaseTypes, TypeStart DEF afr_ftruncate
<1>5. CASE b \in Block /\ afr_truncate(f, b)
  <2>1. Request("TRUNCATE", NoFd, b) \in Local
    BY ZenonT(30), <1>0, <1>5, TypeRequest
  <2> QED
    BY <1>5, <2>1, PhaseTypes, TypeStart DEF afr_truncate
<1>6. CASE fd \in Fd /\ afr_flush(f, fd)
  <2>1. afr_transaction([Request("FLUSH", fd, 0) EXCEPT !.id = 0]) \in LocalOK
    BY ZenonT(30), <1>6, TypeRequest, PhaseTypes
  <2>2. local' \in [Frame -> LocalOK] /\ local' \in [Frame -> Local]
    BY <1>6, <2>1 DEF afr_flush, TypeInv, LocalOK
  <2>3. fd_ctx' \in [Fd -> FdCtx]
    <3> DEFINE k == [fd_ctx[fd] EXCEPT !.open = FALSE]
    <3>1. fd_ctx \in [Fd -> FdCtx]
      BY DEF TypeInv, TypeOK
    <3>2. k \in FdCtx
      BY ZenonT(30), <1>6, <3>1 DEF FdCtx
    <3>3. fd_ctx' = [fd_ctx EXCEPT ![fd] = k]
      BY <1>6 DEF afr_flush
    <3> HIDE DEF k
    <3> QED
      BY ZenonT(30), <3>1, <3>2, <3>3
  <2> QED
    BY ZenonT(30), <1>6, <2>2, <2>3 DEF afr_flush, TypeInv, TypeOK, priv, disk, history
<1> QED
  BY <1>3, <1>4, <1>5, <1>6

\* One frame changes and the others stay.
LEMMA LocalUpdate ==
  ASSUME TypeInv, NEW f \in Frame, NEW k \in LocalOK, local' = [local EXCEPT ![f] = k]
  PROVE  local' \in [Frame -> LocalOK] /\ local' \in [Frame -> Local]
BY DEF TypeInv, LocalOK

\* The changes of an fd context keep its types.
LEMMA CtxUpdate ==
  ASSUME TypeInv, NEW fd, NEW c \in Child, NEW S
  PROVE  /\ [fd_ctx EXCEPT ![fd].pre_op_done = @ \cup {c}] \in [Fd -> FdCtx]
         /\ [fd_ctx EXCEPT ![fd].child_failed = @ \cup {c}] \in [Fd -> FdCtx]
         /\ [fd_ctx EXCEPT ![fd].pre_op_done = @ \ S] \in [Fd -> FdCtx]
         /\ [fd_ctx EXCEPT ![fd].opened_on = @ \cup (S \cap connected)] \in [Fd -> FdCtx]
<1>1. fd_ctx \in [Fd -> FdCtx] /\ connected \subseteq Child
  BY DEF TypeInv, TypeOK
<1>2. CASE fd \notin Fd
  BY ZenonT(30), <1>1, <1>2
<1>3. CASE fd \in Fd
  <2> DEFINE x == fd_ctx[fd]
  <2>1. x \in FdCtx
    BY ZenonT(30), <1>1, <1>3
  <2>2. [x EXCEPT !.pre_op_done = @ \cup {c}] \in FdCtx
    BY <2>1 DEF FdCtx
  <2>3. [x EXCEPT !.child_failed = @ \cup {c}] \in FdCtx
    BY ZenonT(30), <2>1 DEF FdCtx
  <2>4. [x EXCEPT !.pre_op_done = @ \ S] \in FdCtx
    BY <2>1 DEF FdCtx
  <2>5. [x EXCEPT !.opened_on = @ \cup (S \cap connected)] \in FdCtx
    BY ZenonT(30), <1>1, <2>1 DEF FdCtx
  <2> QED
    BY ZenonT(30), <1>1, <1>3, <2>2, <2>3, <2>4, <2>5
<1> QED
  BY <1>2, <1>3

\* A child that carries out a request keeps the types.
LEMMA TypeExec ==
  ASSUME TypeInv, NEW f \in Frame, NEW c \in Child
  PROVE  exec(f, c) => TypeInv'
<1> DEFINE l == local[f]
<1>1. l \in LocalOK /\ l \in Local /\ l.at \in Nat
  BY DEF TypeInv, LocalOK, Local
<1>2. lock_region(l) \in SUBSET Nat
  BY <1>1, ConstantTypes DEF lock_region
<1>3. [l EXCEPT !.calls[c] = "done"] \in LocalOK
  BY ZenonT(30), <1>1 DEF LocalOK, Local
<1>4. ASSUME CarriedOut(f, c) PROVE local' \in [Frame -> LocalOK] /\ local' \in [Frame -> Local]
  <2> DEFINE k == [l EXCEPT !.calls[c] = "done"]
  <2>1. local' = [local EXCEPT ![f] = k]
    BY SMTT(30), <1>4 DEF CarriedOut
  <2>2. k \in LocalOK
    BY <1>3
  <2> HIDE DEF k
  <2> QED
    BY ZenonT(30), <2>1, <2>2, LocalUpdate
<1>5. CASE child_inodelk(f, c)
  <2>1. own_lock(f) \in [frame : Frame, region : SUBSET Nat]
    BY <1>2 DEF own_lock
  <2>2. lock' \in [Child -> SUBSET [frame : Frame, region : SUBSET Nat]]
    <3> DEFINE o == own_lock(f)
               L == [frame : Frame, region : SUBSET Nat]
    <3>1. lock' = [lock EXCEPT ![c] = @ \cup {o}] \/ lock' = [lock EXCEPT ![c] = @ \ {o}]
      BY <1>5 DEF child_inodelk
    <3>2. o \in L
      BY <2>1
    <3>3. lock \in [Child -> SUBSET L]
      BY DEF TypeInv, TypeOK
    <3> HIDE DEF o, L
    <3>4. lock' \in [Child -> SUBSET L]
      BY ZenonT(30), <3>1, <3>2, <3>3
    <3> QED
      BY <3>4 DEF L
  <2> QED
    BY <1>4, <1>5, <2>2 DEF child_inodelk, CarriedOut, TypeInv, TypeOK, priv, disk, history
<1>6. CASE child_xattrop(f, c)
  <2>0. l.pending \in [Child -> {-1, 0, 1}] /\ changelog[c] \in [Child -> Int]
    BY ZenonT(30), <1>1 DEF TypeInv, TypeOK, Local
  <2>1. \A d \in Child : changelog[c][d] + l.pending[d] \in Int
    BY <2>0
  <2>2. changelog' \in [Child -> [Child -> Int]]
    BY ZenonT(30), <1>6, <2>1 DEF child_xattrop, TypeInv, TypeOK
  <2>3. spoilt' \subseteq {"erased", "doubled"} \X Child
    BY <1>6 DEF child_xattrop, TypeInv, TypeOK
  <2> QED
    BY ZenonT(30), <1>4, <1>6, <2>2, <2>3 DEF child_xattrop, CarriedOut, TypeInv, TypeOK, priv, history
<1>7. CASE child_fop(f, c)
  <2>1. data' \in [Child -> [Block -> Nat]]
    BY ZenonT(30), <1>1, <1>7, ContentType DEF child_fop, TypeInv, TypeOK
  <2> QED
    BY ZenonT(30), <1>4, <1>7, <2>1 DEF child_fop, CarriedOut, TypeInv, TypeOK, priv, history
<1> QED
  BY ZenonT(30), <1>5, <1>6, <1>7 DEF exec

\* The callbacks of a transaction keep the types.
LEMMA TypeCallbacks ==
  ASSUME TypeInv, NEW f \in Frame, NEW c \in Child, NEW ok \in BOOLEAN
  PROVE  afr_lock_cbk(f, c, ok) \/ afr_changelog_pre_op_cbk(f, c, ok)
           \/ fop_cbk(f, c, ok) \/ ignoring_cbk(f, c, ok) => TypeInv'
<1> DEFINE l == local[f]
<1>1. l \in LocalOK
  BY ZenonT(30) DEF TypeInv
<1>2. ASSUME Answer(l, c, ok) PROVE faulty' \subseteq Child
  BY <1>2 DEF Answer, Fault, TypeInv, TypeOK
<1>3. CASE afr_lock_cbk(f, c, ok)
  <2> DEFINE down == [Returned(l, c) EXCEPT !.index = c + 1, !.child_up = @ \ {c}]
  <2>0. down \in LocalOK /\ afr_unlock(down) \in LocalOK
    BY ZenonT(30), <1>1, ReturnedType, PhaseTypes DEF LocalOK
  <2>1. local' \in [Frame -> LocalOK] /\ local' \in [Frame -> Local]
    BY ZenonT(30), <1>1, <1>3, <2>0, ReturnedType DEF afr_lock_cbk, TypeInv, LocalOK
  <2> QED
    BY <1>2, <1>3, <2>1 DEF afr_lock_cbk, TypeInv, TypeOK, priv, disk
<1>4. CASE afr_changelog_pre_op_cbk(f, c, ok)
  <2>0. Lacking(l, c) \in BOOLEAN
    BY DEF Lacking, Refused, Reaches, Unsupported
  <2>1. local' \in [Frame -> LocalOK] /\ local' \in [Frame -> Local]
    BY ZenonT(30), <1>1, <1>4, <2>0, ReturnedType DEF afr_changelog_pre_op_cbk, TypeInv, LocalOK
  <2>2. fd_ctx' \in [Fd -> FdCtx]
    BY ZenonT(30), <1>4, CtxUpdate DEF afr_changelog_pre_op_cbk, TypeInv, TypeOK
  <2> QED
    BY <1>2, <1>4, <2>1, <2>2 DEF afr_changelog_pre_op_cbk, TypeInv, TypeOK, priv, disk
<1>5. CASE fop_cbk(f, c, ok)
  <2>1. local' \in [Frame -> LocalOK] /\ local' \in [Frame -> Local]
    BY ZenonT(30), <1>1, <1>5, ReturnedType DEF fop_cbk, TypeInv, LocalOK
  <2>2. fd_ctx' \in [Fd -> FdCtx]
    BY ZenonT(30), <1>5, CtxUpdate DEF fop_cbk, TypeInv, TypeOK
  <2> QED
    BY ZenonT(30), <1>2, <1>5, <2>1, <2>2 DEF fop_cbk, TypeInv, TypeOK, priv, disk
<1>6. CASE ignoring_cbk(f, c, ok)
  <2>1. local' \in [Frame -> LocalOK] /\ local' \in [Frame -> Local]
    BY ZenonT(30), <1>1, <1>6, ReturnedType DEF ignoring_cbk, TypeInv, LocalOK
  <2> QED
    BY ZenonT(30), <1>2, <1>6, <2>1 DEF ignoring_cbk, TypeInv, TypeOK, priv, disk
<1> QED
  BY <1>3, <1>4, <1>5, <1>6

(* The steps between the phases *)
LEMMA TypePhases ==
  ASSUME TypeInv, NEW f \in Frame
  PROVE  afr_lock_rec(f) \/ pre_op_finished(f) \/ afr_transaction_resume(f)
           \/ post_op_finished(f) \/ transaction_done(f) \/ up_down_flush_cbk(f) => TypeInv'
<1> DEFINE l == local[f]
<1>1. l \in LocalOK /\ l \in Local
  BY ZenonT(30) DEF TypeInv, LocalOK
<1>2. ASSUME NEW k \in LocalOK, local' = [local EXCEPT ![f] = k], Uncertain(k),
             UNCHANGED <<priv, disk, lock, fd_ctx, ops, faulty, running>>
      PROVE  TypeInv'
  <2>1. valid' \in [Block -> SUBSET Nat]
    BY <1>2, UncertainType DEF TypeInv, TypeOK
  <2>2. local' \in [Frame -> LocalOK] /\ local' \in [Frame -> Local]
    BY ZenonT(30), <1>2, LocalUpdate
  <2> QED
    BY ZenonT(30), <1>2, <2>1, <2>2 DEF TypeInv, TypeOK, priv, disk
<1>3. ASSUME NEW k \in LocalOK, local' = [local EXCEPT ![f] = k],
             UNCHANGED <<priv, disk, lock, fd_ctx, history, running>>
      PROVE  TypeInv'
  <2>1. local' \in [Frame -> LocalOK] /\ local' \in [Frame -> Local]
    BY ZenonT(30), <1>3, LocalUpdate
  <2> QED
    BY <1>3, <2>1 DEF TypeInv, TypeOK, priv, disk, history
<1>4. CASE afr_lock_rec(f)
  <2>1. \A S : Wind(l, "lock", S) \in LocalOK
    BY <1>1, WindType DEF Pc
  <2>2. PICK k \in LocalOK : local' = [local EXCEPT ![f] = k] /\ Uncertain(k)
    BY ZenonT(30), <1>1, <1>4, <2>1, PhaseTypes DEF afr_lock_rec
  <2> QED
    BY ZenonT(30), <1>2, <1>4, <2>2 DEF afr_lock_rec
<1>5. CASE pre_op_finished(f)
  BY ZenonT(30), <1>1, <1>2, <1>5, PhaseTypes DEF pre_op_finished
<1>6. CASE afr_transaction_resume(f)
  <2>1. valid' \in [Block -> SUBSET Nat]
    BY <1>1, <1>6, ContentType DEF afr_transaction_resume, TypeInv, TypeOK
  <2>2. local' \in [Frame -> LocalOK] /\ local' \in [Frame -> Local]
    <3>1. PICK k \in LocalOK : local' = [local EXCEPT ![f] = k]
      BY ZenonT(30), <1>1, <1>6, PhaseTypes DEF afr_transaction_resume
    <3> QED
      BY ZenonT(30), <3>1, LocalUpdate
  <2>3. fd_ctx' \in [Fd -> FdCtx]
    <3>1. 0 \in Child
      BY ChildAssumption DEF Child
    <3> QED
      BY ZenonT(30), <1>6, <3>1, CtxUpdate DEF afr_transaction_resume, TypeInv, TypeOK
  <2> QED
    BY ZenonT(30), <1>6, <2>1, <2>2, <2>3 DEF afr_transaction_resume, TypeInv, TypeOK, priv, disk
<1>7. CASE post_op_finished(f)
  <2>1. [l EXCEPT !.pc = "heal"] \in LocalOK
    BY <1>1 DEF LocalOK, Local, Pc
  <2>2. PICK k \in LocalOK : local' = [local EXCEPT ![f] = k]
    BY ZenonT(30), <1>1, <1>7, <2>1, PhaseTypes DEF post_op_finished
  <2> QED
    BY ZenonT(30), <1>3, <1>7, <2>2 DEF post_op_finished
<1>8. CASE transaction_done(f)
  <2>1. Idle \in LocalOK
    BY SMTT(30), ConstantTypes DEF LocalOK, Idle
  <2> QED
    BY ZenonT(30), <1>3, <1>8, <2>1 DEF transaction_done
<1>9. CASE up_down_flush_cbk(f)
  BY ZenonT(30), <1>1, <1>2, <1>9, PhaseTypes DEF up_down_flush_cbk
<1> QED
  BY ZenonT(30), <1>4, <1>5, <1>6, <1>7, <1>8, <1>9

\* The flush of a descriptor whose child has come back keeps the types.
LEMMA TypeFlush ==
  ASSUME TypeInv, NEW f \in Frame
  PROVE  afr_up_down_flush_done(f) \/ afr_up_down_flush_sh_unwind(f) => TypeInv'
<1> DEFINE l == local[f]
<1>1. l \in LocalOK /\ l \in Local
  BY DEF TypeInv, LocalOK
<1>2. CASE afr_up_down_flush_done(f)
  <2>1. [l EXCEPT !.pc = "flushed", !.op = l.next, !.next = "NONE", !.hook = FALSE] \in LocalOK
    <3>1. l.next \in {"WRITE", "FTRUNCATE"}
      BY SMTT(30), <1>1, <1>2 DEF afr_up_down_flush_done, Local
    <3> QED
      BY ZenonT(30), <1>1, <3>1 DEF LocalOK, Local, Pc
  <2>2. local' \in [Frame -> LocalOK] /\ local' \in [Frame -> Local]
    BY ZenonT(30), <1>2, <2>1, LocalUpdate DEF afr_up_down_flush_done
  <2>3. fd_ctx' \in [Fd -> FdCtx]
    <3>1. CASE l.fd \in Fd
      <4>1. up_count \in Nat /\ down_count \in Nat
        BY DEF TypeInv, TypeOK
      <4> DEFINE x == [fd_ctx[l.fd] EXCEPT !.up_count = up_count, !.down_count = down_count,
                                           !.pre_op_done = @ \ l.child_up]
      <4>2. x \in FdCtx
        <5>1. ASSUME NEW y \in FdCtx, NEW m \in Nat, NEW n \in Nat, NEW S
              PROVE  [y EXCEPT !.up_count = m, !.down_count = n, !.pre_op_done = @ \ S] \in FdCtx
          BY ZenonT(30) DEF FdCtx
        <5> QED
          BY ZenonT(30), <3>1, <4>1, <5>1 DEF TypeInv, TypeOK
      <4>3. fd_ctx' = [fd_ctx EXCEPT ![l.fd] = x]
        BY ZenonT(30), <1>2, <3>1 DEF afr_up_down_flush_done, TypeInv, TypeOK
      <4> HIDE DEF x
      <4> QED
        BY ZenonT(30), <4>2, <4>3 DEF TypeInv, TypeOK
    <3>2. CASE l.fd \notin Fd
      BY ZenonT(30), <1>2, <3>2 DEF afr_up_down_flush_done, TypeInv, TypeOK
    <3> QED
      BY <3>1, <3>2
  <2> QED
    BY ZenonT(30), <1>2, <2>2, <2>3 DEF afr_up_down_flush_done, TypeInv, TypeOK, priv, disk, history
<1>3. CASE afr_up_down_flush_sh_unwind(f)
  <2>1. local' \in [Frame -> LocalOK] /\ local' \in [Frame -> Local]
    BY ZenonT(30), <1>1, <1>3, PhaseTypes, LocalUpdate DEF afr_up_down_flush_sh_unwind
  <2>2. 0 \in Child
    BY ChildAssumption DEF Child
  <2>3. fd_ctx' \in [Fd -> FdCtx]
    BY ZenonT(30), <1>3, <2>2, CtxUpdate DEF afr_up_down_flush_sh_unwind
  <2> QED
    BY <1>3, <2>1, <2>3 DEF afr_up_down_flush_sh_unwind, TypeInv, TypeOK, priv, disk, history
<1> QED
  BY ZenonT(30), <1>2, <1>3

\* Self-heal keeps the types.
LEMMA TypeHeal ==
  ASSUME TypeInv, NEW f \in Frame
  PROVE  afr_sh_abort(f) \/ afr_sh_data_fxattrop(f) \/ (\E b \in Block : sh_block(f, b))
           \/ (\E kept \in SUBSET Child : afr_sh_data_trim_sinks(f, kept))
           \/ afr_sh_data_erase_pending(f) => TypeInv'
<1> DEFINE l == local[f]
<1>1. l \in LocalOK /\ l \in Local
  BY DEF TypeInv, LocalOK
<1>2. [l EXCEPT !.pc = "reopen", !.sh = NoHeal] \in LocalOK /\ [l EXCEPT !.pc = "reopen"] \in LocalOK
  BY ZenonT(30), <1>1, ConstantTypes DEF LocalOK, Local, Pc
<1>3. CASE afr_sh_abort(f)
  <2>1. local' = [local EXCEPT ![f] = [l EXCEPT !.pc = "reopen", !.sh = NoHeal]]
    BY ZenonT(30), <1>3 DEF afr_sh_abort, TypeInv
  <2>2. local' \in [Frame -> LocalOK] /\ local' \in [Frame -> Local]
    BY ZenonT(30), <1>2, <2>1, LocalUpdate
  <2> QED
    BY <1>3, <2>2 DEF afr_sh_abort, TypeInv, TypeOK, priv, disk, history
<1>4. CASE afr_sh_data_fxattrop(f)
  <2> DEFINE X     == [c \in Child |-> IF c \in l.child_up THEN changelog[c] ELSE Unread]
             sizes == [c \in Child |-> IF c \in l.child_up THEN size(c) ELSE 0]
             fix   == afr_sh_data_fix(X, sizes, {})
             sinks == l.child_up \ fix.sources
             h     == [source |-> fix.source, sinks |-> sinks, xattr |-> X]
  <2>1. X \in [Child -> [Child -> Int \cup {NoXattr}]]
    BY SMTT(30) DEF Unread, TypeInv, TypeOK
  <2>2. fix.source \in Child \cup {NoSource}
    <3>1. \A c \in Child : sizes[c] \in 0 .. BlockCount
      BY SizeType, BoundAssumption
    <3> HIDE DEF sizes, X
    <3> QED
      BY <3>1, FixType
  <2>3. sinks \in SUBSET Child
    BY SMTT(30), <1>1 DEF Local
  <2> HIDE DEF X, fix, sinks
  <2>4. h \in SelfHeal /\ h.source = fix.source
    BY <2>1, <2>2, <2>3 DEF SelfHeal
  <2> HIDE DEF h
  <2>5. fix.source # NoSource => [l EXCEPT !.pc = "sync", !.sh = h] \in LocalOK
    BY ZenonT(30), <1>1, <2>2, <2>4 DEF LocalOK, Local, Pc
  <2>6. \/ local' = [local EXCEPT ![f] = [l EXCEPT !.pc = "reopen"]]
        \/ fix.source # NoSource /\ local' = [local EXCEPT ![f] = [l EXCEPT !.pc = "sync", !.sh = h]]
    BY ZenonT(30), <1>4 DEF afr_sh_data_fxattrop, X, fix, sinks, h, sizes
  <2>7. local' \in [Frame -> LocalOK] /\ local' \in [Frame -> Local]
    BY ZenonT(30), <1>2, <2>5, <2>6, LocalUpdate
  <2> QED
    BY ZenonT(30), <1>4, <2>7 DEF afr_sh_data_fxattrop, TypeInv, TypeOK, priv, disk, history
<1>5. ASSUME NEW b \in Block, sh_block(f, b) PROVE TypeInv'
  <2>1. data[l.sh.source][b] \in Nat
    BY SMTT(30), <1>1, <1>5 DEF sh_block, LocalOK, TypeInv, TypeOK
  <2>2. data' \in [Child -> [Block -> Nat]]
    BY ZenonT(30), <1>5, <2>1 DEF sh_block, TypeInv, TypeOK
  <2> QED
    BY ZenonT(30), <1>5, <2>2 DEF sh_block, TypeInv, TypeOK, priv, history
<1>6. CASE afr_sh_data_erase_pending(f)
  <2>1. l.sh.xattr \in [Child -> [Child -> Int \cup {NoXattr}]]
    BY ZenonT(30), <1>1 DEF Local, SelfHeal
  <2>2. changelog \in [Child -> [Child -> Int]]
    BY ZenonT(30) DEF TypeInv, TypeOK
  <2>3. \A c, d \in Child : l.sh.xattr[c][d] # NoXattr => l.sh.xattr[c][d] \in Int
    BY ZenonT(30), <2>1
  <2>4. \A c, d \in Child : l.sh.xattr[c][d] # NoXattr =>
          changelog[c][d] - l.sh.xattr[c][d] \in Int
    BY SMTT(30), <2>2, <2>3
  <2>5. changelog' \in [Child -> [Child -> Int]]
    BY <1>6, <2>2, <2>4 DEF afr_sh_data_erase_pending
  <2>6. local' = [local EXCEPT ![f] = [l EXCEPT !.pc = "reopen", !.sh = NoHeal]]
    BY ZenonT(30), <1>6 DEF afr_sh_data_erase_pending, TypeInv
  <2>7. local' \in [Frame -> LocalOK] /\ local' \in [Frame -> Local]
    BY ZenonT(30), <1>2, <2>6, LocalUpdate
  <2> QED
    BY ZenonT(30), <1>6, <2>5, <2>7 DEF afr_sh_data_erase_pending, TypeInv, TypeOK, priv, history
<1>7. ASSUME NEW kept \in SUBSET Child, afr_sh_data_trim_sinks(f, kept) PROVE TypeInv'
  <2>1. data' \in [Child -> [Block -> Nat]]
    BY ZenonT(30), <1>7 DEF afr_sh_data_trim_sinks, TypeInv, TypeOK
  <2>2. [l EXCEPT !.pc = "erase"] \in LocalOK
    BY ZenonT(30), <1>1 DEF LocalOK, Local, Pc
  <2>3. local' = [local EXCEPT ![f] = [l EXCEPT !.pc = "erase"]]
    BY ZenonT(30), <1>7 DEF afr_sh_data_trim_sinks, TypeInv
  <2>4. local' \in [Frame -> LocalOK] /\ local' \in [Frame -> Local]
    BY ZenonT(30), <2>2, <2>3, LocalUpdate
  <2>5. faulty' \subseteq Child
    BY <1>7 DEF afr_sh_data_trim_sinks, TypeInv, TypeOK
  <2> QED
    BY ZenonT(30), <1>7, <2>1, <2>4, <2>5 DEF afr_sh_data_trim_sinks, TypeInv, TypeOK, priv
<1> QED
  BY ZenonT(30), <1>3, <1>4, <1>5, <1>6, <1>7

\* Children that come and go keep the types, and a client that dies.
LEMMA TypeConnection ==
  ASSUME TypeInv, NEW c \in Child
  PROVE  Connection(c) \/ crash => TypeInv'
<1>1. CASE disconnect(c)
  <2>1. ASSUME NEW l \in LocalOK
        PROVE  [l EXCEPT !.calls[c] = IF @ \in {"sent", "done"} THEN "lost" ELSE @] \in LocalOK
    <3>1. ASSUME NEW s \in {"none", "sent", "done", "lost"} PROVE [l EXCEPT !.calls[c] = s] \in LocalOK
      BY DEF LocalOK, Local
    <3>2. l.calls[c] \in {"none", "sent", "done", "lost"}
      BY DEF LocalOK, Local
    <3> QED
      BY ZenonT(30), <3>1, <3>2
  <2>2. local' \in [Frame -> LocalOK]
    BY ZenonT(30), <1>1, <2>1 DEF disconnect, TypeInv
  <2>3. local' \in [Frame -> Local]
    BY ZenonT(30), <2>2 DEF LocalOK
  <2>4. lock' \in [Child -> SUBSET [frame : Frame, region : SUBSET Nat]]
    BY <1>1 DEF disconnect, TypeInv, TypeOK
  <2>5. connected' \subseteq Child /\ faulty' \subseteq Child /\ reopening' \subseteq Fd \X Child
    BY ZenonT(30), <1>1 DEF disconnect, Fault, TypeInv, TypeOK
  <2> QED
    BY ZenonT(30), <1>1, <2>2, <2>3, <2>4, <2>5 DEF disconnect, TypeInv, TypeOK, disk
<1>2. CASE notify_CHILD_DOWN(c)
  <2>1. child_up' \subseteq Child /\ down_count' \in Nat
    BY SMTT(30), <1>2 DEF notify_CHILD_DOWN, TypeInv, TypeOK
  <2> QED
    BY ZenonT(30), <1>2, <2>1 DEF notify_CHILD_DOWN, TypeInv, TypeOK, disk, history
<1>3. CASE notify_CHILD_UP(c)
  <2>1. connected' \subseteq Child /\ child_up' \subseteq Child /\ up_count' \in Nat
    BY SMTT(30), <1>3 DEF notify_CHILD_UP, TypeInv, TypeOK
  <2>2. reopening' \subseteq Fd \X Child
    BY <1>3 DEF notify_CHILD_UP, InUse, TypeInv, TypeOK
  <2> QED
    BY ZenonT(30), <1>3, <2>1, <2>2 DEF notify_CHILD_UP, TypeInv, TypeOK, disk, history
<1>4. ASSUME NEW fd \in Fd, protocol_client_reopen_cbk(fd, c) PROVE TypeInv'
  BY SMTT(30), <1>4 DEF protocol_client_reopen_cbk, TypeInv, TypeOK, disk, history
<1>5. CASE crash
  <2>1. Idle \in LocalOK /\ Idle \in Local /\ Closed \in FdCtx
    BY ZenonT(30), ConstantTypes DEF LocalOK, Idle
  <2> QED
    BY ZenonT(30), <1>5, <2>1 DEF crash, TypeInv, TypeOK, priv, disk, history
<1> QED
  BY ZenonT(30), <1>1, <1>2, <1>3, <1>4, <1>5 DEF Connection

\* The types speak of the variables only.
LEMMA TypeStutter == TypeInv /\ UNCHANGED vars => TypeInv'
BY ZenonT(30) DEF vars, priv, disk, history, TypeInv, TypeOK

\* The types hold at the start.
LEMMA TypeInit == Init => TypeInv
<1> SUFFICES ASSUME Init PROVE TypeInv
  OBVIOUS
<1>1. local \in [Frame -> LocalOK] /\ local \in [Frame -> Local] /\ fd_ctx \in [Fd -> FdCtx]
  BY ZenonT(30), ConstantTypes DEF Init, LocalOK, Idle
<1>2. data \in [Child -> [Block -> Nat]] /\ changelog \in [Child -> [Child -> Int]]
  BY DEF Init, All
<1> QED
  BY <1>1, <1>2 DEF Init, TypeInv, TypeOK

\* Every step keeps the types.
LEMMA TypeNext == TypeInv /\ [Next]_vars => TypeInv'
<1> SUFFICES ASSUME TypeInv, [Next]_vars PROVE TypeInv'
  OBVIOUS
<1>0. 0 \in Child
  BY ChildAssumption DEF Child
<1>1. ASSUME NEW f \in Frame, Step(f) PROVE TypeInv'
  BY ZenonT(30), <1>1, TypePhases, TypeFlush, TypeHeal, TypeCallbacks DEF Step
<1>2. ASSUME NEW fd \in Fd, afr_open(fd) PROVE TypeInv'
  BY ZenonT(30), <1>2, TypeOpen
<1>3. ASSUME NEW f \in Frame, NEW fd \in Fd, afr_flush(f, fd) PROVE TypeInv'
  BY <1>3, TypeCalls
<1>4. ASSUME NEW f \in Frame, NEW fd \in Fd, NEW b \in Block,
             afr_writev(f, fd, b) \/ afr_ftruncate(f, fd, b)
      PROVE  TypeInv'
  BY ZenonT(30), <1>4, TypeCalls
<1>5. ASSUME NEW f \in Frame, NEW b \in Block, afr_truncate(f, b) PROVE TypeInv'
  BY <1>5, TypeCalls
<1>6. ASSUME NEW f \in Frame, NEW c \in Child, exec(f, c) PROVE TypeInv'
  BY <1>6, TypeExec
<1>7. (\E c \in Child : Connection(c)) \/ crash => TypeInv'
  BY <1>0, TypeConnection
<1> QED
  BY ZenonT(30), <1>1, <1>2, <1>3, <1>4, <1>5, <1>6, <1>7, TypeStutter DEF Next

(* Every variable of a transaction, of its descriptors, of the disks and of the
   lock tables keeps its type, whatever the number of children, callers and
   blocks and whatever the options; in particular a self-heal that copies has
   chosen a child to copy from. *)
THEOREM TypeCorrect == Spec => []TypeOK
<1>1. Init => TypeInv
  BY TypeInit
<1>2. TypeInv /\ [Next]_vars => TypeInv'
  BY TypeNext
<1>3. TypeInv => TypeOK
  BY DEF TypeInv
<1> QED
  BY <1>1, <1>2, <1>3, PTL DEF Spec

-----------------------------------------------------------------------------
(* Mutual exclusion of writes. One child among the first LockServerCount that
   has not failed is enough, until AFR is told that a child went down: from then
   on writers flush first, and the lock count that afr_transaction_local_init
   does not reset cuts their locking short. *)

Own(l, f) == [frame |-> f, region |-> lock_region(l)]

(* A call of f with local state l, when L are the locks on child c: it has the
   lock once it is past c. *)
InFrame(l, f, c, L) ==
  l.pc # "idle" =>
    /\ l.fd \in Fd /\ l.op \in {"WRITE", "FLUSH"} /\ l.next = "NONE" /\ ~l.hook
    /\ l.pc \in {"lock", "preop", "fop", "postop", "unlock"}
    /\ c \in l.child_up /\ l.calls[c] # "lost"
    /\ l.pc = "lock" =>
         /\ l.lock_count <= l.index
         /\ \A d \in Child : l.calls[d] # "none" =>
              /\ l.index <= d /\ (l.index <= c => d <= c)
              /\ \A e \in Child : l.calls[e] # "none" => e = d
    /\ \/ l.pc \in {"preop", "fop", "postop"}
       \/ l.pc = "lock" /\ (l.index > c \/ l.calls[c] = "done")
       => Own(l, f) \in L

InUseOn(c) ==
  \A fd \in Fd : fd_ctx[fd].open \/ (\E f \in Frame : local[f].fd = fd) => c \in fd_ctx[fd].opened_on

Apart(L) == \A k, m \in L : k.frame # m.frame => k.region \cap m.region = {}

ServerInv(c) ==
  /\ child_up = Child /\ up_count = 0 /\ c \in connected
  /\ \A fd \in Fd : <<fd, c>> \notin reopening
  /\ InUseOn(c)
  /\ Apart(lock[c])
  /\ \A f \in Frame : InFrame(local[f], f, c, lock[c])

-----------------------------------------------------------------------------
\* No child of a set is below its lowest.
LEMMA LowestIsLeast ==
  ASSUME NEW S, S \subseteq Child, NEW c \in S
  PROVE  Lowest(S) <= c
<1>1. S \subseteq Nat
  BY ChildAssumption DEF Child
<1> QED
  BY ZenonT(30), <1>1, NatSetHasMinimum DEF Lowest

(* Entering a phase after the locks have been taken, or the last one *)
LEMMA EnterPhase ==
  ASSUME NEW l \in Local, NEW f, NEW c \in Child, NEW L, l.pc # "idle", InFrame(l, f, c, L),
         NEW m, m = l \/ \E p : m = [l EXCEPT !.pending = p],
         NEW pc, pc = "unlock" \/ (pc \in {"preop", "fop", "postop"} /\ Own(l, f) \in L), NEW S
  PROVE  InFrame(Wind(m, pc, S), f, c, L) /\ Wind(m, pc, S).fd = l.fd
<1> DEFINE k == Wind(m, pc, S)
<1>1. /\ k.pc = pc /\ k.fd = l.fd /\ k.op = l.op /\ k.next = l.next /\ k.hook = l.hook
      /\ k.child_up = l.child_up /\ k.at = l.at /\ k.calls[c] # "lost"
  BY DEF Wind, Local
<1> HIDE DEF k
<1>2. Own(k, f) = Own(l, f)
  BY ZenonT(30), <1>1 DEF Own, lock_region
<1>3. InFrame(k, f, c, L)
  BY ZenonT(30), <1>1, <1>2 DEF InFrame
<1> QED
  BY <1>1, <1>3 DEF k

\* The phases keep what a frame is known to hold on a lock server.
LEMMA Phases ==
  ASSUME NEW l \in Local, NEW f, NEW c \in Child, NEW L, l.pc # "idle", InFrame(l, f, c, L)
  PROVE  /\ InFrame(afr_unlock(l), f, c, L) /\ afr_unlock(l).fd = l.fd
         /\ Own(l, f) \in L =>
              /\ InFrame(resume(l), f, c, L) /\ resume(l).fd = l.fd
              /\ InFrame(transaction_fop(l), f, c, L) /\ transaction_fop(l).fd = l.fd
              /\ InFrame(done_locking(l), f, c, L) /\ done_locking(l).fd = l.fd
              /\ InFrame(afr_changelog_post_op(l), f, c, L) /\ afr_changelog_post_op(l).fd = l.fd
<1>1. InFrame(afr_unlock(l), f, c, L) /\ afr_unlock(l).fd = l.fd
  BY EnterPhase DEF afr_unlock
<1> SUFFICES ASSUME Own(l, f) \in L
             PROVE  /\ InFrame(resume(l), f, c, L) /\ resume(l).fd = l.fd
                    /\ InFrame(transaction_fop(l), f, c, L) /\ transaction_fop(l).fd = l.fd
                    /\ InFrame(done_locking(l), f, c, L) /\ done_locking(l).fd = l.fd
                    /\ InFrame(afr_changelog_post_op(l), f, c, L)
                    /\ afr_changelog_post_op(l).fd = l.fd
  BY <1>1
<1>0. ASSUME NEW pc \in {"preop", "fop", "postop"}, NEW S, NEW p
      PROVE  /\ InFrame(Wind([l EXCEPT !.pending = p], pc, S), f, c, L)
             /\ Wind([l EXCEPT !.pending = p], pc, S).fd = l.fd
  <2> DEFINE m == [l EXCEPT !.pending = p]
  <2>1. \E q : m = [l EXCEPT !.pending = q]
    BY ZenonT(30)
  <2> HIDE DEF m
  <2>2. InFrame(Wind(m, pc, S), f, c, L) /\ Wind(m, pc, S).fd = l.fd
    BY <2>1, EnterPhase
  <2> QED
    BY <2>2 DEF m
<1>2. InFrame(transaction_fop(l), f, c, L) /\ transaction_fop(l).fd = l.fd
  <2> DEFINE S == IF l.next # "NONE" THEN {} ELSE l.child_up
  <2> HIDE DEF S
  <2>1. transaction_fop(l) = Wind([l EXCEPT !.pending = All(-1)], "fop", S)
    BY DEF transaction_fop, S
  <2> QED
    BY <1>0, <2>1
<1>3. InFrame(afr_changelog_pre_op(l), f, c, L) /\ afr_changelog_pre_op(l).fd = l.fd
  <2>1. \/ afr_changelog_pre_op(l) = afr_unlock(l)
        \/ afr_changelog_pre_op(l) = Wind([l EXCEPT !.pending = All(1)], "preop", l.child_up)
    BY DEF afr_changelog_pre_op
  <2> QED
    BY ZenonT(30), <1>0, <1>1, <2>1
<1>4. InFrame(done_locking(l), f, c, L) /\ done_locking(l).fd = l.fd
  BY <1>2, <1>3 DEF done_locking
<1>5. InFrame(afr_changelog_post_op(l), f, c, L) /\ afr_changelog_post_op(l).fd = l.fd
  <2> DEFINE p == [d \in Child |-> IF d \in not_successful(l) THEN 0 ELSE l.pending[d]]
  <2> HIDE DEF p
  <2>1. \/ afr_changelog_post_op(l) = afr_unlock(l)
        \/ afr_changelog_post_op(l) = Wind([l EXCEPT !.pending = p], "postop", post_op_children(l))
    BY ZenonT(30) DEF afr_changelog_post_op, p
  <2> QED
    BY ZenonT(30), <1>0, <1>1, <2>1
<1>6. InFrame(resume(l), f, c, L) /\ resume(l).fd = l.fd
  BY <1>1, <1>5 DEF resume
<1> QED
  BY ZenonT(30), <1>2, <1>4, <1>5, <1>6

(* A step of one call that leaves the connections and the locks alone *)
LEMMA FrameStep ==
  ASSUME TypeInv, NEW c \in Child, ServerInv(c), NEW f \in Frame, NEW k,
         local' = [local EXCEPT ![f] = k], UNCHANGED <<priv, lock>>,
         \A fd \in Fd : (fd_ctx'[fd].open => fd_ctx[fd].open) /\ fd_ctx'[fd].opened_on = fd_ctx[fd].opened_on,
         k.fd = local[f].fd \/ (k.fd \in Fd /\ fd_ctx[k.fd].open) \/ k.fd = NoFd,
         InFrame(k, f, c, lock[c])
  PROVE  ServerInv(c)'
<1>1. local'[f] = k /\ \A g \in Frame : g # f => local'[g] = local[g]
  BY ZenonT(30) DEF TypeInv
<1>2. \A g \in Frame : InFrame(local'[g], g, c, lock'[c])
  BY ZenonT(30), <1>1 DEF ServerInv
<1>3. InUseOn(c)'
  BY <1>1, FdAssumption DEF InUseOn, ServerInv
<1> QED
  BY ZenonT(30), <1>2, <1>3 DEF ServerInv, priv, Apart

-----------------------------------------------------------------------------
(* Calls from above *)

\* A new transaction starts with the locks, and takes them from every server.
LEMMA NewCall ==
  ASSUME TypeInv, NEW c \in Child, c < LockServerCount, child_up = Child,
         NEW op \in {"WRITE", "FLUSH"}, NEW fd \in Fd, NEW b \in Nat, NEW f, NEW L,
         NEW r, r = Request(op, fd, b) \/ r = [Request(op, fd, b) EXCEPT !.id = 0]
  PROVE  InFrame(afr_transaction(r), f, c, L) /\ afr_transaction(r).fd = fd
<1> DEFINE k == afr_transaction(r)
<1>1. LockServerCount # 0
  BY ConstantTypes, BoundAssumption
<1>2. /\ r.fd = fd /\ r.op = op /\ r.next = "NONE" /\ r.hook = FALSE
      /\ r.child_up = Child /\ r.lock_count = 0
  BY ZenonT(30) DEF Request, Idle
<1>3. r \in Local
  <2>1. op \in {"WRITE", "FTRUNCATE", "TRUNCATE", "FLUSH"} /\ fd \in Fd \cup {NoFd}
    OBVIOUS
  <2>2. Request(op, fd, b) \in Local /\ [Request(op, fd, b) EXCEPT !.id = 0] \in Local
    BY <2>1, TypeRequest
  <2> QED
    BY <2>2
<1>4. /\ k.pc = "lock" /\ k.fd = fd /\ k.op = op /\ k.next = "NONE" /\ k.hook = FALSE
      /\ k.child_up = Child /\ k.lock_count = 0 /\ k.index = 0
      /\ \A d \in Child : k.calls[d] = "none"
  BY <1>1, <1>2, <1>3 DEF afr_transaction, Wind, Local
<1> HIDE DEF k
<1>5. ~(k.index > c)
  BY <1>4, ConstantTypes
<1>6. InFrame(k, f, c, L)
  BY <1>4, <1>5 DEF InFrame
<1> QED
  BY <1>4, <1>6 DEF k

\* A write or a flush begins without a lock.
LEMMA ExclusionCalls ==
  ASSUME TypeInv, Op \subseteq {"WRITE"}, NEW c \in Child, c < LockServerCount, down_count = 0,
         ServerInv(c), NEW f \in Frame, NEW fd \in Fd
  PROVE  /\ \A b \in Block : afr_writev(f, fd, b) => ServerInv(c)'
         /\ afr_flush(f, fd) => ServerInv(c)'
<1>1. ASSUME NEW b \in Block, afr_writev(f, fd, b) PROVE ServerInv(c)'
  <2> DEFINE r == Request("WRITE", fd, b)
             k == afr_transaction(r)
  <2>1. fd_ctx[fd].down_count \in Nat /\ fd_ctx[fd].up_count \in Nat
    BY ZenonT(30) DEF TypeInv, TypeOK, FdCtx
  <2>2. ~(fd_ctx[fd].down_count < down_count) /\ ~(fd_ctx[fd].up_count < up_count)
    BY <2>1 DEF ServerInv
  <2>3. Start(f, "WRITE", k) /\ fd_ctx[fd].open
    BY ZenonT(30), <1>1, <2>2 DEF afr_writev
  <2>5. b \in Nat /\ child_up = Child
    BY ConstantTypes DEF ServerInv
  <2>6. InFrame(k, f, c, lock[c]) /\ k.fd = fd
    BY ZenonT(30), <2>5, NewCall
  <2> HIDE DEF k
  <2> QED
    BY ZenonT(30), <2>3, <2>6, FrameStep DEF Start
<1>2. CASE afr_flush(f, fd)
  <2> DEFINE k == afr_transaction([Request("FLUSH", fd, 0) EXCEPT !.id = 0])
  <2>0. child_up = Child
    BY DEF ServerInv
  <2>1. InFrame(k, f, c, lock[c]) /\ k.fd = fd
    BY <2>0, NewCall
  <2>2. \A e \in Fd : (fd_ctx'[e].open => fd_ctx[e].open) /\ fd_ctx'[e].opened_on = fd_ctx[e].opened_on
    BY <1>2 DEF afr_flush, TypeInv, TypeOK, FdCtx
  <2>3. local' = [local EXCEPT ![f] = local[f]] \/ local' = [local EXCEPT ![f] = k]
    BY ZenonT(30), <1>2 DEF afr_flush, TypeInv
  <2>4. UNCHANGED <<priv, lock>> /\ fd_ctx[fd].open
    BY ZenonT(30), <1>2 DEF afr_flush
  <2>5. InFrame(local[f], f, c, lock[c])
    BY DEF ServerInv
  <2> HIDE DEF k
  <2> QED
    BY ZenonT(30), <2>1, <2>2, <2>3, <2>4, <2>5, FrameStep
<1> QED
  BY <1>1, <1>2

\* An open takes no lock.
LEMMA ExclusionOpen ==
  ASSUME TypeInv, NEW c \in Child, ServerInv(c), NEW fd \in Fd, afr_open(fd)
  PROVE  ServerInv(c)'
<1>1. fd_ctx'[fd].opened_on = child_up \cap connected /\ \A e \in Fd : e # fd => fd_ctx'[e] = fd_ctx[e]
  BY DEF afr_open, Closed, TypeInv, TypeOK
<1>2. InUseOn(c)'
  BY <1>1 DEF InUseOn, ServerInv, afr_open
<1>3. \A e \in Fd : <<e, c>> \notin reopening'
  BY DEF afr_open, ServerInv
<1> QED
  BY ZenonT(30), <1>2, <1>3 DEF afr_open, ServerInv, Apart

-----------------------------------------------------------------------------
(* The steps of a call *)

\* The next lock is asked of the next server.
LEMMA ExclusionLockRec ==
  ASSUME TypeInv, NEW c \in Child, c < LockServerCount, ServerInv(c), NEW f \in Frame, afr_lock_rec(f)
  PROVE  ServerInv(c)'
<1> DEFINE l == local[f]
           L == lock[c]
           S == {d \in l.child_up : d >= l.index /\ (l.fd # NoFd => d \in fd_ctx[l.fd].opened_on)}
<1>1. l \in Local /\ l.pc = "lock" /\ InFrame(l, f, c, L)
  BY ZenonT(30) DEF TypeInv, LocalOK, ServerInv, afr_lock_rec
<1>2. /\ l.fd \in Fd /\ c \in l.child_up /\ l.lock_count <= l.index
      /\ l.index > c => Own(l, f) \in L
  BY ZenonT(30), <1>1 DEF InFrame
<1>3. c \in fd_ctx[l.fd].opened_on
  BY ZenonT(30), <1>2 DEF ServerInv, InUseOn
<1>4. l.index \in Nat /\ l.lock_count \in Nat /\ S \subseteq Child /\ c \in Nat
  BY ZenonT(30), <1>1, ConstantTypes DEF Local
<1>5. ~(l.index > c) => c \in S /\ l.lock_count # LockServerCount
  BY <1>2, <1>3, <1>4, BoundAssumption
<1>6. ASSUME S # {} PROVE InFrame(Wind(l, "lock", {Lowest(S)}), f, c, L)
  <2> DEFINE k == Wind(l, "lock", {Lowest(S)})
  <2>1. Lowest(S) \in S
    BY ZenonT(30), <1>4, <1>6, LowestIsElement
  <2>2. c \in S => Lowest(S) <= c
    BY <1>4, LowestIsLeast
  <2>3. /\ k.pc = "lock" /\ k.fd = l.fd /\ k.op = l.op /\ k.next = l.next /\ k.hook = l.hook
        /\ k.child_up = l.child_up /\ k.at = l.at /\ k.index = l.index /\ k.lock_count = l.lock_count
        /\ k.calls[c] \in {"sent", "none"}
        /\ \A d \in Child : k.calls[d] # "none" => d = Lowest(S)
    BY <1>1 DEF Wind, Local
  <2> HIDE DEF k
  <2>4. Own(k, f) = Own(l, f)
    BY ZenonT(30), <2>3 DEF Own, lock_region
  <2>5. l.index <= Lowest(S) /\ (l.index <= c => Lowest(S) <= c)
    <3>1. l.index <= Lowest(S)
      BY ZenonT(30), <1>4, <2>1, ConstantTypes
    <3>2. l.index <= c => c \in S
      BY SMTT(30), <1>4, <1>5
    <3> HIDE DEF S
    <3> QED
      BY SMTT(30), <2>2, <3>1, <3>2
  <2>6. InFrame(k, f, c, L)
    BY ZenonT(30), <1>1, <2>3, <2>4, <2>5 DEF InFrame
  <2> QED
    BY ZenonT(30), <2>6 DEF k
<1>7. PICK k : local' = [local EXCEPT ![f] = k] /\ InFrame(k, f, c, L) /\ k.fd = l.fd
  <2>1. S = {} \/ l.lock_count = LockServerCount => Own(l, f) \in L
    BY ZenonT(30), <1>2, <1>5
  <2>2. InFrame(afr_unlock(l), f, c, L) /\ afr_unlock(l).fd = l.fd
    BY ZenonT(30), <1>1, Phases
  <2>3. Own(l, f) \in L => InFrame(done_locking(l), f, c, L) /\ done_locking(l).fd = l.fd
    BY ZenonT(30), <1>1, Phases
  <2>4. Wind(l, "lock", {Lowest(S)}).fd = l.fd
    BY ZenonT(30), <1>1 DEF Wind, Local
  <2> QED
    BY ZenonT(30), <1>6, <2>1, <2>2, <2>3, <2>4 DEF afr_lock_rec
<1> QED
  BY ZenonT(30), <1>7, FrameStep DEF afr_lock_rec

\* The phases after the locks are entered with the lock.
LEMMA ExclusionPhases ==
  ASSUME TypeInv, NEW c \in Child, ServerInv(c), NEW f \in Frame
  PROVE  pre_op_finished(f) \/ afr_transaction_resume(f) \/ post_op_finished(f)
           \/ transaction_done(f) => ServerInv(c)'
<1> DEFINE l == local[f]
           L == lock[c]
<1>1. l \in Local /\ InFrame(l, f, c, L)
  BY ZenonT(30) DEF TypeInv, LocalOK, ServerInv
<1>2. l.pc \in {"preop", "fop", "postop"} => Own(l, f) \in L /\ ~l.hook
  BY <1>1 DEF InFrame
<1>3. CASE pre_op_finished(f)
  <2>1. /\ InFrame(transaction_fop(l), f, c, L) /\ transaction_fop(l).fd = l.fd
        /\ InFrame(resume(l), f, c, L) /\ resume(l).fd = l.fd
    BY ZenonT(30), <1>1, <1>2, <1>3, Phases DEF pre_op_finished, Finished
  <2> QED
    BY ZenonT(30), <1>3, <2>1, FrameStep DEF pre_op_finished
<1>4. CASE afr_transaction_resume(f)
  <2>1. PICK k : local' = [local EXCEPT ![f] = k] /\ InFrame(k, f, c, L) /\ k.fd = l.fd
    <3>1. InFrame(resume(l), f, c, L) /\ resume(l).fd = l.fd
      BY ZenonT(30), <1>1, <1>2, <1>4, Phases DEF afr_transaction_resume, Finished
    <3> QED
      BY ZenonT(30), <1>4, <3>1 DEF afr_transaction_resume
  <2>2. \A fd \in Fd : (fd_ctx'[fd].open => fd_ctx[fd].open) /\ fd_ctx'[fd].opened_on = fd_ctx[fd].opened_on
    BY <1>4 DEF afr_transaction_resume, TypeInv, TypeOK, FdCtx
  <2> QED
    BY ZenonT(30), <1>4, <2>1, <2>2, FrameStep DEF afr_transaction_resume
<1>5. CASE post_op_finished(f)
  <2>1. InFrame(afr_unlock(l), f, c, L) /\ afr_unlock(l).fd = l.fd
    BY ZenonT(30), <1>1, <1>5, Phases DEF post_op_finished, Finished
  <2>2. local' = [local EXCEPT ![f] = afr_unlock(l)]
    BY ZenonT(30), <1>2, <1>5 DEF post_op_finished, Finished
  <2> QED
    BY ZenonT(30), <1>5, <2>1, <2>2, FrameStep DEF post_op_finished
<1>6. CASE transaction_done(f)
  <2>1. InFrame(Idle, f, c, L) /\ Idle.fd = NoFd
    BY ZenonT(30) DEF InFrame, Idle
  <2> QED
    BY ZenonT(30), <1>6, <2>1, FrameStep DEF transaction_done
<1> QED
  BY ZenonT(30), <1>3, <1>4, <1>5, <1>6

(* No other step of a call happens before AFR is told that a child is down. *)
LEMMA NoFlushUnlessDown ==
  ASSUME NEW c \in Child, ServerInv(c), NEW f \in Frame
  PROVE  /\ ~afr_up_down_flush_done(f) /\ ~up_down_flush_cbk(f)
         /\ ~afr_sh_abort(f) /\ ~afr_sh_data_fxattrop(f) /\ ~afr_sh_data_erase_pending(f)
         /\ ~afr_up_down_flush_sh_unwind(f) /\ \A b \in Block : ~sh_block(f, b)
         /\ \A kept \in SUBSET Child : ~afr_sh_data_trim_sinks(f, kept)
<1>1. InFrame(local[f], f, c, lock[c])
  BY ZenonT(30) DEF ServerInv
<1> QED
  BY ZenonT(30), <1>1 DEF InFrame, Finished, afr_up_down_flush_done, up_down_flush_cbk, afr_sh_abort,
     afr_sh_data_fxattrop, afr_sh_data_erase_pending, afr_up_down_flush_sh_unwind, sh_block,
     afr_sh_data_trim_sinks

(* Child d carries out a call, child c perhaps. *)
LEMMA ExclusionExec ==
  ASSUME TypeInv, NEW c \in Child, ServerInv(c), NEW f \in Frame, NEW d \in Child, exec(f, d)
  PROVE  ServerInv(c)'
<1> DEFINE l == local[f]
           k == [l EXCEPT !.calls[d] = "done"]
<1>1. l \in Local /\ InFrame(l, f, c, lock[c]) /\ l.calls[d] = "sent" /\ UNCHANGED <<priv, fd_ctx>>
  BY ZenonT(30) DEF TypeInv, LocalOK, ServerInv, exec, child_inodelk, child_xattrop, child_fop, CarriedOut
<1>2. local' = [local EXCEPT ![f] = k]
  BY DEF TypeInv, exec, child_inodelk, child_xattrop, child_fop, CarriedOut
<1>3. /\ k.pc = l.pc /\ k.fd = l.fd /\ k.op = l.op /\ k.next = l.next /\ k.hook = l.hook
      /\ k.child_up = l.child_up /\ k.at = l.at /\ k.index = l.index /\ k.lock_count = l.lock_count
      /\ k.calls[d] = "done" /\ \A e \in Child : e # d => k.calls[e] = l.calls[e]
  BY <1>1 DEF Local
<1> HIDE DEF k
<1>4. Own(k, f) = Own(l, f)
  BY ZenonT(30), <1>3 DEF Own, lock_region
<1>5. l.pc # "idle"
  BY ZenonT(30) DEF exec, child_inodelk, child_xattrop, child_fop
<1>6. ASSUME NEW L, InFrame(l, f, c, L), l.pc = "lock" /\ d = c => Own(l, f) \in L
      PROVE  InFrame(k, f, c, L)
  BY ZenonT(30), <1>1, <1>3, <1>4, <1>5, <1>6 DEF InFrame
<1>7. CASE lock'[c] = lock[c]
  <2>1. l.pc = "lock" /\ d = c => Own(l, f) \in lock[c]
    BY ZenonT(30), <1>7 DEF exec, child_inodelk, child_xattrop, child_fop, own_lock, Own, TypeInv, TypeOK
  <2>2. InFrame(k, f, c, lock[c])
    BY ZenonT(30), <1>1, <1>6, <2>1
  <2>3. local'[f] = k /\ \A g \in Frame : g # f => local'[g] = local[g]
    BY ZenonT(30), <1>2 DEF TypeInv
  <2>4. \A g \in Frame : InFrame(local'[g], g, c, lock'[c])
    BY ZenonT(30), <1>7, <2>2, <2>3 DEF ServerInv
  <2>5. InUseOn(c)'
    BY SMTT(30), <1>1, <1>3, <2>3 DEF InUseOn, ServerInv
  <2> QED
    BY ZenonT(30), <1>1, <1>7, <2>4, <2>5 DEF ServerInv, priv, Apart
<1>8. CASE lock'[c] # lock[c]
  <2>1. d = c /\ child_inodelk(f, c)
    BY ZenonT(30), <1>8 DEF exec, child_inodelk, child_xattrop, child_fop, TypeInv, TypeOK
  <2>2. local'[f] = k /\ \A g \in Frame : g # f => local'[g] = local[g]
    BY <1>2 DEF TypeInv
  <2>3. \/ /\ l.pc = "lock" /\ lock'[c] = lock[c] \cup {Own(l, f)}
           /\ \A m \in lock[c] : m.frame # f => m.region \cap Own(l, f).region = {}
        \/ l.pc = "unlock" /\ lock'[c] = lock[c] \ {Own(l, f)}
    BY ZenonT(30), <2>1 DEF child_inodelk, own_lock, Own, TypeInv, TypeOK
  <2>4. Own(l, f).frame = f /\ \A g \in Frame : Own(local[g], g).frame = g
    BY ZenonT(30) DEF Own
  <2>5. \A g \in Frame : g # f => InFrame(local[g], g, c, lock'[c])
    <3> SUFFICES ASSUME NEW g \in Frame, g # f PROVE InFrame(local[g], g, c, lock'[c])
      BY ZenonT(30)
    <3>1. InFrame(local[g], g, c, lock[c])
      BY ZenonT(30) DEF ServerInv
    <3>2. Own(local[g], g) \in lock[c] => Own(local[g], g) \in lock'[c]
      BY ZenonT(30), <2>3, <2>4
    <3> QED
      BY ZenonT(30), <3>1, <3>2 DEF InFrame
  <2>6. InFrame(k, f, c, lock'[c])
    <3>1. InFrame(l, f, c, lock'[c])
      BY ZenonT(30), <1>1, <2>3 DEF InFrame
    <3> QED
      BY ZenonT(30), <1>6, <2>3, <3>1
  <2>7. Apart(lock'[c])
    <3>1. Apart(lock[c])
      BY DEF ServerInv
    <3> QED
      BY ZenonT(30), <2>3, <2>4, <3>1 DEF Apart
  <2>8. InUseOn(c)'
    BY <1>1, <1>3, <2>2 DEF InUseOn, ServerInv
  <2>9. \A g \in Frame : InFrame(local'[g], g, c, lock'[c])
    BY ZenonT(30), <2>2, <2>5, <2>6
  <2> QED
    BY ZenonT(30), <1>1, <2>7, <2>8, <2>9 DEF ServerInv, priv, Apart
<1> QED
  BY ZenonT(30), <1>7, <1>8

(* A call that c answers has succeeded, as long as c has not failed. *)
LEMMA AnswerIsOk ==
  ASSUME TypeInv, NEW c \in Child, ServerInv(c), NEW f \in Frame, local[f].pc # "idle",
         NEW ok \in BOOLEAN, Answer(local[f], c, ok), c \notin faulty'
  PROVE  ok /\ local[f].calls[c] = "done"
<1>1. local[f].fd \in Fd /\ local[f].calls[c] # "lost"
  BY ZenonT(30) DEF ServerInv, InFrame
<1>2. Reaches(local[f], c)
  BY ZenonT(30), <1>1 DEF Reaches, ServerInv, InUseOn
<1> QED
  BY ZenonT(30), <1>1, <1>2 DEF Answer, Fault

(* The callbacks of the calls to child d, which may be c. *)
LEMMA ExclusionCallbacks ==
  ASSUME TypeInv, NEW c \in Child, ServerInv(c), NEW f \in Frame, NEW d \in Child,
         NEW ok \in BOOLEAN, c \notin faulty'
  PROVE  afr_lock_cbk(f, d, ok) \/ afr_changelog_pre_op_cbk(f, d, ok)
           \/ fop_cbk(f, d, ok) \/ ignoring_cbk(f, d, ok) => ServerInv(c)'
<1> DEFINE l == local[f]
           L == lock[c]
           r == Returned(l, d)
<1>0. l \in LocalOK
  BY ZenonT(30) DEF TypeInv
<1>1. l \in Local /\ InFrame(l, f, c, L)
  BY ZenonT(30) DEF TypeInv, LocalOK, ServerInv
<1>2. /\ r.pc = l.pc /\ r.fd = l.fd /\ r.op = l.op /\ r.next = l.next /\ r.hook = l.hook
      /\ r.child_up = l.child_up /\ r.at = l.at /\ r.index = l.index /\ r.lock_count = l.lock_count
      /\ r.calls[d] = "none" /\ \A e \in Child : e # d => r.calls[e] = l.calls[e]
  BY <1>1 DEF Returned, Local
<1>3. r \in Local
  BY ZenonT(30), <1>1, ReturnedType DEF Returned, Local
<1> HIDE DEF r
<1>4. ASSUME NEW k, k.pc = l.pc, k.fd = l.fd, k.op = l.op, k.next = l.next, k.hook = l.hook, k.at = l.at,
             c \in k.child_up, k.calls = r.calls, l.pc # "idle", l.pc # "lock"
      PROVE  InFrame(k, f, c, L)
  <2>1. Own(k, f) = Own(l, f)
    BY ZenonT(30), <1>4 DEF Own, lock_region
  <2> QED
    BY ZenonT(30), <1>1, <1>2, <1>4, <2>1 DEF InFrame
<1>5. ASSUME l.pc # "idle", Answer(l, d, ok) PROVE (d = c => ok /\ l.calls[c] = "done") /\ c \in l.child_up
  BY ZenonT(30), <1>1, <1>5, AnswerIsOk DEF InFrame
<1>6. CASE afr_lock_cbk(f, d, ok)
  <2>1. l.pc = "lock" /\ Answer(l, d, ok) /\ l.calls[d] # "none"
    BY ZenonT(30), <1>6 DEF afr_lock_cbk, Answer, Refused
  <2>2. /\ l.index <= d /\ (l.index <= c => d <= c) /\ l.lock_count <= l.index
        /\ l.index > c \/ l.calls[c] = "done" => Own(l, f) \in L
    BY ZenonT(30), <1>1, <2>1 DEF InFrame
  <2>3. l.index \in Nat /\ l.lock_count \in Nat /\ c \in Nat /\ d \in Nat
    BY ZenonT(30), <1>1, ConstantTypes DEF Local
  <2>4. PICK k \in Local :
                 /\ \/ local' = [local EXCEPT ![f] = k]
                    \/ local' = [local EXCEPT ![f] = afr_unlock(k)]
                 /\ k.pc = l.pc /\ k.fd = l.fd /\ k.op = l.op /\ k.next = l.next /\ k.hook = l.hook
                 /\ k.at = l.at /\ k.calls = r.calls /\ k.index = d + 1
                 /\ k.lock_count \in {l.lock_count, l.lock_count + 1}
                 /\ k.child_up = l.child_up \/ (~ok /\ k.child_up = l.child_up \ {d})
    <3>1. CASE ok
      <4> DEFINE k == [r EXCEPT !.index = d + 1, !.locked = @ \cup {d}, !.lock_count = @ + 1]
      <4>0. k \in Local
        BY ZenonT(30), <1>0, ReturnedType DEF r, LocalOK
      <4>1. local' = [local EXCEPT ![f] = k]
        BY ZenonT(30), <1>6, <3>1 DEF afr_lock_cbk, r
      <4>2. /\ k.pc = l.pc /\ k.fd = l.fd /\ k.op = l.op /\ k.next = l.next /\ k.hook = l.hook
            /\ k.at = l.at /\ k.calls = r.calls /\ k.index = d + 1 /\ k.lock_count = l.lock_count + 1
            /\ k.child_up = l.child_up
        BY ZenonT(30), <1>2, <1>3 DEF Local
      <4> HIDE DEF k
      <4> QED
        BY ZenonT(30), <4>0, <4>1, <4>2
    <3>2. CASE ~ok
      <4> DEFINE k == [r EXCEPT !.index = d + 1, !.child_up = @ \ {d}]
      <4>0. k \in Local
        BY ZenonT(30), <1>0, ReturnedType DEF r, LocalOK
      <4>1. local' = [local EXCEPT ![f] = k] \/ local' = [local EXCEPT ![f] = afr_unlock(k)]
        BY ZenonT(30), <1>6, <3>2 DEF afr_lock_cbk, r
      <4>2. /\ k.pc = l.pc /\ k.fd = l.fd /\ k.op = l.op /\ k.next = l.next /\ k.hook = l.hook
            /\ k.at = l.at /\ k.calls = r.calls /\ k.index = d + 1 /\ k.lock_count = l.lock_count
            /\ k.child_up = l.child_up \ {d}
        BY ZenonT(30), <1>2, <1>3 DEF Local
      <4> HIDE DEF k
      <4> QED
        BY ZenonT(30), <3>2, <4>0, <4>1, <4>2
    <3> QED
      BY ZenonT(30), <3>1, <3>2
  <2>5. c \in k.child_up
    BY ZenonT(30), <1>5, <2>1, <2>4
  <2>6. k.lock_count <= k.index /\ (k.index > c => Own(l, f) \in L)
    <3>1. k.lock_count <= k.index
      BY SMTT(30), <2>2, <2>3, <2>4
    <3>2. k.index > c => l.index > c \/ d = c
      BY SMTT(30), <2>2, <2>3, <2>4
    <3> QED
      BY ZenonT(30), <1>5, <2>1, <2>2, <3>1, <3>2
  <2>7. \A e \in Child : k.calls[e] = "none"
    BY ZenonT(30), <1>1, <1>2, <2>1, <2>4 DEF InFrame
  <2>8. InFrame(k, f, c, L)
    BY ZenonT(30), <1>1, <2>1, <2>4, <2>5, <2>6, <2>7 DEF InFrame, Own, lock_region
  <2>9. InFrame(afr_unlock(k), f, c, L) /\ afr_unlock(k).fd = l.fd
    BY ZenonT(30), <2>1, <2>4, <2>8, Phases
  <2> QED
    BY ZenonT(30), <1>6, <2>4, <2>8, <2>9, FrameStep DEF afr_lock_cbk
<1>7. CASE afr_changelog_pre_op_cbk(f, d, ok)
  <2>1. l.pc = "preop" /\ Answer(l, d, ok)
    BY <1>7 DEF afr_changelog_pre_op_cbk
  <2>2. PICK k : /\ local' = [local EXCEPT ![f] = k]
                 /\ \/ k = r
                    \/ ~ok /\ \E e : k = [r EXCEPT !.child_up = @ \ {d}, !.enotsup = e]
    BY ZenonT(30), <1>7 DEF afr_changelog_pre_op_cbk, r
  <2>3. /\ k.pc = l.pc /\ k.fd = l.fd /\ k.op = l.op /\ k.next = l.next /\ k.hook = l.hook
        /\ k.at = l.at /\ k.calls = r.calls
        /\ k.child_up = l.child_up \/ (~ok /\ k.child_up = l.child_up \ {d})
    BY <1>2, <1>3, <2>2 DEF Local
  <2>4. InFrame(k, f, c, L)
    BY ZenonT(30), <1>4, <1>5, <2>1, <2>3
  <2>5. \A fd \in Fd : (fd_ctx'[fd].open => fd_ctx[fd].open) /\ fd_ctx'[fd].opened_on = fd_ctx[fd].opened_on
    BY SMTT(30), <1>7 DEF afr_changelog_pre_op_cbk, TypeInv, TypeOK, FdCtx
  <2> QED
    BY ZenonT(30), <1>7, <2>2, <2>3, <2>4, <2>5, FrameStep DEF afr_changelog_pre_op_cbk
<1>8. CASE fop_cbk(f, d, ok)
  <2>1. l.pc = "fop" /\ Answer(l, d, ok)
    BY ZenonT(30), <1>8 DEF fop_cbk
  <2>2. PICK k : /\ local' = [local EXCEPT ![f] = k]
                 /\ k \in {r, [r EXCEPT !.op_ret = TRUE], [r EXCEPT !.pending[d] = 0]}
    BY ZenonT(30), <1>8 DEF fop_cbk, r
  <2>3. /\ k.pc = l.pc /\ k.fd = l.fd /\ k.op = l.op /\ k.next = l.next /\ k.hook = l.hook
        /\ k.at = l.at /\ k.calls = r.calls /\ k.child_up = l.child_up
    BY ZenonT(30), <1>2, <1>3, <2>2 DEF Local
  <2>4. InFrame(k, f, c, L)
    BY ZenonT(30), <1>4, <1>5, <2>1, <2>3
  <2>5. \A fd \in Fd : (fd_ctx'[fd].open => fd_ctx[fd].open) /\ fd_ctx'[fd].opened_on = fd_ctx[fd].opened_on
    BY SMTT(30), <1>8 DEF fop_cbk, TypeInv, TypeOK, FdCtx
  <2> QED
    BY ZenonT(30), <1>8, <2>2, <2>3, <2>4, <2>5, FrameStep DEF fop_cbk
<1>9. CASE ignoring_cbk(f, d, ok)
  <2>1. l.pc \in {"postop", "unlock"} /\ Answer(l, d, ok) /\ local' = [local EXCEPT ![f] = r]
    BY SMTT(30), <1>9 DEF ignoring_cbk, r
  <2>2. InFrame(r, f, c, L)
    BY ZenonT(30), <1>2, <1>4, <1>5, <2>1
  <2> QED
    BY ZenonT(30), <1>2, <1>9, <2>1, <2>2, FrameStep DEF ignoring_cbk
<1> QED
  BY ZenonT(30), <1>6, <1>7, <1>8, <1>9

-----------------------------------------------------------------------------
(* Connections *)

\* A child that stays up keeps its locks.
LEMMA ExclusionConnection ==
  ASSUME TypeInv, NEW c \in Child, ServerInv(c), c \notin faulty', down_count' = 0, NEW d \in Child
  PROVE  Connection(d) \/ crash => ServerInv(c)'
<1>1. CASE disconnect(d)
  <2>1. d # c
    BY SMTT(30), <1>1 DEF disconnect, Fault
  <2>2. ASSUME NEW g \in Frame
        PROVE  /\ local'[g].fd = local[g].fd
               /\ InFrame(local'[g], g, c, lock[c])
    <3> DEFINE l == local[g]
               k == local'[g]
    <3>1. l \in Local /\ InFrame(l, g, c, lock[c])
      BY DEF TypeInv, LocalOK, ServerInv
    <3>2. k = [l EXCEPT !.calls[d] = IF @ \in {"sent", "done"} THEN "lost" ELSE @]
      BY ZenonT(30), <1>1 DEF disconnect
    <3>3. /\ k.pc = l.pc /\ k.fd = l.fd /\ k.op = l.op /\ k.next = l.next /\ k.hook = l.hook
          /\ k.child_up = l.child_up /\ k.at = l.at /\ k.index = l.index /\ k.lock_count = l.lock_count
          /\ k.calls[c] = l.calls[c]
          /\ \A e \in Child : k.calls[e] # "none" => l.calls[e] # "none"
      BY <2>1, <3>1, <3>2 DEF Local
    <3> HIDE DEF k
    <3>4. Own(k, g) = Own(l, g)
      BY ZenonT(30), <3>3 DEF Own, lock_region
    <3>5. InFrame(k, g, c, lock[c])
      BY ZenonT(30), <3>1, <3>3, <3>4 DEF InFrame
    <3> QED
      BY ZenonT(30), <3>3, <3>5 DEF k
  <2>3. lock'[c] = lock[c]
    BY <1>1, <2>1 DEF disconnect, TypeInv, TypeOK
  <2>4. InUseOn(c)'
    BY ZenonT(30), <1>1, <2>2 DEF InUseOn, ServerInv, disconnect
  <2> QED
    BY ZenonT(30), <1>1, <2>1, <2>2, <2>3, <2>4 DEF disconnect, ServerInv, Apart
<1>2. ~notify_CHILD_DOWN(d)
  BY DEF notify_CHILD_DOWN, TypeInv, TypeOK
<1>3. ~notify_CHILD_UP(d)
  BY ZenonT(30) DEF notify_CHILD_UP, ServerInv
<1>4. ASSUME NEW fd \in Fd, protocol_client_reopen_cbk(fd, d) PROVE ServerInv(c)'
  BY ZenonT(30), <1>4 DEF protocol_client_reopen_cbk, ServerInv, InUseOn, Apart
<1>5. CASE crash
  <2>1. Idle.pc = "idle" /\ Idle.fd = NoFd /\ ~Closed.open
    BY ZenonT(30) DEF Idle, Closed
  <2>2. \A f \in Frame : local'[f].pc = "idle" /\ local'[f].fd = NoFd
    BY ZenonT(30), <1>5, <2>1 DEF crash
  <2>3. \A fd \in Fd : ~fd_ctx'[fd].open
    BY ZenonT(30), <1>5, <2>1 DEF crash
  <2>4. InUseOn(c)'
    BY ZenonT(30), <2>2, <2>3, FdAssumption DEF InUseOn
  <2>5. \A f \in Frame : InFrame(local'[f], f, c, lock'[c])
    BY ZenonT(30), <2>2 DEF InFrame
  <2>6. Apart(lock'[c])
    BY ZenonT(30), <1>5 DEF crash, Apart
  <2>7. UNCHANGED priv
    BY ZenonT(30), <1>5 DEF crash
  <2>8. UNCHANGED <<connected, reopening, child_up, up_count>>
    BY ZenonT(30), <2>7 DEF priv
  <2> QED
    BY ZenonT(30), <2>4, <2>5, <2>6, <2>8 DEF ServerInv
<1> QED
  BY ZenonT(30), <1>1, <1>2, <1>3, <1>4, <1>5 DEF Connection

(* Nothing is forgotten: neither a child that failed nor a notification. *)
LEMMA Monotone ==
  ASSUME TypeInv, [Next]_vars
  PROVE  faulty \subseteq faulty' /\ (down_count' = 0 => down_count = 0)
<1>1. down_count \in Nat
  BY ZenonT(30) DEF TypeInv, TypeOK
<1>2. ASSUME NEW f \in Frame, Step(f) PROVE faulty \subseteq faulty' /\ down_count' = down_count
  <2>1. ASSUME NEW d \in Child, NEW ok \in BOOLEAN,
               \/ afr_lock_cbk(f, d, ok) \/ afr_changelog_pre_op_cbk(f, d, ok)
               \/ fop_cbk(f, d, ok) \/ ignoring_cbk(f, d, ok)
        PROVE  faulty \subseteq faulty' /\ down_count' = down_count
    BY ZenonT(30), <2>1 DEF afr_lock_cbk, afr_changelog_pre_op_cbk, fop_cbk, ignoring_cbk, Answer, Fault, priv
  <2>2. CASE \/ afr_lock_rec(f) \/ pre_op_finished(f) \/ afr_transaction_resume(f)
             \/ post_op_finished(f) \/ transaction_done(f)
             \/ afr_up_down_flush_done(f) \/ up_down_flush_cbk(f)
    BY ZenonT(30), <2>2 DEF afr_lock_rec, pre_op_finished, afr_transaction_resume, post_op_finished,
       transaction_done, afr_up_down_flush_done, up_down_flush_cbk, priv, history
  <2>3. CASE \/ afr_sh_abort(f) \/ afr_sh_data_fxattrop(f) \/ afr_sh_data_erase_pending(f)
             \/ afr_up_down_flush_sh_unwind(f) \/ \E b \in Block : sh_block(f, b)
    BY ZenonT(30), <2>3 DEF afr_sh_abort, afr_sh_data_fxattrop, afr_sh_data_erase_pending,
       afr_up_down_flush_sh_unwind, sh_block, priv, history
  <2>4. ASSUME NEW kept \in SUBSET Child, afr_sh_data_trim_sinks(f, kept)
        PROVE  faulty \subseteq faulty' /\ down_count' = down_count
    BY ZenonT(30), <2>4 DEF afr_sh_data_trim_sinks, priv
  <2> QED
    BY ZenonT(30), <1>2, <2>1, <2>2, <2>3, <2>4 DEF Step
<1>3. ASSUME NEW f \in Frame, NEW d \in Child, exec(f, d)
      PROVE  faulty \subseteq faulty' /\ down_count' = down_count
  BY ZenonT(30), <1>3 DEF exec, child_inodelk, child_xattrop, child_fop, CarriedOut, priv, history
<1>4. ASSUME NEW d \in Child, Connection(d)
      PROVE  faulty \subseteq faulty' /\ (down_count' = 0 => down_count = 0)
  <2>1. CASE disconnect(d)
    BY <2>1 DEF disconnect, Fault
  <2>2. CASE notify_CHILD_DOWN(d)
    <3>1. down_count' = down_count + 1 /\ faulty' = faulty
      BY ZenonT(30), <2>2 DEF notify_CHILD_DOWN, history
    <3> QED
      BY <1>1, <3>1
  <2>3. CASE notify_CHILD_UP(d)
    BY ZenonT(30), <2>3 DEF notify_CHILD_UP, history
  <2>4. ASSUME NEW fd \in Fd, protocol_client_reopen_cbk(fd, d)
        PROVE  faulty \subseteq faulty' /\ down_count' = down_count
    BY ZenonT(30), <2>4 DEF protocol_client_reopen_cbk, history
  <2> QED
    BY ZenonT(30), <1>4, <2>1, <2>2, <2>3, <2>4 DEF Connection
<1>5. CASE crash
  BY ZenonT(30), <1>5 DEF crash, priv, history
<1>6. ASSUME NEW f \in Frame, NEW fd, NEW b,
             \/ afr_open(fd) \/ afr_flush(f, fd) \/ afr_truncate(f, b)
             \/ afr_writev(f, fd, b) \/ afr_ftruncate(f, fd, b)
      PROVE  faulty \subseteq faulty' /\ down_count' = down_count
  <2>1. ASSUME NEW op, NEW l, Start(f, op, l) PROVE UNCHANGED <<faulty, down_count>>
    BY <2>1 DEF Start, priv
  <2>2. CASE afr_truncate(f, b) \/ afr_writev(f, fd, b) \/ afr_ftruncate(f, fd, b)
    BY ZenonT(30), <2>1, <2>2 DEF afr_truncate, afr_writev, afr_ftruncate
  <2> QED
    BY ZenonT(30), <1>6, <2>2 DEF afr_open, afr_flush, priv, history
<1>7. ASSUME NEW fd \in Fd, afr_open(fd) PROVE faulty \subseteq faulty' /\ down_count' = down_count
  BY ZenonT(30), <1>7 DEF afr_open, history
<1>8. CASE UNCHANGED vars
  BY <1>8 DEF vars, priv, history
<1> QED
  BY ZenonT(30), <1>2, <1>3, <1>4, <1>5, <1>6, <1>7, <1>8 DEF Next

(* Child c is one of the lock servers, has not failed, and AFR has not been told
   of a child that is down. *)
Serving(c) == c < LockServerCount /\ c \notin faulty /\ down_count = 0

ExclusionInv == TypeInv /\ \A c \in Child : Serving(c) => ServerInv(c)

\* There are no locks at the start.
LEMMA ExclusionInit == Init => ExclusionInv
<1> SUFFICES ASSUME Init PROVE ExclusionInv
  OBVIOUS
<1>1. ASSUME NEW c \in Child PROVE ServerInv(c)
  <2>1. \A f \in Frame : InFrame(local[f], f, c, lock[c])
    BY ZenonT(30) DEF Init, Idle, InFrame
  <2>2. InUseOn(c)
    BY ZenonT(30), FdAssumption DEF Init, InUseOn, Closed, Idle
  <2> QED
    BY ZenonT(30), <2>1, <2>2 DEF Init, ServerInv, Apart
<1> QED
  BY ZenonT(30), <1>1, TypeInit DEF ExclusionInv

\* Every step keeps the locks of the servers that stayed up apart.
LEMMA ExclusionNext ==
  ASSUME Op \subseteq {"WRITE"}, ExclusionInv, [Next]_vars
  PROVE  ExclusionInv'
<1>1. TypeInv /\ TypeInv'
  BY ZenonT(30), TypeNext DEF ExclusionInv
<1> SUFFICES ASSUME NEW c \in Child, Serving(c)' PROVE ServerInv(c)'
  BY <1>1 DEF ExclusionInv
<1>2. c < LockServerCount /\ c \notin faulty' /\ down_count' = 0
  BY ZenonT(30) DEF Serving
<1>3. down_count = 0 /\ ServerInv(c)
  BY ZenonT(30), <1>1, <1>2, Monotone DEF ExclusionInv, Serving
<1>4. ASSUME NEW f \in Frame, Step(f) PROVE ServerInv(c)'
  BY ZenonT(30), <1>1, <1>2, <1>3, <1>4, ExclusionLockRec, ExclusionPhases, ExclusionCallbacks,
     NoFlushUnlessDown DEF Step
<1>5. ASSUME NEW f \in Frame, NEW d \in Child, exec(f, d) PROVE ServerInv(c)'
  BY ZenonT(30), <1>1, <1>3, <1>5, ExclusionExec
<1>6. ASSUME NEW d \in Child, Connection(d) \/ crash PROVE ServerInv(c)'
  BY ZenonT(30), <1>1, <1>2, <1>3, <1>6, ExclusionConnection
<1>7. ASSUME NEW fd \in Fd, afr_open(fd) PROVE ServerInv(c)'
  BY ZenonT(30), <1>1, <1>3, <1>7, ExclusionOpen
<1>8. ASSUME NEW f \in Frame, NEW fd \in Fd, (\E b \in Block : afr_writev(f, fd, b)) \/ afr_flush(f, fd)
      PROVE  ServerInv(c)'
  BY ZenonT(30), <1>1, <1>2, <1>3, <1>8, ExclusionCalls
<1>9. \A f \in Frame, b \in Block : ~afr_truncate(f, b) /\ \A fd \in Fd : ~afr_ftruncate(f, fd, b)
  BY ZenonT(30) DEF afr_truncate, afr_ftruncate, Start
<1>10. CASE UNCHANGED vars
  <2>1. /\ child_up' = child_up /\ up_count' = up_count /\ connected' = connected
        /\ reopening' = reopening /\ fd_ctx' = fd_ctx /\ local' = local /\ lock' = lock
    BY ZenonT(30), <1>10 DEF vars, priv
  <2>2. InUseOn(c)' /\ Apart(lock[c])'
    BY ZenonT(30), <1>3, <2>1 DEF ServerInv, InUseOn, Apart
  <2>3. \A f \in Frame : InFrame(local[f], f, c, lock[c])'
    BY ZenonT(30), <1>3, <2>1 DEF ServerInv
  <2> QED
    BY ZenonT(30), <1>3, <2>1, <2>2, <2>3 DEF ServerInv
<1> QED
  BY ZenonT(30), <1>4, <1>5, <1>6, <1>7, <1>8, <1>9, <1>10 DEF Next

(* Two writes never modify the same block at the same time (NoConcurrentFops),
   whatever the number of children, callers and descriptors, if one of the
   first data-lock-server-count children has not failed and no child has been
   reported down: a refused or lost call on the others does no harm, nor does a
   broken connection AFR has not been told about. *)
THEOREM WritesExclude ==
  ASSUME Op \subseteq {"WRITE"}
  PROVE  Spec => []((\E c \in Child : Serving(c)) => NoConcurrentFops)
<1>1. Init => ExclusionInv
  BY ExclusionInit
<1>2. ExclusionInv /\ [Next]_vars => ExclusionInv'
  BY ZenonT(30), ExclusionNext
<1>3. ExclusionInv => ((\E c \in Child : Serving(c)) => NoConcurrentFops)
  <2> SUFFICES ASSUME ExclusionInv, NEW c \in Child, Serving(c), NEW f \in Frame, NEW g \in Frame,
                      f # g, local[f].pc = "fop", local[g].pc = "fop"
               PROVE  Affected(local[f]) \cap Affected(local[g]) = {}
    BY ZenonT(30) DEF NoConcurrentFops
  <2>1. ServerInv(c)
    BY ZenonT(30) DEF ExclusionInv
  <2>2. ASSUME NEW h \in Frame, local[h].pc = "fop"
        PROVE  Own(local[h], h) \in lock[c] /\ local[h].op \in {"WRITE", "FLUSH"}
    BY ZenonT(30), <2>1, <2>2 DEF ServerInv, InFrame
  <2>3. ASSUME NEW h \in Frame, local[h].pc = "fop" PROVE Affected(local[h]) \subseteq Own(local[h], h).region
    BY ZenonT(30), <2>2, <2>3 DEF Affected, Own, lock_region
  <2>4. Own(local[f], f).frame # Own(local[g], g).frame
    BY ZenonT(30) DEF Own
  <2>5. Own(local[f], f).region \cap Own(local[g], g).region = {}
    BY ZenonT(30), <2>1, <2>2, <2>4 DEF ServerInv, Apart
  <2> QED
    BY ZenonT(30), <2>3, <2>5
<1> QED
  BY <1>1, <1>2, <1>3, PTL DEF Spec
=============================================================================
