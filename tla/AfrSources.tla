----------------------------- MODULE AfrSources -----------------------------
(* How cluster/afr decides from the changelogs which copies of a file are
   sources and which are sinks (afr-self-heal-common.c, afr_sh_data_fix).

   A changelog row is a function from the children to the pending counts one
   copy holds against every copy; NoXattr stands for a count that could not be
   read, because the attribute is missing or its child did not answer. *)
EXTENDS Integers, FiniteSets

CONSTANTS
  ChildCount,
  NoXattr,
  FavoriteChild   \* the option favorite-child, -1 when it is not set

ASSUME ChildAssumption == ChildCount \in Nat /\ ChildCount >= 1
ASSUME XattrAssumption == NoXattr \notin Int
ASSUME FavoriteAssumption == FavoriteChild \in -1 .. ChildCount - 1

Child == 0 .. ChildCount - 1

Lowest(S) == CHOOSE i \in S : \A j \in S : i <= j

ignorant(X, i) == \E j \in Child : X[i][j] = NoXattr

afr_sh_build_pending_matrix(X) ==
  [i \in Child |-> [j \in Child |->
     (IF X[i][j] = NoXattr THEN 0 ELSE X[i][j])
       + (IF ignorant(X, j) /\ ~ignorant(X, i) THEN 1 ELSE 0)]]

(* The count in a row that afr_sh_pending_to_delta takes for j: when the attribute
   of j is missing the pointer is still at that of a child before it. *)
pending(row, j) ==
  LET K == {k \in Child : k <= j /\ row[k] # NoXattr}
  IN IF K = {} THEN 0 ELSE row[CHOOSE k \in K : \A m \in K : m <= k]

-----------------------------------------------------------------------------
(* characters *)

innocent(M) == {i \in Child : \A j \in Child : M[i][j] = 0}
fool(M)     == {i \in Child : M[i][i] # 0}
wise(M)     == Child \ (innocent(M) \cup fool(M))

(* The wise nodes no wise node accuses. W is computed before the sizes are
   compared, M is the matrix after that. *)
wisest(M, W) == {i \in W : \A j \in W : M[j][i] = 0}

size_differs(M, size, i, j) ==
  size[i] # size[j] /\ M[i][j] = 0 /\ M[j][i] = 0

afr_sh_mark_if_size_differs(M, size) ==
  [i \in Child |-> [j \in Child |->
     IF size_differs(M, size, i, j) THEN 1 ELSE M[i][j]]]

(* The first of the biggest: a later one has to be strictly greater. *)
biggest(S, size) ==
  Lowest({i \in S : \A j \in S : size[j] <= size[i]})

SplitBrain == -1

Marked(n, S) == [nsources |-> n, sources |-> S]

(* afr_sh_mark_sources for AFR_SELF_HEAL_DATA *)
afr_sh_mark_sources(M, size) ==
  LET W == wise(M)
      D == afr_sh_mark_if_size_differs(M, size)
  IN CASE innocent(M) = Child ->
            IF D # M THEN Marked(1, {biggest(Child, size)}) ELSE Marked(0, {})
       [] innocent(M) # Child /\ W # {} ->
            IF wisest(D, W) = {} THEN Marked(SplitBrain, {})
            ELSE Marked(Cardinality(wisest(D, W)), wisest(D, W))
       [] innocent(M) # Child /\ W = {} ->
            Marked(1, {biggest(fool(M), size)})

NoSource == -1

(* Variant: heals from the first child, whatever the changelogs say. *)
fix_from_first(X, size, Errored) ==
  [source |-> Lowest(Child \ Errored), sources |-> {Lowest(Child \ Errored)}]

(* afr_sh_data_fix up to the choice of the source. The row of a child that did
   not answer is unreadable and its size was never filled in; Errored are the
   children with a child_errno. *)
afr_sh_data_fix(X, size, Errored) ==
  LET marked == afr_sh_mark_sources(afr_sh_build_pending_matrix(X), size)
      S == IF marked.nsources = SplitBrain
           THEN {FavoriteChild} \ ({-1} \cup Errored)
           ELSE marked.sources \ Errored
  IN IF S = {} THEN [source |-> NoSource, sources |-> {}]
     ELSE [source  |-> Lowest(S),
           sources |-> {i \in S : size[i] = size[Lowest(S)]}]
=============================================================================
