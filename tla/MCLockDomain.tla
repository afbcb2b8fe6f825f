---------------------------- MODULE MCLockDomain ----------------------------
(* Instances of LockDomain for TLC. *)
EXTENDS LockDomain, TLC

CONSTANTS c1, c2, t1, t2, t3, n1, n2, w1, w2, f1, f2, f3

HomeTwoOne == t1 :> c1 @@ t2 :> c1 @@ t3 :> c2

Bytes(type, s, e) == [type |-> type, start |-> s, end |-> e]
(* LLONG_MAX is 3: a lock of length 0 at offset 0 ends there *)
WholeFile == {Bytes("WR", 0, 3)}
(* two that share one byte, and one that meets neither *)
Neighbours == {Bytes("RD", 0, 1), Bytes("WR", 1, 2), Bytes("WR", 3, 3)}

(* Threads and frame addresses are only compared for equality. *)
Symmetry == Permutations({w1, w2}) \cup Permutations({f1, f2, f3})

=============================================================================
