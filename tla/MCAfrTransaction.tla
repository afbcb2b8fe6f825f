-------------------------- MODULE MCAfrTransaction --------------------------
(* Instances of AfrTransaction for TLC. *)
EXTENDS AfrTransaction, TLC

CONSTANTS d1, d2, f1, f2

NoFavorite == -1

FrameSymmetry == Permutations({f1, f2})
=============================================================================
