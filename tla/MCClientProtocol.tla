-------------------------- MODULE MCClientProtocol --------------------------
(* Instances of ClientProtocol for TLC. *)
EXTENDS ClientProtocol
=============================================================================
