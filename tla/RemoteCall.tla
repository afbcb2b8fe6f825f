----------------------------- MODULE RemoteCall -----------------------------
(***************************************************************************)
(* What a translator above protocol/client may rely on for one call: it is *)
(* answered once and in the end.  The server executes it at most once.  An *)
(* answer of the server's means that it was executed; an answer the client *)
(* made up (not connected, timed out) says nothing: the server may have    *)
(* executed the call, or may execute it after the caller has been told.  A *)
(* call the client cannot send at all is refused, and never executed.      *)
(***************************************************************************)
CONSTANT Call

VARIABLES phase,    \* Call -> "idle", "pending", "served" or "failed"
          effect    \* the calls the server has executed

vars == <<phase, effect>>

Init == phase = [c \in Call |-> "idle"] /\ effect = {}

Submit(c) ==
  /\ phase[c] = "idle"
  /\ phase' = [phase EXCEPT ![c] = "pending"]
  /\ UNCHANGED effect

Refuse(c) ==
  /\ phase[c] = "idle"
  /\ phase' = [phase EXCEPT ![c] = "failed"]
  /\ UNCHANGED effect

Execute(c) ==
  /\ phase[c] \in {"pending", "failed"} /\ c \notin effect
  /\ effect' = effect \cup {c}
  /\ UNCHANGED phase

Serve(c) ==
  /\ phase[c] = "pending" /\ c \in effect
  /\ phase' = [phase EXCEPT ![c] = "served"]
  /\ UNCHANGED effect

\* A lost connection fails several calls at once.
Fail(c) ==
  /\ \E S \in SUBSET {d \in Call : phase[d] = "pending"} :
       /\ c \in S
       /\ phase' = [d \in Call |-> IF d \in S THEN "failed" ELSE phase[d]]
  /\ UNCHANGED effect

\* The name of an answered call is free for another one.
Forget(c) ==
  /\ phase[c] \in {"served", "failed"}
  /\ phase' = [phase EXCEPT ![c] = "idle"]
  /\ effect' = effect \ {c}

Next == \E c \in Call : Submit(c) \/ Refuse(c) \/ Execute(c) \/ Serve(c) \/ Fail(c)
                     \/ Forget(c)

Spec ==
  /\ Init /\ [][Next]_vars
  /\ \A c \in Call : WF_vars(Serve(c) \/ Fail(c))
=============================================================================
