--------------------------- MODULE RequestContract ---------------------------
(***************************************************************************)
(* What the master promises of a request it accepts: the request belongs   *)
(* to one server, and its callback gets at most one answer, which comes    *)
(* from that server.  MasterAgent implements it.                           *)
(***************************************************************************)
EXTENDS Naturals, Sequences

CONSTANTS Servers, NONE, MaxReq

VARIABLES
  target,   \* request id -> the server it was made to, NONE before that
  answered  \* request id -> the servers whose answers reached its callback

vars == <<target, answered>>

Init ==
  /\ target = [r \in 1..MaxReq |-> NONE]
  /\ answered = [r \in 1..MaxReq |-> <<>>]

Make(r, s) ==
  /\ target[r] = NONE
  /\ target' = [target EXCEPT ![r] = s]
  /\ UNCHANGED answered

Answer(r) ==
  /\ target[r] # NONE
  /\ answered[r] = <<>>
  /\ answered' = [answered EXCEPT ![r] = <<target[r]>>]
  /\ UNCHANGED target

Next == \E r \in 1..MaxReq : Answer(r) \/ \E s \in Servers : Make(r, s)

Spec == Init /\ [][Next]_vars

=============================================================================
