-------------------------- MODULE MasterAgentClaims --------------------------
(***************************************************************************)
(* What comments, tests and names of the repository say of the master and  *)
(* MasterAgent does not do.  Each is refuted by a run of its own.          *)
(***************************************************************************)
EXTENDS MasterAgent

\* masterAgent.js:614 "remove master node in idMap and typeMap": it is removed when the
\* connection of the master node ends, not when another one does.
PrimaryRemovedAtItsEnd ==
  [][\A s \in Servers :
       idMap[s] # NONE /\ idMap'[s] = NONE => idMap[s].socket \notin registered']_vars

=============================================================================
