-------------------------- MODULE MonitorAgentClaims --------------------------
(***************************************************************************)
(* What a comment of the repository says of a monitor and MonitorAgent     *)
(* does not do: TLC refutes it.                                            *)
(***************************************************************************)
EXTENDS MonitorAgent

\* monitorAgent.js:183 "close monitor agent": a closed agent does not come back to the
\* master on a new stream.
ClosedGreetsNobody ==
  [][stopped => \A c \in Conns : Greeted(c)' => Greeted(c)]_monitorVars

=============================================================================
