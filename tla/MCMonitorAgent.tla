--------------------------- MODULE MCMonitorAgent ---------------------------
(***************************************************************************)
(* Instances of MonitorAgent for TLC.                                      *)
(***************************************************************************)
EXTENDS MonitorAgentClaims

ConnSymmetry == Permutations(Conns)

=============================================================================
