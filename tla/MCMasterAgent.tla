---------------------------- MODULE MCMasterAgent ----------------------------
(***************************************************************************)
(* Instances of MasterAgent for TLC.                                       *)
(***************************************************************************)
EXTENDS MasterAgentClaims

CONSTANTS s1, s2, t1, a1, a2

\* Every server of the instance has the same type.
OneType == [s \in Servers |-> t1]

ConnSymmetry == Permutations(Conns)

=============================================================================
