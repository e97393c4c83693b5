---------------------------- MODULE MCAdminSystem ----------------------------
(***************************************************************************)
(* Instances of AdminSystem for TLC: one server, one monitor process.      *)
(***************************************************************************)
EXTENDS AdminSystem

CONSTANTS s1, t1, a1

OneType == [s \in Servers |-> t1]
Monitor == [kind |-> "monitor", id |-> s1, addr |-> a1]
ConnSymmetry == Permutations(Conns)

=============================================================================
