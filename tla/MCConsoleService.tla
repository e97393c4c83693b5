-------------------------- MODULE MCConsoleService --------------------------
(***************************************************************************)
(* An instance of ConsoleService for TLC: one monitor, a module that pulls *)
(* (systemInfo) and one that pushes.                                       *)
(***************************************************************************)
EXTENDS ConsoleService

CONSTANTS pulling, pushing

OneOfEach == [m \in Modules |-> IF m = pulling THEN "pull" ELSE "push"]
MastersPull == {<<Master, pulling>>}

=============================================================================
