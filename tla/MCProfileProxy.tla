---------------------------- MODULE MCProfileProxy ----------------------------
(***************************************************************************)
(* Instances of ProfileProxy for TLC.                                      *)
(***************************************************************************)
EXTENDS ProfileProxy

=============================================================================
