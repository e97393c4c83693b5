---------------------------- MODULE MCAdminSession ----------------------------
(***************************************************************************)
(* Instances of AdminSession for TLC: one client, three servers of which   *)
(* one is a frontend and one has registered without an info.               *)
(***************************************************************************)
EXTENDS AdminSession

=============================================================================
