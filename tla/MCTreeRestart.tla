---------------------------- MODULE MCTreeRestart ----------------------------
(***************************************************************************)
(* The networks of MCSpanningTree, with routers that crash.                *)
(***************************************************************************)
EXTENDS MCSpanningTree, TreeRestart

=============================================================================
