---------------------------- MODULE MCRouterLocks ----------------------------
(***************************************************************************)
(* Two peers' tasks, and one other task at a time.                         *)
(***************************************************************************)
EXTENDS RouterLocks, TLC

=============================================================================
