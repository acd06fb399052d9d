----------------------------- MODULE TreeElection -----------------------------
(***************************************************************************)
(* SpanningTree implements RootElection: of the announcements only the     *)
(* root is heard of, of the handlers only what they do to the parent.      *)
(***************************************************************************)
EXTENDS SpanningTree

ASSUME NoRootAssumption == None \notin Root

HeardRoots ==
    [n \in Node |-> [m \in Node |-> IF ann[n][m] = None THEN None ELSE ann[n][m].root]]

Election == INSTANCE RootElection WITH rounds <- sequence, heard <- HeardRoots

(* Whatever the tasks, timers, late first frames and disconnections of     *)
(* connect .. maintain_tree do, routers only hear of rounds that a root    *)
(* announced, in order, and change parents without weakening their root.   *)
ElectsRoot == Election!Spec

=============================================================================
