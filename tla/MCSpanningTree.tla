--------------------------- MODULE MCSpanningTree ---------------------------
(***************************************************************************)
(* Small networks for SpanningTree.  Keys are numbers, so the key order    *)
(* decides who is strongest: 3 in the three-node networks, 4 in the last.  *)
(***************************************************************************)
EXTENDS TreeElection

Both(pairs) == pairs \cup {<<p[2], p[1]>> : p \in pairs}

(* Two routers and one connection.                                         *)
Pair == Both({<<1, 2>>})

(* The weakest router between the two others.                              *)
Line == Both({<<1, 3>>, <<1, 2>>})

(* Every router has two ways to the root.                                  *)
Triangle == Both({<<1, 3>>, <<1, 2>>, <<2, 3>>})

(* A ring 1, 2, 3 that reaches the root 4 through 1 alone.                 *)
Kite == Both({<<4, 1>>, <<1, 2>>, <<2, 3>>, <<3, 1>>})
RootLeaves == {<<4, 1>>}

=============================================================================
