------------------------- MODULE MCTreeForwarding --------------------------
(* Small networks for TreeForwarding.                                      *)
EXTENDS TreeForwarding

Both(S) == S \cup {<<l[2], l[1]>> : l \in S}

(* A ring of the routers 1 to 4 with the chord <<1, 3>>.                   *)
Chord == Both({<<1, 2>>, <<2, 3>>, <<3, 4>>, <<4, 1>>, <<1, 3>>})

(* Ports are numbered from 1, in the order of the keys.                    *)
Ports == [n \in Node |-> [m \in Node |-> IF m > n THEN m - 1 ELSE IF m < n THEN m ELSE 9]]

=============================================================================
