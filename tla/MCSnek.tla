------------------------------- MODULE MCSnek -------------------------------
(* Small networks for Snek.                                                *)
EXTENDS Snek

Both(S) == S \cup {<<l[2], l[1]>> : l \in S}

(* Two leaves of the root: the path from 1 to 2 runs through 3.            *)
Star == Both({<<1, 3>>, <<2, 3>>})

(* Every router has two ways to the others.                                *)
Triangle == Both({<<1, 2>>, <<1, 3>>, <<2, 3>>})

(* Ports are numbered from 1, in the order of the keys.                    *)
Ports == [n \in Node |-> [m \in Node |-> IF m < n THEN m ELSE IF m > n THEN m - 1 ELSE 9]]

(* The tree forms, in milliseconds, before the first maintain_snek, a      *)
(* second after the start, and before a peering breaks.                    *)
Forming ==
    /\ ~ Settled /\ Broken = {}
    /\ \A n \in Node : paths[n] = {} /\ \A m \in Node : net[n][m] = <<>>

TreeFirst == Forming => UNCHANGED <<peers, snake>>

=============================================================================
