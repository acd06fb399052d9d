----------------------------- MODULE MCPeerings -----------------------------
(***************************************************************************)
(* Three connections for Peerings: two of one peer and one of another.     *)
(***************************************************************************)
EXTENDS Peerings, TLC

CONSTANTS p, q, c1, c2, c3, u1, s1

TwoOfOne == c1 :> p @@ c2 :> p @@ c3 :> q

(* Of the other peer's connection, the user's disconnection and the stop   *)
(* only one comes about in a behaviour.  Nothing obliges any of them to.   *)
OneDisturbance ==
    Cardinality({e \in {1, 2, 3} : \/ e = 1 /\ at[c3] # "idle"
                                   \/ e = 2 /\ call[u1].pc # "idle"
                                   \/ e = 3 /\ ~ running}) <= 1

=============================================================================
