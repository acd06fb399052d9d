----------------------------- MODULE RootElection -----------------------------
(***************************************************************************)
(* What the spanning tree promises, without connections, queues, timers or *)
(* tasks: routers hear of roots and follow one of them.                    *)
(*                                                                         *)
(* A router holds of each peer the last root it heard of, which the root   *)
(* itself announced, and never an earlier round of the root it held.  It   *)
(* changes to another parent only if that does not weaken the root it      *)
(* follows; the way down leads over losing the parent, hearing worse from  *)
(* it, or being root itself.                                               *)
(***************************************************************************)
EXTENDS Naturals

CONSTANTS Node,    \* the routers, ordered as numbers
          None     \* nothing heard

VARIABLES rounds,  \* rounds[r]: the rounds r has announced as a root
          heard,   \* heard[n][m]: the root that n last heard of from m
          parent   \* parent[n]: the router n follows, n itself as a root

vars == <<rounds, heard, parent>>

Init ==
    /\ rounds = [n \in Node |-> 0]
    /\ heard = [n \in Node |-> [m \in Node |-> None]]
    /\ parent = [n \in Node |-> n]

(* The root n follows with parent p and the roots row it heard of.         *)
Followed(n, row, p) ==
    IF row[p] # None THEN row[p] ELSE [key |-> n, seq |-> rounds[n]]

Weaker(r, s) == r.key < s.key \/ (r.key = s.key /\ r.seq < s.seq)

(* n becomes its own root.                                                 *)
FallBack(n) == parent' = [parent EXCEPT ![n] = n]

(* n takes a parent whose root, in row, is not weaker than root r.         *)
Adopt(n, row, r) ==
    \E m \in Node : /\ row[m] # None /\ ~ Weaker(row[m], r)
                    /\ parent' = [parent EXCEPT ![n] = m]

Begin(n) ==
    /\ rounds' = [rounds EXCEPT ![n] = @ + 1]
    /\ UNCHANGED <<heard, parent>>

Hear(n, m) ==
    \E k \in Node : \E s \in 0 .. rounds[k] :
        /\ heard[n][m] # None /\ heard[n][m].key = k => heard[n][m].seq <= s
        /\ heard' = [heard EXCEPT ![n][m] = [key |-> k, seq |-> s]]
        /\ \/ UNCHANGED parent
           \/ m = parent[n] /\ FallBack(n)
           \/ /\ m # parent[n] /\ k > Followed(n, heard'[n], parent[n]).key
              /\ parent' = [parent EXCEPT ![n] = m]
        /\ UNCHANGED rounds

Lose(n, m) ==
    /\ heard' = [heard EXCEPT ![n][m] = None]
    /\ \/ UNCHANGED parent
       \/ /\ m = parent[n]
          /\ FallBack(n) \/ Adopt(n, heard'[n], [key |-> n, seq |-> rounds[n]])
    /\ UNCHANGED rounds

Choose(n) ==
    /\ FallBack(n) \/ Adopt(n, heard[n], Followed(n, heard[n], parent[n]))
    /\ UNCHANGED <<rounds, heard>>

Next == \/ \E n \in Node : Begin(n) \/ Choose(n)
        \/ \E n, m \in Node : Hear(n, m) \/ Lose(n, m)

Spec == Init /\ [][Next]_vars

=============================================================================
