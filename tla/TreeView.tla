------------------------------ MODULE TreeView ------------------------------
(***************************************************************************)
(* The spanning tree as routing sees it.  Routing reads three things: the  *)
(* parent of a router, the announcements it stored and its peers; this     *)
(* module lets them change as SpanningTree does, with the queues, timers   *)
(* and tasks left out: an announcement is heard at any time while its      *)
(* sender stands by it, and a router without a parent picks one at any     *)
(* time.  Signatures carry the ports that coordinates are made of.         *)
(*                                                                         *)
(* TreeForwarding and Snek add what routes over this tree.                 *)
(***************************************************************************)
EXTENDS TreeRouting

CONSTANTS Node,     \* the public keys of the routers, ordered as numbers
          Link,     \* the peerings, both ways
          Port,     \* Port[n][m]: the port of n that m is connected to
          MaxSeq    \* bound: sequence numbers a root hands out

ASSUME NodeAssumption == Node \subseteq Nat /\ IsFiniteSet(Node)
ASSUME LinkAssumption ==
    /\ Link \subseteq Node \X Node
    /\ \A n, m \in Node : <<n, m>> \in Link => <<m, n>> \in Link /\ n # m
ASSUME PortAssumption ==        \* port 0 is the router itself
    /\ Port \in [Node -> [Node -> Nat \ {0}]]
    /\ \A n, m, k \in Node : Port[n][m] = Port[n][k] => m = k
ASSUME BoundAssumption == MaxSeq \in Nat

Root == [key : Node, seq : Nat]
Signature == [key : Node, port : Nat]
Announcement == [root : Root, sigs : Seq(Signature)]
ASSUME NoneAssumption == None \notin Announcement \cup Node

VARIABLES
    peers,      \* peers[n]: the routers n has a port for
    parent,     \* parent[n]: the router n follows, n itself as a root
    ann,        \* ann[n][m]: the announcement n stored from m
    sequence    \* sequence[n]: n's own root sequence number

tree == <<peers, parent, ann, sequence>>

TreeTypeOK ==
    /\ peers \in [Node -> SUBSET Node]
    /\ parent \in [Node -> Node]
    /\ ann \in [Node -> [Node -> Announcement \cup {None}]]
    /\ sequence \in [Node -> Nat]

TreeInit ==
    /\ peers = [n \in Node |-> {m \in Node : <<n, m>> \in Link}]
    /\ parent = [n \in Node |-> n]
    /\ ann = [n \in Node |-> [m \in Node |-> None]]
    /\ sequence = [n \in Node |-> 0]

(* The announcement n passes on: that of its parent, or its own.           *)
Own(n) == [root |-> [key |-> n, seq |-> sequence[n]], sigs |-> <<>>]
Current(n) == IF ann[n][parent[n]] # None THEN ann[n][parent[n]] ELSE Own(n)

(* What m sends to n.  Routers that do not follow loops send what passes   *)
(* is_clean.                                                               *)
Signed(m, n) == [Current(m) EXCEPT
                    !.sigs = Append(@, [key |-> m, port |-> Port[m][n]])]

LoopsBack(a, n) == \E i \in DOMAIN a.sigs : a.sigs[i].key = n

Stronger(r, s) == r.key > s.key \/ (r.key = s.key /\ r.seq > s.seq)

(* A router that has only just left its parent, or lost it, tells nobody.  *)
Announces(m) ==
    \/ parent[m] \in peers[m]
    \/ /\ parent[m] = m
       /\ \A k \in peers[m] : ann[m][k] # None => ann[m][k].root.key <= m

Replayed(n, m) ==
    /\ ann[n][m] # None
    /\ Signed(m, n).root.key = ann[n][m].root.key
    /\ Signed(m, n).root.seq < ann[n][m].root.seq

(* A stronger root from a peer that is not the parent.                     *)
Follows(n, m) ==
    ~ LoopsBack(Signed(m, n), n) /\ Signed(m, n).root.key > Current(n).root.key

(* handle_tree_announcement of what m sends to n.  A newer announcement of *)
(* the parent makes n a root until it selects a parent again; until then   *)
(* n may only store what it hears (the reparent timer runs).               *)
Hear(n, m) ==
    /\ m \in peers[n] /\ n \in peers[m] /\ Announces(m)
    /\ ann[n][m] # Signed(m, n) /\ ~ Replayed(n, m)
    /\ ann' = [ann EXCEPT ![n][m] = Signed(m, n)]
    /\ \/ parent' = [parent EXCEPT ![n] =
                IF m = parent[n] THEN n ELSE IF Follows(n, m) THEN m ELSE @]
       \/ ~ Announces(n) /\ UNCHANGED parent
    /\ UNCHANGED <<peers, sequence>>

(* The peers parent_selection may choose for n, among the routers in ps.   *)
Candidates(n, ps) ==
    {m \in ps : ann[n][m] # None /\ ~ LoopsBack(ann[n][m], n)
                /\ Stronger(ann[n][m].root, Own(n).root)}

Strongest(n, ps) ==
    {m \in Candidates(n, ps) : \A k \in Candidates(n, ps) :
        ~ Stronger(ann[n][k].root, ann[n][m].root)}

(* parent_selection, run by a reparent task.  Equals of the current parent *)
(* are passed over: they were received later.                              *)
Reselect(n) ==
    /\ \E m \in Strongest(n, peers[n]) :
        /\ Stronger(ann[n][m].root, Current(n).root)
        /\ parent' = [parent EXCEPT ![n] = m]
    /\ UNCHANGED <<peers, ann, sequence>>

(* maintain_tree of a root.                                                *)
Tick(n) ==
    /\ parent[n] = n /\ Announces(n)
    /\ sequence[n] < MaxSeq
    /\ sequence' = [sequence EXCEPT ![n] = @ + 1]
    /\ UNCHANGED <<peers, parent, ann>>

(* What every stored announcement of a peer says of it is still true.      *)
Settled ==
    /\ \A n \in Node : \A m \in peers[n] : ann[n][m] = Signed(m, n)
    /\ \A n, m \in Node : Current(n).root = Current(m).root

=============================================================================
