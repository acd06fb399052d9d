--------------------------- MODULE TreeForwarding ---------------------------
(***************************************************************************)
(* A packet forwarded by tree routing (Frame::TreeRouted in handle_frame)  *)
(* while the tree forms and when it has settled.                           *)
(***************************************************************************)
EXTENDS TreeView

CONSTANT Calm       \* timing: clients wait for the tree to settle, and the
                    \* 30 minute rounds find it settled and no packet about
ASSUME CalmAssumption == Calm \in BOOLEAN

VARIABLE packet     \* the packet; Nowhere before a client sends it

Nowhere == [state |-> "none"]
Packet == [state : {"travelling", "delivered", "dropped"},
           at : Node, from : Node, to : Node, dest : Seq(Nat)]

vars == <<tree, packet>>

TypeOK == TreeTypeOK /\ packet \in Packet \cup {Nowhere}

Init == TreeInit /\ packet = Nowhere

CoordinatesOf(n) == Coordinates(Current(n).sigs)

(* The client of n sends to where the router d is now.                     *)
Send(n, d) ==
    /\ packet = Nowhere
    /\ Calm => Settled
    /\ packet' = [state |-> "travelling", at |-> n, from |-> n, to |-> d,
                  dest |-> CoordinatesOf(d)]
    /\ UNCHANGED tree

Hops == Closest(ann[packet.at], Current(packet.at), peers[packet.at],
                packet.dest, packet.from)

(* handle_frame of a TreeRouted packet: send_to_local, send or nothing.    *)
Forward ==
    /\ packet.state = "travelling"
    /\ IF Arrived(Current(packet.at), packet.dest)
       THEN packet' = [packet EXCEPT !.state = "delivered"]
       ELSE \/ /\ Hops = {}
               /\ packet' = [packet EXCEPT !.state = "dropped"]
            \/ \E m \in Hops :
                  packet' = [packet EXCEPT !.at = m, !.from = packet.at]
    /\ UNCHANGED tree

TreeStep ==
    /\ \/ \E n, m \in Node : Hear(n, m)
       \/ \E n \in Node : Reselect(n)
       \/ /\ Calm => Settled /\ packet.state # "travelling"
          /\ \E n \in Node : Tick(n)
    /\ UNCHANGED packet

Next == TreeStep \/ Forward \/ \E n, d \in Node : Send(n, d)

Spec == Init /\ [][Next]_vars

(* A frame that was read is handled.                                       *)
FairSpec == Spec /\ WF_vars(Forward)

-----------------------------------------------------------------------------
(* The loop of next_tree_hop over the peers, in the order of the sequence  *)
(* s; received[m] is the receive_order of m's announcement.                *)

LastOrder == 1000   \* SequenceNumber::MAX

(* Mutant: the tie-break does not ask for a candidate.                     *)
IsBetterUnasked(distance, order, best) ==
    distance < best.distance \/ (distance = best.distance /\ order < best.order)

IsBetter(distance, order, best) ==
    \/ distance < best.distance
    \/ distance = best.distance /\ best.hop # None /\ order < best.order

TreeHopLoop(s, row, cur, dest, from, received) ==
    LET best[i \in 0 .. Len(s)] ==
            IF i = 0
            THEN [hop |-> None, distance |-> OwnDistance(cur, dest),
                  order |-> LastOrder]
            ELSE LET m == s[i]
                     d == PeerDistance(row, m, dest)
                 IN IF /\ m \in Usable(row, cur, {m}, from)
                       /\ IsBetter(d, received[m], best[i - 1])
                    THEN [hop |-> m, distance |-> d, order |-> received[m]]
                    ELSE best[i - 1]
    IN best[Len(s)].hop

Orders(S) == {s \in [1 .. Cardinality(S) -> S] :
                \A i, j \in DOMAIN s : s[i] = s[j] => i = j}

(* In whatever order the loop meets the peers, in whatever order they were *)
(* received, and whichever of them the packet came from: the loop ends     *)
(* with one of the closest peers, the one received first, and with no hop  *)
(* only if no other peer is closer.                                        *)
LoopFindsClosest ==
    packet.state = "travelling" =>
        LET n == packet.at
        IN \A s, t \in Orders(peers[n]), from \in peers[n] :
            LET received == [m \in peers[n] |-> CHOOSE i \in DOMAIN t : t[i] = m]
                hop == TreeHopLoop(s, ann[n], Current(n), packet.dest, from, received)
                C == Closest(ann[n], Current(n), peers[n], packet.dest, from)
            IN IF C = {} THEN hop = None
               ELSE hop \in C /\ \A m \in C : received[hop] <= received[m]

-----------------------------------------------------------------------------
(* Once the tree has settled no hop leads away from the destination, and   *)
(* no router is therefore passed twice.                                    *)
Distance(n) == DistanceTo(packet.dest, CoordinatesOf(n))
EachHopIsCloser ==
    [][packet.state = "travelling" /\ Settled /\ packet'.at # packet.at
       => Distance(packet'.at) < Distance(packet.at)]_vars

(* A packet that starts in a settled tree is not dropped, and is delivered *)
(* to the router it was sent to.                                           *)
SentWhenSettled ==
    /\ packet.state = "travelling" /\ Settled
    /\ packet.from = packet.at /\ packet.dest = CoordinatesOf(packet.to)
Delivered ==
    SentWhenSettled ~> (packet.state = "delivered" /\ packet.at = packet.to)

=============================================================================
