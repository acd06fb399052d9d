------------------------ MODULE TreeForwarding_proofs -----------------------
(***************************************************************************)
(* Tree routing makes progress, in every network, and next_tree_hop finds  *)
(* the closest peer in whatever order it meets them.                       *)
(***************************************************************************)
EXTENDS TreeForwarding, TreeView_proofs, NaturalsInduction

LEMMA NotNowhere ==
    ASSUME TypeOK, packet.state = "travelling"
    PROVE  packet \in Packet
<1>1. Nowhere.state = "none"
    BY DEF Nowhere
<1> QED BY <1>1 DEF TypeOK

LEMMA CoordinatesType ==
    ASSUME TreeTypeOK, NEW n \in Node
    PROVE  CoordinatesOf(n) \in Seq(Nat)
<1>1. Current(n).sigs \in Seq(Signature)
    BY CurrentType DEF Announcement
<1> DEFINE c == Current(n).sigs
<1>2. Len(c) \in Nat /\ \A i \in 1 .. Len(c) : c[i] \in Signature
    BY <1>1
<1>3. \A i \in 1 .. Len(c) : c[i].port \in Nat
    BY <1>2 DEF Signature
<1> HIDE DEF c
<1>4. [i \in 1 .. Len(c) |-> c[i].port] \in Seq(Nat)
    BY <1>2, <1>3
<1> QED BY <1>4 DEF CoordinatesOf, Coordinates, c

LEMMA HopsAreRouters ==
    ASSUME TypeOK, packet \in Packet
    PROVE  Hops \subseteq peers[packet.at] /\ Hops \subseteq Node
BY DEF TypeOK, TreeTypeOK, Packet, Hops, Closest, Closer, Usable

LEMMA TypeInductive ==
    TypeOK /\ [Next]_vars => TypeOK'
<1> SUFFICES ASSUME TypeOK, [Next]_vars
             PROVE  TypeOK'
    OBVIOUS
<1>1. CASE TreeStep
    BY <1>1, HearType, ReselectType, TickType DEF TreeStep, TypeOK
<1>2. CASE Forward
    <2>1. packet.state = "travelling" /\ UNCHANGED tree
        BY <1>2 DEF Forward
    <2>2. packet \in Packet
        BY <2>1, NotNowhere
    <2>3. packet' \in Packet
        <3>1. CASE packet' = [packet EXCEPT !.state = "delivered"]
            BY <2>2, <3>1 DEF Packet
        <3>2. CASE packet' = [packet EXCEPT !.state = "dropped"]
            BY <2>2, <3>2 DEF Packet
        <3>3. ASSUME NEW m \in Hops,
                     packet' = [packet EXCEPT !.at = m, !.from = packet.at]
              PROVE  packet' \in Packet
            <4>1. m \in Node
                BY <2>2, HopsAreRouters
            <4> QED BY <2>2, <3>3, <4>1 DEF Packet
        <3> QED BY <1>2, <3>1, <3>2, <3>3 DEF Forward
    <2> QED BY <2>1, <2>3 DEF TypeOK, TreeTypeOK, tree
<1>3. ASSUME NEW n \in Node, NEW d \in Node, Send(n, d)
      PROVE  TypeOK'
    <2>1. CoordinatesOf(d) \in Seq(Nat)
        BY CoordinatesType DEF TypeOK
    <2> QED BY <1>3, <2>1 DEF Send, TypeOK, Packet, TreeTypeOK, tree
<1>4. CASE UNCHANGED vars
    BY <1>4 DEF vars, tree, TypeOK, TreeTypeOK
<1> QED BY <1>1, <1>2, <1>3, <1>4 DEF Next

(* Routers, tables and packets stay within their types.                    *)
THEOREM TypeCorrect == Spec => []TypeOK
<1>1. Init => TypeOK
    BY TreeInitType DEF Init, TypeOK
<1> QED BY <1>1, TypeInductive, PTL DEF Spec

(* What n stored of a settled peer m tells where m is.                     *)
LEMMA SettledPeer ==
    ASSUME TypeOK, Settled, NEW n \in Node, NEW m \in peers[n]
    PROVE  m \in Node /\ PeerCoordinates(ann[n][m].sigs) = CoordinatesOf(m)
<1>1. m \in Node
    BY DEF TypeOK, TreeTypeOK
<1>2. /\ Current(m).sigs \in Seq(Signature)
      /\ ann[n][m].sigs = Append(Current(m).sigs, [key |-> m, port |-> Port[m][n]])
    BY <1>1, CurrentType, SignedType DEF TypeOK, Settled, Announcement
<1> DEFINE c == Current(m).sigs
           s == [key |-> m, port |-> Port[m][n]]
<1>3. /\ Len(Append(c, s)) = Len(c) + 1
      /\ \A i \in 1 .. Len(c) : Append(c, s)[i] = c[i]
    BY <1>2
<1>4. Len(ann[n][m].sigs) - 1 = Len(c) /\ \A i \in 1 .. Len(c) : ann[n][m].sigs[i] = c[i]
    BY <1>2, <1>3
<1> HIDE DEF c, s
<1>5. PeerCoordinates(ann[n][m].sigs) = [i \in 1 .. Len(c) |-> c[i].port]
    BY <1>4 DEF PeerCoordinates
<1> QED BY <1>1, <1>5 DEF CoordinatesOf, Coordinates, c

(* In a settled tree every hop of next_tree_hop leads strictly closer to   *)
(* the destination, measured by where the routers are: no loops.           *)
THEOREM HopsAreCloser == Spec => EachHopIsCloser
<1> DEFINE A == packet.state = "travelling" /\ Settled /\ packet'.at # packet.at
                => Distance(packet'.at) < Distance(packet.at)
<1>1. TypeOK /\ [Next]_vars => [A]_vars
    <2> SUFFICES ASSUME TypeOK, Next, packet.state = "travelling", Settled,
                        packet'.at # packet.at
                 PROVE  Distance(packet'.at) < Distance(packet.at)
        OBVIOUS
    <2>1. packet \in Packet
        BY NotNowhere
    <2>2. ~ TreeStep /\ \A n, d \in Node : ~ Send(n, d)
        BY DEF TreeStep, Send, Nowhere
    <2>3. PICK m \in Hops : packet' = [packet EXCEPT !.at = m, !.from = packet.at]
        BY <2>1, <2>2 DEF Next, Forward, Packet
    <2> DEFINE n == packet.at
    <2>4. n \in Node /\ m \in peers[n] /\ packet'.at = m /\ packet.dest \in Seq(Nat)
        BY <2>1, <2>3, HopsAreRouters DEF Packet
    <2>5. PeerDistance(ann[n], m, packet.dest) < OwnDistance(Current(n), packet.dest)
        BY <2>3 DEF Hops, Closest, Closer
    <2>6. m \in Node /\ PeerCoordinates(ann[n][m].sigs) = CoordinatesOf(m)
        BY <2>4, SettledPeer
    <2>7. PeerDistance(ann[n], m, packet.dest) = DistanceTo(CoordinatesOf(m), packet.dest)
        BY <2>6 DEF PeerDistance
    <2>8. CoordinatesOf(m) \in Seq(Nat)
        BY <2>6, CoordinatesType DEF TypeOK
    <2>9. DistanceTo(CoordinatesOf(m), packet.dest) = DistanceTo(packet.dest, CoordinatesOf(m))
        BY <2>4, <2>8, DistanceIsNatural
    <2>10. OwnDistance(Current(n), packet.dest) = DistanceTo(packet.dest, CoordinatesOf(n))
        BY DEF OwnDistance, CoordinatesOf
    <2> QED BY <2>4, <2>5, <2>7, <2>9, <2>10 DEF Distance
<1> QED BY <1>1, TypeCorrect, PTL DEF Spec, EachHopIsCloser

-----------------------------------------------------------------------------
(* The loop of next_tree_hop.  Its state after k peers is the value at k   *)
(* of a recursive function, so what it computes is shown for the least k   *)
(* for which it would be wrong.                                            *)

LEMMA LeastNat ==
    ASSUME NEW T, T \subseteq Nat, T # {}
    PROVE  \E m \in T : \A k \in T : m <= k
<1> DEFINE Less == {ij \in Nat \X Nat : ij[1] < ij[2]}
<1>1. Less = OpToRel(<, Nat)
    BY DEF OpToRel
<1>2. IsWellFoundedOn(Less, Nat)
    BY <1>1, NatLessThanWellFounded
<1>3. \A i, j \in Nat : i < j => <<i, j>> \in Less
    OBVIOUS
<1> HIDE DEF Less
<1>4. PICK m \in T : \A k \in T : <<k, m>> \notin Less
    BY <1>2, WFMin
<1>5. \A k \in T : k \in Nat /\ m \in Nat /\ ~ (k < m)
    BY <1>3, <1>4
<1> QED BY <1>5

(* The loop's variables before the first peer and after the peer m.        *)
First(cur, dest) ==
    [hop |-> None, distance |-> OwnDistance(cur, dest), order |-> LastOrder]

Taken(m, row, dest, received) ==
    [hop |-> m, distance |-> PeerDistance(row, m, dest), order |-> received[m]]

After(b, m, row, cur, dest, from, received) ==
    IF /\ m \in Usable(row, cur, {m}, from)
       /\ IsBetter(PeerDistance(row, m, dest), received[m], b)
    THEN Taken(m, row, dest, received)
    ELSE b

Iterates(g, k, s, row, cur, dest, from, received) ==
    g = [i \in 0 .. k |->
            IF i = 0 THEN First(cur, dest)
            ELSE After(g[i - 1], s[i], row, cur, dest, from, received)]

LEMMA LoopIs ==
    ASSUME NEW s, NEW row, NEW cur, NEW dest, NEW from, NEW received
    PROVE  TreeHopLoop(s, row, cur, dest, from, received)
            = (CHOOSE g : Iterates(g, Len(s), s, row, cur, dest, from, received))[Len(s)].hop
BY DEF TreeHopLoop, Iterates, First, After, Taken

LEMMA LoopRuns ==
    ASSUME NEW n \in Nat,
           NEW s, NEW row, NEW cur, NEW dest, NEW from, NEW received
    PROVE  \E g : Iterates(g, n, s, row, cur, dest, from, received)
<1> DEFINE Runs(k) == \E g : Iterates(g, k, s, row, cur, dest, from, received)
           Stops == {k \in Nat : ~ Runs(k)}
<1>1. SUFFICES ASSUME Stops # {} PROVE FALSE
    OBVIOUS
<1>2. PICK k \in Stops : \A j \in Stops : k <= j
    BY <1>1, LeastNat
<1>3. k \in Nat /\ ~ Runs(k)
    BY <1>2
<1>4. CASE k = 0
    <2> DEFINE g == [i \in 0 .. k |-> First(cur, dest)]
    <2>1. Iterates(g, k, s, row, cur, dest, from, received)
        BY <1>4 DEF Iterates
    <2> QED BY <1>3, <2>1
<1>5. CASE k # 0
    <2>1. k - 1 \in Nat /\ k - 1 \notin Stops
        BY <1>2, <1>3, <1>5
    <2>2. PICK h : Iterates(h, k - 1, s, row, cur, dest, from, received)
        BY <2>1
    <2>3. /\ h[0] = First(cur, dest)
          /\ \A i \in 1 .. k - 1 :
                h[i] = After(h[i - 1], s[i], row, cur, dest, from, received)
        BY <1>3, <2>1, <2>2 DEF Iterates
    <2> DEFINE last == After(h[k - 1], s[k], row, cur, dest, from, received)
               g == [i \in 0 .. k |-> IF i = k THEN last ELSE h[i]]
    <2>4. g[0] = First(cur, dest)
        BY <1>3, <1>5, <2>3
    <2>5. \A i \in 1 .. k : g[i] = After(g[i - 1], s[i], row, cur, dest, from, received)
        <3> TAKE i \in 1 .. k
        <3>1. g[i - 1] = h[i - 1]
            BY <1>3
        <3>2. g[i] = IF i = k THEN last ELSE h[i]
            BY <1>3
        <3> QED BY <1>3, <2>3, <3>1, <3>2
    <2>6. g = [i \in 0 .. k |-> g[i]]
        OBVIOUS
    <2> HIDE DEF g
    <2>7. \A i \in 0 .. k :
            g[i] = IF i = 0 THEN First(cur, dest)
                   ELSE After(g[i - 1], s[i], row, cur, dest, from, received)
        BY <1>3, <2>4, <2>5
    <2>8. Iterates(g, k, s, row, cur, dest, from, received)
        BY <2>6, <2>7, Zenon DEF Iterates
    <2> QED BY <1>3, <2>8
<1> QED BY <1>4, <1>5

(* The peers P can be compared: what is stored of them has a distance.     *)
Comparable(P, row, cur, dest, from, received) ==
    /\ None \notin P
    /\ \A m \in P : received[m] \in Nat
    /\ OwnDistance(cur, dest) \in Nat
    /\ \A m \in Usable(row, cur, P, from) : PeerDistance(row, m, dest) \in Nat

(* After some peers, seen: b holds the best of them that are closer than   *)
(* the router itself, the one received first.                              *)
Best(b, seen, P, row, cur, dest, from, received) ==
    LET C == Closer(row, cur, P, dest, from)
    IN \/ /\ b.hop = None
          /\ b.distance = OwnDistance(cur, dest)
          /\ \A m \in seen : m \notin C
       \/ /\ b.hop \in C /\ b.hop # None
          /\ b.distance = PeerDistance(row, b.hop, dest)
          /\ b.order = received[b.hop]
          /\ \A m \in seen : m \in C =>
                \/ PeerDistance(row, b.hop, dest) < PeerDistance(row, m, dest)
                \/ /\ PeerDistance(row, b.hop, dest) = PeerDistance(row, m, dest)
                   /\ received[b.hop] <= received[m]

LEMMA AfterIsBest ==
    ASSUME NEW P, NEW row, NEW cur, NEW dest, NEW from, NEW received,
           Comparable(P, row, cur, dest, from, received),
           NEW b, NEW seen, NEW p \in P, seen \subseteq P,
           Best(b, seen, P, row, cur, dest, from, received)
    PROVE  Best(After(b, p, row, cur, dest, from, received), seen \cup {p},
                P, row, cur, dest, from, received)
<1> DEFINE d(m) == PeerDistance(row, m, dest)
           own == OwnDistance(cur, dest)
           NotWorse(m, k) == d(m) < d(k) \/ (d(m) = d(k) /\ received[m] <= received[k])
<1>0. /\ None \notin P
      /\ \A m \in P : received[m] \in Nat
      /\ own \in Nat
      /\ \A m \in Usable(row, cur, P, from) : d(m) \in Nat
    BY DEF Comparable
<1>1. PICK C : C = Closer(row, cur, P, dest, from)
    OBVIOUS
<1>2. PICK a : a = After(b, p, row, cur, dest, from, received)
    OBVIOUS
<1>3. p \in Usable(row, cur, {p}, from) <=> p \in Usable(row, cur, P, from)
    BY DEF Usable
<1>4. \A m : m \in C <=> m \in Usable(row, cur, P, from) /\ d(m) < own
    BY <1>1 DEF Closer
<1>5. \A m \in C : m \in P /\ d(m) \in Nat /\ received[m] \in Nat /\ m # None
    BY <1>0, <1>4 DEF Usable
<1>6. \/ b.hop = None /\ b.distance = own /\ \A m \in seen : m \notin C
      \/ /\ b.hop \in C /\ b.hop # None /\ b.distance = d(b.hop)
         /\ b.order = received[b.hop]
         /\ \A m \in seen : m \in C => NotWorse(b.hop, m)
    BY <1>1 DEF Best
<1>7. SUFFICES
        \/ a.hop = None /\ a.distance = own /\ \A m \in seen \cup {p} : m \notin C
        \/ /\ a.hop \in C /\ a.hop # None /\ a.distance = d(a.hop)
           /\ a.order = received[a.hop]
           /\ \A m \in seen \cup {p} : m \in C => NotWorse(a.hop, m)
    <2>1. Best(a, seen \cup {p}, P, row, cur, dest, from, received)
        BY <1>1, <1>7 DEF Best
    <2> QED BY <1>2, <2>1
<1> DEFINE better == p \in Usable(row, cur, {p}, from) /\ IsBetter(d(p), received[p], b)
<1>8. CASE ~ better
    <2>1. a = b
        BY <1>2, <1>8 DEF After
    <2>2. CASE b.hop = None /\ b.distance = own /\ \A m \in seen : m \notin C
        <3>1. p \notin C
            BY <1>0, <1>3, <1>4, <1>8, <2>2 DEF IsBetter
        <3> QED BY <2>1, <2>2, <3>1
    <2>3. CASE /\ b.hop \in C /\ b.hop # None /\ b.distance = d(b.hop)
               /\ b.order = received[b.hop]
               /\ \A m \in seen : m \in C => NotWorse(b.hop, m)
        <3>1. p \in C => NotWorse(b.hop, p)
            BY <1>0, <1>3, <1>4, <1>5, <1>8, <2>3 DEF IsBetter
        <3> HIDE DEF d, NotWorse
        <3> QED BY <2>1, <2>3, <3>1
    <2> QED BY <1>6, <2>2, <2>3
<1>9. CASE better
    <2>1. a = [hop |-> p, distance |-> d(p), order |-> received[p]]
        BY <1>2, <1>9 DEF After, Taken
    <2>2. a.hop = p /\ a.distance = d(p) /\ a.order = received[p]
        BY <2>1
    <2>3. d(p) \in Nat /\ received[p] \in Nat /\ p # None
        BY <1>0, <1>3, <1>9
    <2>4. CASE b.hop = None /\ b.distance = own /\ \A m \in seen : m \notin C
        <3>1. p \in C
            BY <1>3, <1>4, <1>9, <2>4 DEF IsBetter
        <3>2. NotWorse(p, p)
            BY <2>3
        <3> HIDE DEF d, NotWorse
        <3> QED BY <2>2, <2>3, <2>4, <3>1, <3>2
    <2>5. CASE /\ b.hop \in C /\ b.hop # None /\ b.distance = d(b.hop)
               /\ b.order = received[b.hop]
               /\ \A m \in seen : m \in C => NotWorse(b.hop, m)
        <3>1. /\ b.hop \in Usable(row, cur, P, from) /\ d(b.hop) < own
              /\ d(b.hop) \in Nat /\ received[b.hop] \in Nat
            BY <1>4, <1>5, <2>5
        <3>2. d(p) < d(b.hop) \/ (d(p) = d(b.hop) /\ received[p] < received[b.hop])
            BY <1>9, <2>5 DEF IsBetter
        <3>3. p \in C
            BY <1>0, <1>3, <1>4, <1>9, <2>3, <3>1, <3>2
        <3>4. ASSUME NEW m \in seen, m \in C PROVE NotWorse(p, m)
            <4>1. NotWorse(b.hop, m) /\ d(m) \in Nat /\ received[m] \in Nat
                BY <1>5, <2>5, <3>4
            <4> QED BY <2>3, <3>1, <3>2, <4>1
        <3>5. NotWorse(p, p)
            BY <2>3
        <3> HIDE DEF d, NotWorse
        <3> QED BY <2>2, <2>3, <3>3, <3>4, <3>5
    <2> QED BY <1>6, <2>4, <2>5
<1> QED BY <1>8, <1>9

Meets(s, n, P) == \A i \in 1 .. n : s[i] \in P
Met(s, n) == {s[i] : i \in 1 .. n}

LEMMA LoopIsBest ==
    ASSUME NEW P, NEW row, NEW cur, NEW dest, NEW from, NEW received,
           Comparable(P, row, cur, dest, from, received),
           NEW n \in Nat, NEW s, Meets(s, n, P),
           NEW g, Iterates(g, n, s, row, cur, dest, from, received)
    PROVE  Best(g[n], Met(s, n), P, row, cur, dest, from, received)
<1> DEFINE Seen(k) == Met(s, k)
           Good(k) == Best(g[k], Seen(k), P, row, cur, dest, from, received)
           Bad == {k \in 0 .. n : ~ Good(k)}
<1>1. SUFFICES ASSUME Bad # {} PROVE FALSE
    OBVIOUS
<1>2. Bad \subseteq Nat
    OBVIOUS
<1>3. PICK k \in Bad : \A j \in Bad : k <= j
    BY <1>1, <1>2, LeastNat
<1>4. k \in 0 .. n /\ ~ Good(k)
    BY <1>3
<1>5. k # 0
    <2>1. g[0] = First(cur, dest)
        BY DEF Iterates
    <2>2. Seen(0) = {}
        BY DEF Met
    <2>3. Good(0)
        BY <2>1, <2>2 DEF Best, First
    <2> QED BY <1>4, <2>3
<1>6. k - 1 \in 0 .. n /\ k \in 1 .. n /\ ~ (k <= k - 1)
    BY <1>4, <1>5
<1>7. Good(k - 1)
    <2> HIDE DEF Good
    <2> QED BY <1>3, <1>6
<1>8. g[k] = After(g[k - 1], s[k], row, cur, dest, from, received)
    BY <1>6 DEF Iterates
<1>9. s[k] \in P /\ Seen(k - 1) \subseteq P /\ Seen(k) = Seen(k - 1) \cup {s[k]}
    BY <1>6, <1>4 DEF Met, Meets
<1> DEFINE h == g[k - 1]
           before == Seen(k - 1)
           p == s[k]
<1>10. Best(h, before, P, row, cur, dest, from, received) /\ p \in P /\ before \subseteq P
    BY <1>7, <1>9
<1> HIDE DEF h, before, p
<1>11. Best(After(h, p, row, cur, dest, from, received), before \cup {p},
            P, row, cur, dest, from, received)
    BY <1>10, AfterIsBest
<1> QED BY <1>4, <1>8, <1>9, <1>11 DEF h, before, p

(* A sequence without repetition that is as long as the set has elements   *)
(* meets them all.                                                         *)
LEMMA OrderMeetsAll ==
    ASSUME NEW S, IsFiniteSet(S), NEW s \in Orders(S)
    PROVE  /\ Cardinality(S) \in Nat /\ Len(s) = Cardinality(S)
           /\ DOMAIN s = 1 .. Cardinality(S)
           /\ \A i \in 1 .. Cardinality(S) : s[i] \in S
           /\ S = {s[i] : i \in 1 .. Cardinality(S)}
<1> DEFINE n == Cardinality(S)
<1>1. n \in Nat
    BY FS_CardinalityType
<1>2. s \in [1 .. n -> S] /\ \A i, j \in 1 .. n : s[i] = s[j] => i = j
    BY DEF Orders
<1>3. IsFiniteSet(1 .. n) /\ Cardinality(1 .. n) = n
    BY <1>1, Interval
<1> HIDE DEF n
<1>4. s \in Injection(1 .. n, S)
    BY <1>2 DEF Injection, IsInjective
<1>5. s \in Surjection(1 .. n, S)
    BY <1>3, <1>4, FS_Injection DEF n
<1>6. \A m \in S : \E i \in 1 .. n : s[i] = m
    BY <1>5 DEF Surjection
<1>7. s \in Seq(S) /\ Len(s) = n
    BY <1>1, <1>2
<1> QED BY <1>1, <1>2, <1>6, <1>7 DEF n

LEMMA PeerCoordinatesType ==
    ASSUME NEW sigs \in Seq(Signature)
    PROVE  PeerCoordinates(sigs) \in Seq(Nat)
<1>1. Len(sigs) \in Nat /\ \A i \in 1 .. Len(sigs) : sigs[i] \in Signature
    OBVIOUS
<1>2. \A i \in 1 .. Len(sigs) - 1 : sigs[i].port \in Nat
    BY <1>1 DEF Signature
<1>3. CASE Len(sigs) = 0
    <2>1. PeerCoordinates(sigs) = <<>>
        BY <1>3 DEF PeerCoordinates
    <2> QED BY <2>1
<1>4. CASE Len(sigs) # 0
    <2>1. Len(sigs) - 1 \in Nat
        BY <1>1, <1>4
    <2> QED BY <1>2, <2>1 DEF PeerCoordinates
<1> QED BY <1>3, <1>4

(* What LoopFindsClosest says of a hop.                                    *)
Finds(hop, C, received) ==
    IF C = {} THEN hop = None
    ELSE hop \in C /\ \A m \in C : received[hop] <= received[m]

(* The loop over all of P, in the order s, finds a closest peer.           *)
LEMMA LoopIsClosest ==
    ASSUME NEW P, NEW row, NEW cur, NEW dest, NEW from, NEW received,
           Comparable(P, row, cur, dest, from, received),
           IsFiniteSet(P), NEW s \in Orders(P),
           NEW C, C = Closest(row, cur, P, dest, from),
           NEW hop, hop = TreeHopLoop(s, row, cur, dest, from, received)
    PROVE  Finds(hop, C, received)
<1>1. PICK n \in Nat : /\ Len(s) = n
                       /\ Meets(s, n, P)
                       /\ P = Met(s, n)
    BY OrderMeetsAll DEF Meets, Met
<1>2. PICK g : /\ g = CHOOSE f : Iterates(f, n, s, row, cur, dest, from, received)
               /\ Iterates(g, n, s, row, cur, dest, from, received)
    BY LoopRuns
<1>3. hop = g[n].hop
    BY <1>1, <1>2, LoopIs
<1>4. Best(g[n], Met(s, n), P, row, cur, dest, from, received)
    BY <1>1, <1>2, LoopIsBest
<1>5. Best(g[n], P, P, row, cur, dest, from, received)
    BY <1>1, <1>4
<1> DEFINE d(m) == PeerDistance(row, m, dest)
<1>6. PICK K : K = Closer(row, cur, P, dest, from)
    OBVIOUS
<1>7. \A m \in K : m \in P /\ d(m) \in Nat
    BY <1>6 DEF Closer, Usable, Comparable
<1>8. C = {m \in K : \A k \in K : d(m) <= d(k)}
    BY <1>6 DEF Closest
<1>9. \/ hop = None /\ \A m \in P : m \notin K
      \/ /\ hop \in K
         /\ \A m \in P : m \in K =>
                \/ d(hop) < d(m)
                \/ d(hop) = d(m) /\ received[hop] <= received[m]
    BY <1>3, <1>5, <1>6 DEF Best
<1> HIDE DEF d
<1>10. CASE hop = None /\ \A m \in P : m \notin K
    BY <1>7, <1>8, <1>10 DEF Finds
<1>11. CASE /\ hop \in K
            /\ \A m \in P : m \in K =>
                \/ d(hop) < d(m)
                \/ d(hop) = d(m) /\ received[hop] <= received[m]
    <2>1. \A m \in K : d(hop) <= d(m)
        BY <1>7, <1>11
    <2>2. hop \in C
        BY <1>8, <1>11, <2>1
    <2>3. ASSUME NEW m \in C PROVE received[hop] <= received[m]
        <3>1. m \in P /\ m \in K /\ d(m) \in Nat /\ d(m) <= d(hop)
            BY <1>7, <1>8, <1>11
        <3>2. d(hop) \in Nat /\ ~ (d(hop) < d(m))
            BY <1>7, <1>11, <3>1
        <3> QED BY <1>11, <3>1, <3>2
    <2> QED BY <2>2, <2>3 DEF Finds
<1> QED BY <1>9, <1>10, <1>11 DEF Finds

LEMMA HopIsClosest ==
    ASSUME TypeOK, packet.state = "travelling",
           NEW s \in Orders(peers[packet.at]), NEW t \in Orders(peers[packet.at]),
           NEW from \in peers[packet.at],
           NEW received,
           received = [m \in peers[packet.at] |-> CHOOSE i \in DOMAIN t : t[i] = m],
           NEW C, C = Closest(ann[packet.at], Current(packet.at), peers[packet.at],
                              packet.dest, from),
           NEW hop, hop = TreeHopLoop(s, ann[packet.at], Current(packet.at),
                                      packet.dest, from, received)
    PROVE  Finds(hop, C, received)
<1>1. packet \in Packet
    BY NotNowhere
<1>2. PICK n, P, row, cur, dest :
        /\ n = packet.at /\ P = peers[n] /\ row = ann[n] /\ cur = Current(n)
        /\ dest = packet.dest
    OBVIOUS
<1>3. n \in Node /\ dest \in Seq(Nat) /\ P \subseteq Node
    BY <1>1, <1>2 DEF Packet, TypeOK, TreeTypeOK
<1>4. IsFiniteSet(P) /\ None \notin P
    BY <1>3, NodeAssumption, NoneAssumption, FS_Subset
<1>5. \A m \in P : received[m] \in Nat
    <2> TAKE m \in P
    <2>1. PICK N \in Nat : DOMAIN t = 1 .. N /\ P = {t[i] : i \in 1 .. N}
        BY <1>2, <1>4, OrderMeetsAll
    <2>2. \E i \in DOMAIN t : t[i] = m
        BY <2>1
    <2>3. (CHOOSE i \in DOMAIN t : t[i] = m) \in DOMAIN t
        BY <2>2
    <2>4. received[m] = CHOOSE i \in DOMAIN t : t[i] = m
        BY <1>2
    <2> QED BY <2>1, <2>3, <2>4
<1>6. OwnDistance(cur, dest) \in Nat
    <2>1. CoordinatesOf(n) \in Seq(Nat)
        BY <1>3, CoordinatesType DEF TypeOK
    <2>2. OwnDistance(cur, dest) = DistanceTo(dest, CoordinatesOf(n))
        BY <1>2 DEF OwnDistance, CoordinatesOf
    <2> QED BY <1>3, <2>1, <2>2, DistanceIsNatural
<1>7. \A m \in Usable(row, cur, P, from) : PeerDistance(row, m, dest) \in Nat
    <2> TAKE m \in Usable(row, cur, P, from)
    <2>1. m \in Node /\ row[m] # None
        BY <1>3 DEF Usable
    <2>2. row[m] \in Announcement
        BY <1>2, <1>3, <2>1 DEF TypeOK, TreeTypeOK
    <2>3. row[m].sigs \in Seq(Signature)
        BY <2>2 DEF Announcement
    <2>4. PeerCoordinates(row[m].sigs) \in Seq(Nat)
        BY <2>3, PeerCoordinatesType
    <2> QED BY <1>3, <2>4, DistanceIsNatural DEF PeerDistance
<1>8. s \in Orders(P) /\ C = Closest(row, cur, P, dest, from)
      /\ hop = TreeHopLoop(s, row, cur, dest, from, received)
    BY <1>2
<1>9. Comparable(P, row, cur, dest, from, received)
    BY <1>4, <1>5, <1>6, <1>7 DEF Comparable
<1>10. IsFiniteSet(P)
    BY <1>4
<1> QED BY <1>8, <1>9, <1>10, LoopIsClosest

(* Whatever the order in which next_tree_hop meets a router's peers, and   *)
(* in which their announcements were received, its loop ends with the      *)
(* closest peer, the one received first among equals, and with none only   *)
(* if no peer is closer than the router itself.                            *)
THEOREM LoopIsCorrect == Spec => []LoopFindsClosest
<1>1. TypeOK => LoopFindsClosest
    <2> SUFFICES ASSUME TypeOK, packet.state = "travelling",
                        NEW s \in Orders(peers[packet.at]),
                        NEW t \in Orders(peers[packet.at]),
                        NEW from \in peers[packet.at]
                 PROVE  LET n == packet.at
                            received == [m \in peers[n] |-> CHOOSE i \in DOMAIN t : t[i] = m]
                            hop == TreeHopLoop(s, ann[n], Current(n), packet.dest,
                                               from, received)
                            C == Closest(ann[n], Current(n), peers[n], packet.dest, from)
                        IN  IF C = {} THEN hop = None
                            ELSE hop \in C /\ \A m \in C : received[hop] <= received[m]
        BY Zenon DEF LoopFindsClosest
    <2> DEFINE n == packet.at
    <2>1. PICK received : received = [m \in peers[n] |-> CHOOSE i \in DOMAIN t : t[i] = m]
        OBVIOUS
    <2>2. PICK hop : hop = TreeHopLoop(s, ann[n], Current(n), packet.dest, from, received)
        OBVIOUS
    <2>3. PICK C : C = Closest(ann[n], Current(n), peers[n], packet.dest, from)
        OBVIOUS
    <2>4. Finds(hop, C, received)
        BY <2>1, <2>2, <2>3, HopIsClosest
    <2> QED BY <2>1, <2>2, <2>3, <2>4 DEF Finds
<1> QED BY <1>1, TypeCorrect, PTL

=============================================================================
