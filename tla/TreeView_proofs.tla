--------------------------- MODULE TreeView_proofs --------------------------
(***************************************************************************)
(* Facts about coordinates and distances, for all sequences of ports, and  *)
(* about the tree that routing sees, for all networks.                     *)
(***************************************************************************)
EXTENDS TreeView, FiniteSetTheorems, TLAPS

LEMMA Interval ==
    ASSUME NEW n \in Nat
    PROVE  IsFiniteSet(1 .. n) /\ Cardinality(1 .. n) = n
<1>1. 1 \in Int /\ n \in Int
    OBVIOUS
<1>2. IsFiniteSet(1 .. n) /\ Cardinality(1 .. n) = IF 1 > n THEN 0 ELSE n - 1 + 1
    BY <1>1, FS_Interval
<1> QED BY <1>2

Agree(c, d) == {i \in DOMAIN c \cap DOMAIN d : \A j \in 1 .. i : c[j] = d[j]}

(* The common prefix is the set of positions up to which two coordinates   *)
(* agree: no more of them than either is long.                             *)
LEMMA CommonPrefixBound ==
    ASSUME NEW c \in Seq(Nat), NEW d \in Seq(Nat)
    PROVE  /\ Agree(c, d) \subseteq 1 .. Len(c)
           /\ CommonPrefix(c, d) = Cardinality(Agree(c, d))
           /\ CommonPrefix(c, d) \in 0 .. Len(c)
           /\ CommonPrefix(c, d) \in 0 .. Len(d)
<1> DEFINE A == Agree(c, d)
<1>1. A \subseteq 1 .. Len(c) /\ A \subseteq 1 .. Len(d)
    BY DEF Agree
<1>2. Len(c) \in Nat /\ Len(d) \in Nat
    OBVIOUS
<1>3. /\ IsFiniteSet(1 .. Len(c)) /\ Cardinality(1 .. Len(c)) = Len(c)
      /\ IsFiniteSet(1 .. Len(d)) /\ Cardinality(1 .. Len(d)) = Len(d)
    BY <1>2, Interval
<1>4. Cardinality(A) \in Nat /\ Cardinality(A) <= Len(c) /\ Cardinality(A) <= Len(d)
    BY <1>1, <1>2, <1>3, FS_Subset, FS_CardinalityType
<1>5. CommonPrefix(c, d) = Cardinality(A)
    BY DEF CommonPrefix, Agree
<1> QED BY <1>1, <1>2, <1>4, <1>5

LEMMA CommonPrefixSymmetric ==
    ASSUME NEW c \in Seq(Nat), NEW d \in Seq(Nat)
    PROVE  CommonPrefix(c, d) = CommonPrefix(d, c)
<1>1. Agree(c, d) = Agree(d, c)
    BY DEF Agree
<1> QED BY <1>1 DEF CommonPrefix, Agree

(* distance_to subtracts twice the common prefix from an unsigned sum of   *)
(* lengths (coordinates.rs 11): it never goes below zero, and it does not  *)
(* matter from which end the distance is measured.                         *)
THEOREM DistanceIsNatural ==
    ASSUME NEW c \in Seq(Nat), NEW d \in Seq(Nat)
    PROVE  DistanceTo(c, d) \in Nat /\ DistanceTo(c, d) = DistanceTo(d, c)
<1>1. Len(c) \in Nat /\ Len(d) \in Nat
    OBVIOUS
<1>2. CommonPrefix(c, d) \in 0 .. Len(c) /\ CommonPrefix(c, d) \in 0 .. Len(d)
    BY CommonPrefixBound
<1>3. DistanceTo(c, d) \in Nat
    BY <1>1, <1>2 DEF DistanceTo
<1>4. DistanceTo(d, c) = Len(d) + Len(c) - 2 * CommonPrefix(c, d)
    BY CommonPrefixSymmetric DEF DistanceTo
<1> QED BY <1>1, <1>2, <1>3, <1>4 DEF DistanceTo

(* next_tree_hop asks twice whether a frame has arrived, for equal         *)
(* coordinates and for distance 0 (router.rs 557 and 563): the same        *)
(* question.                                                               *)
THEOREM ZeroDistanceIsEquality ==
    ASSUME NEW c \in Seq(Nat), NEW d \in Seq(Nat)
    PROVE  DistanceTo(c, d) = 0 <=> c = d
<1> DEFINE A == Agree(c, d)
<1>1. Len(c) \in Nat /\ Len(d) \in Nat
    OBVIOUS
<1>2. IsFiniteSet(1 .. Len(c)) /\ Cardinality(1 .. Len(c)) = Len(c)
    BY <1>1, Interval
<1>3. /\ A \subseteq 1 .. Len(c)
      /\ CommonPrefix(c, d) = Cardinality(A)
      /\ CommonPrefix(c, d) \in 0 .. Len(c)
      /\ CommonPrefix(c, d) \in 0 .. Len(d)
    BY CommonPrefixBound
<1>4. ASSUME DistanceTo(c, d) = 0
      PROVE  c = d
    <2>1. Len(c) = Len(d) /\ Cardinality(A) = Len(c)
        BY <1>1, <1>3, <1>4 DEF DistanceTo
    <2>2. A = 1 .. Len(c)
        BY <1>2, <1>3, <2>1, FS_Subset
    <2>3. \A i \in 1 .. Len(c) : c[i] = d[i]
        <3> TAKE i \in 1 .. Len(c)
        <3>1. i \in A /\ i \in 1 .. i
            BY <1>1, <2>2
        <3> QED BY <3>1 DEF Agree
    <2>4. PICK n \in Nat : n = Len(c) /\ n = Len(d)
        BY <1>1, <2>1
    <2>5. c = [i \in 1 .. n |-> c[i]] /\ d = [i \in 1 .. n |-> d[i]]
        <3>1. ASSUME NEW s \in Seq(Nat) PROVE s = [i \in 1 .. Len(s) |-> s[i]]
            OBVIOUS
        <3> QED BY <2>4, <3>1
    <2>6. [i \in 1 .. n |-> c[i]] = [i \in 1 .. n |-> d[i]]
        BY <2>3, <2>4
    <2> QED BY <2>5, <2>6
<1>5. ASSUME c = d
      PROVE  DistanceTo(c, d) = 0
    <2>1. A = 1 .. Len(c)
        BY <1>5 DEF Agree
    <2> QED BY <1>1, <1>2, <1>3, <1>5, <2>1 DEF DistanceTo
<1> QED BY <1>4, <1>5

-----------------------------------------------------------------------------
(* The tree stays within its types.                                        *)
LEMMA CurrentType ==
    ASSUME TreeTypeOK, NEW n \in Node
    PROVE  Current(n) \in Announcement
<1>1. Own(n) \in Announcement
    BY DEF TreeTypeOK, Own, Announcement, Root
<1>2. ann[n][parent[n]] \in Announcement \cup {None}
    BY DEF TreeTypeOK
<1> QED BY <1>1, <1>2 DEF Current

LEMMA SignedType ==
    ASSUME TreeTypeOK, NEW n \in Node, NEW m \in Node
    PROVE  /\ Signed(m, n) \in Announcement
           /\ Signed(m, n).sigs =
                Append(Current(m).sigs, [key |-> m, port |-> Port[m][n]])
<1>1. Current(m) \in Announcement
    BY CurrentType
<1>2. [key |-> m, port |-> Port[m][n]] \in Signature
    BY PortAssumption DEF Signature
<1> QED BY <1>1, <1>2 DEF Signed, Announcement

LEMMA TreeInitType ==
    TreeInit => TreeTypeOK
BY DEF TreeInit, TreeTypeOK

LEMMA HearType ==
    ASSUME TreeTypeOK, NEW n \in Node, NEW m \in Node, Hear(n, m)
    PROVE  TreeTypeOK'
<1>1. Signed(m, n) \in Announcement
    BY SignedType
<1>2. ann' \in [Node -> [Node -> Announcement \cup {None}]]
    BY <1>1 DEF TreeTypeOK, Hear
<1>3. parent' \in [Node -> Node]
    BY DEF TreeTypeOK, Hear
<1> QED BY <1>2, <1>3 DEF TreeTypeOK, Hear

LEMMA ReselectType ==
    ASSUME TreeTypeOK, NEW n \in Node, Reselect(n)
    PROVE  TreeTypeOK'
<1>1. Strongest(n, peers[n]) \subseteq Node
    BY DEF TreeTypeOK, Strongest, Candidates
<1> QED BY <1>1 DEF TreeTypeOK, Reselect

LEMMA TickType ==
    ASSUME TreeTypeOK, NEW n \in Node, Tick(n)
    PROVE  TreeTypeOK'
BY DEF TreeTypeOK, Tick

=============================================================================
