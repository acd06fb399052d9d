-------------------------- MODULE FrameStream_proofs --------------------------
(***************************************************************************)
(* Proofs about FrameStream and the codec, for all widths of the fields.   *)
(***************************************************************************)
EXTENDS FrameStream, WellFoundedInduction, TLAPS

Stream == Seq(Int)

LEMMA HeadAndTail ==
    ASSUME NEW s \in Stream, NEW t \in Stream
    PROVE  /\ s \o t \in Stream /\ Len(s \o t) = Len(s) + Len(t)
           /\ \A i \in 1 .. Len(s) : (s \o t)[i] = s[i]
           /\ \A i \in 1 .. Len(t) : (s \o t)[Len(s) + i] = t[i]
BY DEF Stream

LEMMA SameStream ==
    ASSUME NEW s \in Stream, NEW t \in Stream, Len(s) = Len(t),
           \A i \in 1 .. Len(s) : s[i] = t[i]
    PROVE  s = t
<1>1. ASSUME NEW r \in Stream PROVE r = [i \in 1 .. Len(r) |-> r[i]]
    BY DEF Stream
<1>2. s = [i \in 1 .. Len(s) |-> s[i]] /\ t = [i \in 1 .. Len(s) |-> t[i]]
    BY <1>1
<1>3. [i \in 1 .. Len(s) |-> s[i]] = [i \in 1 .. Len(s) |-> t[i]]
    OBVIOUS
<1> QED BY <1>2, <1>3

(* A set of numbers has a least member: induction over numbers is by the   *)
(* least counterexample.                                                   *)
LEMMA LeastNat ==
    ASSUME NEW T, T \subseteq Nat, T # {}
    PROVE  \E m \in T : \A k \in T : m <= k
<1> DEFINE Less == {ij \in Nat \X Nat : ij[1] < ij[2]}
<1>1. Less = OpToRel(<, Nat)
    BY DEF OpToRel
<1>2. IsWellFoundedOn(Less, Nat)
    BY <1>1, NatLessThanWellFounded
<1>3. \A i, j \in Nat : i < j => <<i, j>> \in Less
    OBVIOUS
<1> HIDE DEF Less
<1>4. PICK m \in T : \A k \in T : <<k, m>> \notin Less
    BY <1>2, WFMin
<1>5. \A k \in T : k \in Nat /\ m \in Nat /\ ~ (k < m)
    BY <1>3, <1>4
<1> QED BY <1>5

-----------------------------------------------------------------------------
(* FlattenSeq of the first n of some streams e[1], e[2], ...               *)

Streams(e, n) == \A j \in 1 .. n : e[j] \in Stream
Joined(e, n) == FlattenSeq([j \in 1 .. n |-> e[j]])

Glued(s, t) == s \o t

(* The function that FlattenSeq is defined by.                             *)
Joins(g, e, n) ==
    g = [i \in 1 .. n |-> IF i = 1 THEN e[i] ELSE Glued(g[i - 1], e[i])]

LEMMA JoinsSteps ==
    ASSUME NEW e, NEW n \in Nat, NEW g, Joins(g, e, n)
    PROVE  /\ n >= 1 => g[1] = e[1]
           /\ \A i \in 2 .. n : g[i] = Glued(g[i - 1], e[i])
<1>1. \A i \in 1 .. n : g[i] = IF i = 1 THEN e[i] ELSE Glued(g[i - 1], e[i])
    BY DEF Joins
<1> QED BY <1>1

LEMMA JoinsExists ==
    ASSUME NEW e, NEW n \in Nat
    PROVE  \E g : Joins(g, e, n)
<1> DEFINE Runs(k) == \E g : Joins(g, e, k)
           Stops == {k \in Nat : ~ Runs(k)}
<1>1. SUFFICES ASSUME Stops # {} PROVE FALSE
    OBVIOUS
<1>2. PICK k \in Stops : \A l \in Stops : k <= l
    BY <1>1, LeastNat
<1>3. k \in Nat /\ ~ Runs(k)
    BY <1>2
<1>4. CASE k = 0
    <2> DEFINE g == [i \in 1 .. k |-> e[i]]
    <2>1. Joins(g, e, k)
        BY <1>4 DEF Joins
    <2> QED BY <2>1, <1>3
<1>5. CASE k # 0
    <2>1. k - 1 \in Nat /\ k - 1 \notin Stops
        BY <1>2, <1>5
    <2>2. PICK g : Joins(g, e, k - 1)
        BY <2>1
    <2> DEFINE h == [i \in 1 .. k |-> IF i = 1 THEN e[i] ELSE Glued(g[i - 1], e[i])]
    <2>a. \A i \in 1 .. k : h[i] = IF i = 1 THEN e[i] ELSE Glued(g[i - 1], e[i])
        OBVIOUS
    <2>b. h = [i \in 1 .. k |-> h[i]]
        OBVIOUS
    <2> HIDE DEF h
    <2>3. \A i \in 1 .. k - 1 : h[i] = g[i]
        BY <2>1, <2>2, <2>a, JoinsSteps
    <2>4. \A i \in 1 .. k : h[i] = IF i = 1 THEN e[i] ELSE Glued(h[i - 1], e[i])
        <3> TAKE i \in 1 .. k
        <3>1. i # 1 => i - 1 \in 1 .. k - 1
            BY <2>1
        <3> QED BY <2>a, <2>3, <3>1
    <2>5. Joins(h, e, k)
        BY <2>4, <2>b DEF Joins
    <2> QED BY <2>5, <1>3
<1> QED BY <1>4, <1>5

(* All such functions agree as far as they go.                             *)
LEMMA JoinsAgree ==
    ASSUME NEW e, NEW n \in Nat, NEW m \in Nat, NEW g, Joins(g, e, n), NEW h, Joins(h, e, m)
    PROVE  \A i \in 1 .. n : i <= m => g[i] = h[i]
<1> DEFINE Bad == {i \in Nat : i \in 1 .. n /\ i <= m /\ g[i] # h[i]}
<1>1. SUFFICES ASSUME Bad # {} PROVE FALSE
    OBVIOUS
<1>2. PICK k \in Bad : \A l \in Bad : k <= l
    BY <1>1, LeastNat
<1>3. k # 1
    BY <1>2, JoinsSteps
<1>4. k - 1 \in 1 .. n /\ k - 1 <= m /\ k - 1 \notin Bad
    BY <1>2, <1>3
<1>5. g[k - 1] = h[k - 1]
    BY <1>4
<1>6. g[k] = Glued(g[k - 1], e[k]) /\ h[k] = Glued(h[k - 1], e[k])
    BY <1>2, <1>3, JoinsSteps
<1> QED BY <1>2, <1>5, <1>6

LEMMA JoinedIs ==
    ASSUME NEW e, NEW n \in Nat \ {0}
    PROVE  \E g : Joins(g, e, n) /\ Joined(e, n) = g[n]
<1> DEFINE s == [j \in 1 .. n |-> e[j]]
<1>1. Len(s) = n /\ Len(s) # 0 /\ \A i \in 1 .. n : s[i] = e[i]
    OBVIOUS
<1>2. FlattenSeq(s) = (CHOOSE f : Joins(f, s, Len(s)))[Len(s)]
    BY <1>1 DEF FlattenSeq, Joins, Glued
<1>3. PICK g : g = (CHOOSE f : Joins(f, s, n)) /\ Joins(g, s, n)
    BY JoinsExists
<1>4. Joins(g, e, n)
    BY <1>1, <1>3 DEF Joins
<1> QED BY <1>1, <1>2, <1>3, <1>4 DEF Joined

LEMMA JoinedNone == ASSUME NEW e PROVE Joined(e, 0) = <<>>
<1>1. [j \in 1 .. 0 |-> e[j]] = <<>>
    OBVIOUS
<1> QED BY <1>1 DEF Joined, FlattenSeq

LEMMA JoinedSame ==
    ASSUME NEW e, NEW d, NEW n \in Nat, \A j \in 1 .. n : e[j] = d[j]
    PROVE  Joined(e, n) = Joined(d, n)
<1>1. [j \in 1 .. n |-> e[j]] = [j \in 1 .. n |-> d[j]]
    OBVIOUS
<1> QED BY <1>1 DEF Joined

LEMMA JoinedStep ==
    ASSUME NEW e, NEW n \in Nat, Streams(e, n + 1), Joined(e, n) \in Stream
    PROVE  Joined(e, n + 1) = Joined(e, n) \o e[n + 1]
<1>1. PICK g : Joins(g, e, n + 1) /\ Joined(e, n + 1) = g[n + 1]
    BY JoinedIs
<1>2. CASE n = 0
    <2>1. Joined(e, n + 1) = e[1] /\ e[1] \in Stream
        <3>1. g[1] = e[1] /\ n + 1 = 1
            BY <1>1, <1>2, JoinsSteps
        <3>2. e[1] \in Stream
            BY <1>2 DEF Streams
        <3> QED BY <1>1, <3>1, <3>2
    <2>2. PICK s \in Stream : s = e[1] /\ << >> \o s = s
        BY <2>1 DEF Stream
    <2>3. Joined(e, n) = << >> /\ e[n + 1] = e[1]
        BY <1>2, JoinedNone
    <2> QED BY <2>1, <2>2, <2>3
<1>3. CASE n # 0
    <2>1. PICK h : Joins(h, e, n) /\ Joined(e, n) = h[n]
        BY <1>3, JoinedIs
    <2>2. h[n] = g[n]
        BY <1>1, <1>3, <2>1, JoinsAgree
    <2>3. g[n + 1] = Glued(g[n], e[n + 1])
        BY <1>1, <1>3, JoinsSteps
    <2> QED BY <1>1, <2>1, <2>2, <2>3 DEF Glued
<1> QED BY <1>2, <1>3

LEMMA JoinedType ==
    ASSUME NEW e, NEW n \in Nat, Streams(e, n)
    PROVE  \A i \in 0 .. n : Joined(e, i) \in Stream
<1> DEFINE Bad == {i \in Nat : i \in 0 .. n /\ Joined(e, i) \notin Stream}
<1>1. SUFFICES ASSUME Bad # {} PROVE FALSE
    OBVIOUS
<1>2. PICK k \in Bad : \A l \in Bad : k <= l
    BY <1>1, LeastNat
<1>3. k # 0
    <2>1. Joined(e, 0) \in Stream
        <3>1. << >> \in Seq(Int) /\ Joined(e, 0) = << >>
            BY JoinedNone
        <3> QED BY <3>1 DEF Stream
    <2> QED BY <1>2, <2>1
<1> DEFINE l == k - 1
<1>4. l \in Nat /\ l \in 0 .. n /\ l \notin Bad /\ k = l + 1
    BY <1>2, <1>3
<1>5. Joined(e, l) \in Stream /\ Streams(e, l + 1) /\ e[k] \in Stream
    BY <1>2, <1>4 DEF Streams
<1> HIDE DEF l
<1>6. Joined(e, k) = Joined(e, l) \o e[k]
    BY <1>4, <1>5, JoinedStep
<1> QED BY <1>2, <1>5, <1>6, HeadAndTail

(* t is s, prolonged by x.                                                 *)
IsProlonged(t, s, x) ==
    /\ s \in Stream /\ t \in Stream /\ Len(t) = Len(s) + Len(x)
    /\ \A b \in 1 .. Len(s) : t[b] = s[b]
    /\ \A b \in 1 .. Len(x) : t[Len(s) + b] = x[b]

(* What the first i streams take of the whole, and where the i-th is.      *)
LEMMA JoinedParts ==
    ASSUME NEW e, NEW n \in Nat, Streams(e, n), NEW i \in 1 .. n
    PROVE  IsProlonged(Joined(e, i), Joined(e, i - 1), e[i])
<1>1. Joined(e, i - 1) \in Stream /\ Joined(e, i) \in Stream /\ e[i] \in Stream
    BY JoinedType DEF Streams
<1>2. Streams(e, (i - 1) + 1) /\ i - 1 \in Nat /\ (i - 1) + 1 = i
    BY DEF Streams
<1>3. Joined(e, i) = Joined(e, i - 1) \o e[i]
    BY <1>1, <1>2, JoinedStep
<1> QED BY <1>1, <1>3, HeadAndTail DEF IsProlonged

(* t begins with s.                                                        *)
IsBeginning(s, t) ==
    /\ s \in Stream /\ t \in Stream /\ Len(s) <= Len(t)
    /\ \A b \in 1 .. Len(s) : t[b] = s[b]

LEMMA JoinedWhole ==
    ASSUME NEW e, NEW n \in Nat, Streams(e, n), NEW i \in 0 .. n
    PROVE  IsBeginning(Joined(e, i), Joined(e, n))
<1>0. ASSUME NEW k \in 1 .. n
      PROVE  IsProlonged(Joined(e, k), Joined(e, k - 1), e[k])
    BY JoinedParts
<1> DEFINE Whole(k) == IsBeginning(Joined(e, i), Joined(e, k))
           Bad == {k \in Nat : k \in i .. n /\ ~ Whole(k)}
<1>1. \A k \in 0 .. n : Joined(e, k) \in Stream
    BY JoinedType
<1>2. SUFFICES ASSUME Bad # {} PROVE FALSE
    BY <1>1
<1>3. PICK k \in Bad : \A l \in Bad : k <= l
    BY <1>2, LeastNat
<1>4. k # i
    <2>1. PICK r : r = Joined(e, i) /\ r \in Stream
        BY <1>1
    <2>2. IsBeginning(r, r)
        BY <2>1 DEF IsBeginning, Stream
    <2> QED BY <1>3, <2>1, <2>2
<1>5. k - 1 \in i .. n /\ Whole(k - 1) /\ k \in 1 .. n
    BY <1>3, <1>4
<1>6. e[k] \in Stream /\ Len(e[k]) \in Nat
    BY <1>5 DEF Streams, Stream
<1>7. PICK s, t : s = Joined(e, k - 1) /\ t = Joined(e, k)
    OBVIOUS
<1>8. /\ Len(t) = Len(s) + Len(e[k]) /\ s \in Stream /\ t \in Stream
      /\ \A b \in 1 .. Len(s) : t[b] = s[b]
    <2>1. IsProlonged(t, s, e[k])
        BY <1>0, <1>5, <1>7
    <2> QED BY <2>1 DEF IsProlonged
<1>9. PICK r : r = Joined(e, i)
    OBVIOUS
<1>10. r \in Stream /\ Len(r) <= Len(s) /\ \A b \in 1 .. Len(r) : s[b] = r[b]
    <2>1. IsBeginning(r, s)
        BY <1>5, <1>7, <1>9
    <2> QED BY <2>1 DEF IsBeginning
<1>11. PICK u, v, w, x : u = Len(r) /\ v = Len(s) /\ w = Len(t) /\ x = Len(e[k])
    OBVIOUS
<1>12. u \in Nat /\ v \in Nat /\ w = v + x /\ x \in Nat /\ u <= v
    BY <1>6, <1>8, <1>10, <1>11 DEF Stream
<1>13. u <= w /\ \A b \in 1 .. u : b \in 1 .. v
    BY <1>12
<1>14. Len(r) <= Len(t) /\ \A b \in 1 .. Len(r) : t[b] = r[b]
    BY <1>8, <1>10, <1>11, <1>13
<1>15. Whole(k)
    BY <1>7, <1>8, <1>9, <1>10, <1>14 DEF IsBeginning
<1> QED BY <1>3, <1>15

(* They are of one length.                                                *)
Even(e, n, w) == \A j \in 1 .. n : Len(e[j]) = w

LEMMA JoinedEqual ==
    ASSUME NEW e, NEW n \in Nat, Streams(e, n), NEW w \in Nat, Even(e, n, w)
    PROVE  \A i \in 0 .. n : Len(Joined(e, i)) = i * w
<1>0. ASSUME NEW k \in 1 .. n
      PROVE  Len(Joined(e, k)) = Len(Joined(e, k - 1)) + w
    <2>1. IsProlonged(Joined(e, k), Joined(e, k - 1), e[k])
        BY JoinedParts
    <2> QED BY <2>1 DEF Even, IsProlonged
<1> DEFINE Bad == {i \in Nat : i \in 0 .. n /\ Len(Joined(e, i)) # i * w}
<1>1. SUFFICES ASSUME Bad # {} PROVE FALSE
    OBVIOUS
<1>2. PICK k \in Bad : \A l \in Bad : k <= l
    BY <1>1, LeastNat
<1>3. Len(Joined(e, 0)) = 0 * w
    <2>1. Joined(e, 0) = << >> /\ Len(<< >>) = 0
        BY JoinedNone
    <2>2. 0 * w = 0
        OBVIOUS
    <2> QED BY <2>1, <2>2
<1>4. k \in 1 .. n /\ k - 1 \in 0 .. n /\ k - 1 \notin Bad
    BY <1>2, <1>3
<1>5. Len(Joined(e, k - 1)) = (k - 1) * w
    BY <1>4
<1>6. (k - 1) * w + w = k * w
    BY <1>4
<1> QED BY <1>0, <1>2, <1>4, <1>5, <1>6

LEMMA JoinedItem ==
    ASSUME NEW e, NEW n \in Nat, Streams(e, n), NEW w \in Nat, Even(e, n, w),
           NEW i \in 1 .. n, NEW b \in 1 .. w
    PROVE  Joined(e, n)[(i - 1) * w + b] = e[i][b]
<1>1. Len(Joined(e, i - 1)) = (i - 1) * w /\ Len(Joined(e, i)) = i * w
    BY JoinedEqual
<1>2. Joined(e, i)[(i - 1) * w + b] = e[i][b]
    <2>1. IsProlonged(Joined(e, i), Joined(e, i - 1), e[i])
        BY JoinedParts
    <2>2. Len(e[i]) = w
        BY DEF Even
    <2> QED BY <1>1, <2>1, <2>2 DEF IsProlonged
<1>3. (i - 1) * w + b \in 1 .. i * w
    <2>1. i * w = (i - 1) * w + w /\ (i - 1) * w \in Nat
        OBVIOUS
    <2> QED BY <2>1
<1>4. \A c \in 1 .. i * w : Joined(e, n)[c] = Joined(e, i)[c]
    <2>1. IsBeginning(Joined(e, i), Joined(e, n))
        BY JoinedWhole
    <2> QED BY <1>1, <2>1 DEF IsBeginning
<1> QED BY <1>2, <1>3, <1>4

-----------------------------------------------------------------------------
(* What the encoder writes for one field.                                  *)

LEMMA Widths ==
    /\ MagicLen \in Nat \ {0} /\ ExtraLen \in Nat \ {0} /\ NumLen \in Nat \ {0}
    /\ WordLen \in Nat \ {0} /\ KeyLen \in Nat \ {0} /\ SigLen \in Nat \ {0}
    /\ Mod \in Nat \ {0} /\ HeaderLen \in Nat /\ HeaderLen > MagicLen + 2
BY WidthAssumption DEF HeaderLen

LEMMA BytesAre ==
    ASSUME NEW x \in Int, NEW w \in Nat
    PROVE  /\ Bytes(x, w) \in Stream /\ Len(Bytes(x, w)) = w
           /\ \A b \in 1 .. w : Bytes(x, w)[b] = x
BY DEF Bytes, Stream

Signature == [key : Nat, port : Nat]

LEMMA SignatureIs ==
    ASSUME NEW s \in Signature
    PROVE  LET e == EncodeSignature(s)
           IN  /\ e \in Stream /\ Len(e) = KeyLen + WordLen + SigLen
               /\ e[1] = s.key /\ e[KeyLen + 1] = s.port
<1> DEFINE a == Bytes(s.key, KeyLen)
           p == Bytes(s.port, WordLen)
           c == Bytes(s.key, SigLen)
<1>1. s.key \in Int /\ s.port \in Int
    BY DEF Signature
<1>2. /\ a \in Stream /\ Len(a) = KeyLen /\ a[1] = s.key
      /\ p \in Stream /\ Len(p) = WordLen /\ p[1] = s.port
      /\ c \in Stream /\ Len(c) = SigLen
    BY <1>1, Widths, BytesAre
<1>3. EncodeSignature(s) = (a \o p) \o c
    BY DEF EncodeSignature
<1> HIDE DEF a, p, c
<1>4. 1 \in 1 .. KeyLen /\ 1 \in 1 .. WordLen /\ KeyLen + 1 \in 1 .. KeyLen + WordLen
      /\ 1 \in 1 .. KeyLen + WordLen
    BY Widths
<1>5. PICK d : d = a \o p
    OBVIOUS
<1>6. d \in Stream /\ Len(d) = KeyLen + WordLen /\ d[1] = s.key /\ d[KeyLen + 1] = s.port
    <2>1. /\ d \in Stream /\ Len(d) = Len(a) + Len(p)
          /\ \A i \in 1 .. Len(a) : d[i] = a[i]
          /\ \A i \in 1 .. Len(p) : d[Len(a) + i] = p[i]
        <3>1. a \in Stream /\ p \in Stream
            BY <1>2
        <3> QED BY <1>5, <3>1, HeadAndTail
    <2>2. d[1] = a[1]
        BY <1>2, <1>4, <2>1
    <2>3. d[KeyLen + 1] = p[1]
        BY <1>2, <1>4, <2>1
    <2>4. Len(d) = KeyLen + WordLen
        BY <1>2, <2>1
    <2> QED BY <1>2, <2>1, <2>2, <2>3, <2>4
<1>7. d \o c \in Stream /\ Len(d \o c) = KeyLen + WordLen + SigLen /\ (d \o c)[1] = s.key
      /\ (d \o c)[KeyLen + 1] = s.port
    <2>1. /\ d \o c \in Stream /\ Len(d \o c) = Len(d) + Len(c)
          /\ \A i \in 1 .. Len(d) : (d \o c)[i] = d[i]
        BY <1>2, <1>6, HeadAndTail
    <2>2. Len(d \o c) = KeyLen + WordLen + SigLen
        BY <1>2, <1>6, <2>1
    <2>3. (d \o c)[1] = d[1] /\ (d \o c)[KeyLen + 1] = d[KeyLen + 1]
        BY <1>4, <1>6, <2>1
    <2> QED BY <1>6, <2>1, <2>2, <2>3
<1> QED BY <1>3, <1>5, <1>7

(* A list: the number of its items, and the items.                         *)
IsListOf(l, e, n, w) ==
    /\ l \in Stream /\ Len(l) = NumLen + n * w
    /\ l[1] = n % Mod
    /\ \A i \in 1 .. n, b \in 1 .. w :
           /\ NumLen + (i - 1) * w + b \in 1 .. NumLen + n * w
           /\ l[NumLen + (i - 1) * w + b] = e[i][b]

LEMMA ListIs ==
    ASSUME NEW e, NEW n \in Nat, Streams(e, n), NEW w \in Nat, Even(e, n, w)
    PROVE  IsListOf(Bytes(n % Mod, NumLen) \o Joined(e, n), e, n, w)
<1>1. n % Mod \in Int
    BY Widths
<1>2. PICK s, t : s = Bytes(n % Mod, NumLen) /\ t = Joined(e, n)
    OBVIOUS
<1>3. s \in Stream /\ Len(s) = NumLen /\ s[1] = n % Mod
    BY <1>1, <1>2, BytesAre, Widths
<1>4. t \in Stream /\ Len(t) = n * w /\ n * w \in Nat
    BY <1>2, JoinedType, JoinedEqual
<1>5. \A i \in 1 .. n, b \in 1 .. w : t[(i - 1) * w + b] = e[i][b]
    BY <1>2, JoinedItem
<1>6. s \o t \in Stream /\ Len(s \o t) = NumLen + n * w /\ (s \o t)[1] = n % Mod
    <2>1. /\ s \o t \in Stream /\ Len(s \o t) = Len(s) + Len(t)
          /\ \A i \in 1 .. Len(s) : (s \o t)[i] = s[i]
        BY <1>3, <1>4, HeadAndTail
    <2>2. 1 \in 1 .. NumLen
        BY Widths
    <2> QED BY <1>3, <1>4, <2>1, <2>2
<1>7. ASSUME NEW i \in 1 .. n, NEW b \in 1 .. w
      PROVE  /\ NumLen + (i - 1) * w + b \in 1 .. NumLen + n * w
             /\ (s \o t)[NumLen + (i - 1) * w + b] = e[i][b]
    <2>1. (i - 1) * w + b \in 1 .. n * w
        <3>1. i * w = (i - 1) * w + w /\ (i - 1) * w \in Nat /\ i * w <= n * w
            OBVIOUS
        <3> QED BY <3>1
    <2>2. PICK c : c = (i - 1) * w + b
        OBVIOUS
    <2>3. (s \o t)[NumLen + c] = t[c]
        BY <1>3, <1>4, <2>1, <2>2, HeadAndTail
    <2>4. NumLen + (i - 1) * w + b = NumLen + c
        BY <2>1, <2>2, Widths
    <2>5. NumLen + c \in 1 .. NumLen + n * w
        BY <1>4, <2>1, <2>2, Widths
    <2> QED BY <1>5, <2>2, <2>3, <2>4, <2>5
<1> QED BY <1>2, <1>6, <1>7 DEF IsListOf

Kinds == {"key", "word", "path", "payload", "signatures"}
Start(kind) == IF IsList(kind) THEN NumLen ELSE 0
Items(kind, v) == IF kind \in {"key", "word"} THEN 1 ELSE Len(v)
Size(kind, v) == Start(kind) + Items(kind, v) * ItemLen(kind)

Agrees(s, e) == \A b \in 1 .. Len(e) : s[b] = e[b]

LEMMA KindsDiffer ==
    /\ Start("key") = 0 /\ Start("word") = 0 /\ Start("payload") = 0
    /\ Start("path") = NumLen /\ Start("signatures") = NumLen
    /\ ItemLen("key") = KeyLen /\ ItemLen("word") = WordLen /\ ItemLen("payload") = 1
    /\ ItemLen("path") = WordLen /\ ItemLen("signatures") = KeyLen + WordLen + SigLen
    /\ Start("path_as_destination") = NumLen
    /\ ItemLen("path_as_destination") = WordLen
BY DEF Start, ItemLen, IsList

LEMMA KeyWritten ==
    ASSUME NEW v \in Nat, NEW s, NEW kind \in {"key", "word"}
    PROVE  LET e == Encode1(kind, v)
           IN  /\ e \in Stream /\ Len(e) = Size(kind, v)
               /\ Agrees(s, e) => ValueAt(s, kind, Start(kind), Items(kind, v)) = v
<1> DEFINE e == Encode1(kind, v)
<1>1. PICK w : w = ItemLen(kind)
    OBVIOUS
<1>2. e = Bytes(v, w) /\ w \in Nat \ {0}
    BY <1>1, KindsDiffer, Widths DEF Encode1
<1>3. Size(kind, v) = w
    <2>1. Start(kind) = 0 /\ Items(kind, v) = 1
        BY KindsDiffer DEF Items
    <2>2. 0 + 1 * w = w
        BY <1>2
    <2> QED BY <1>1, <2>1, <2>2 DEF Size
<1> HIDE DEF e
<1>4. e \in Stream /\ Len(e) = w /\ \A b \in 1 .. w : e[b] = v
    BY <1>2, BytesAre
<1>5. Agrees(s, e) => s[1] = v
    BY <1>2, <1>4 DEF Agrees
<1>6. ValueAt(s, kind, Start(kind), Items(kind, v)) = s[1]
    BY DEF ValueAt
<1> QED BY <1>3, <1>4, <1>5, <1>6 DEF e

LEMMA PayloadWritten ==
    ASSUME NEW v \in Seq(Nat), NEW s
    PROVE  LET e == Encode1("payload", v)
           IN  /\ e \in Stream /\ Len(e) = Size("payload", v)
               /\ Agrees(s, e) => ValueAt(s, "payload", Start("payload"), Items("payload", v)) = v
<1>1. Encode1("payload", v) = v /\ v \in Stream
    BY DEF Encode1, Stream
<1>2. Items("payload", v) = Len(v) /\ Len(v) \in Nat
    BY DEF Items
<1>3. Size("payload", v) = Len(v)
    <2>1. 0 + Len(v) * 1 = Len(v)
        BY <1>2
    <2> QED BY <1>2, <2>1, KindsDiffer DEF Size
<1>4. ASSUME Agrees(s, v)
      PROVE  ValueAt(s, "payload", 0, Len(v)) = v
    <2>1. ValueAt(s, "payload", 0, Len(v)) = [i \in 1 .. Len(v) |-> s[0 + (i - 1) * 1 + 1]]
        BY KindsDiffer DEF ValueAt
    <2>2. \A i \in 1 .. Len(v) : 0 + (i - 1) * 1 + 1 = i /\ s[i] = v[i]
        BY <1>4 DEF Agrees
    <2>3. v = [i \in 1 .. Len(v) |-> v[i]]
        OBVIOUS
    <2> QED BY <2>1, <2>2, <2>3
<1> QED BY <1>1, <1>2, <1>3, <1>4, KindsDiffer

LEMMA PathWritten ==
    ASSUME NEW v \in Seq(Nat), NEW s
    PROVE  LET e == Encode1("path", v)
           IN  /\ e \in Stream /\ Len(e) = Size("path", v) /\ e[1] = Len(v) % Mod
               /\ Agrees(s, e) => ValueAt(s, "path", Start("path"), Items("path", v)) = v
<1> DEFINE n == Len(v)
           d == [i \in DOMAIN v |-> Bytes(v[i], WordLen)]
<1>1. n \in Nat /\ DOMAIN v = 1 .. n /\ \A i \in 1 .. n : v[i] \in Nat
    OBVIOUS
<1>2. \A i \in 1 .. n : d[i] = Bytes(v[i], WordLen) /\ v[i] \in Int
    BY <1>1
<1>3. Encode1("path", v) = Bytes(n % Mod, NumLen) \o FlattenSeq(d)
    BY DEF Encode1
<1>4. d = [j \in 1 .. n |-> d[j]]
    BY <1>1
<1> HIDE DEF n, d
<1>5. FlattenSeq(d) = Joined(d, n)
    BY <1>4 DEF Joined
<1>6. Streams(d, n) /\ Even(d, n, WordLen) /\ \A i \in 1 .. n : d[i][1] = v[i]
    <2>1. ASSUME NEW i \in 1 .. n
          PROVE  d[i] \in Stream /\ Len(d[i]) = WordLen /\ d[i][1] = v[i]
        <3>1. 1 \in 1 .. WordLen /\ WordLen \in Nat
            BY Widths
        <3>2. PICK x : x = v[i] /\ x \in Int /\ d[i] = Bytes(x, WordLen)
            BY <1>2
        <3> QED BY <3>1, <3>2, BytesAre
    <2> QED BY <2>1 DEF Streams, Even
<1>7. PICK e : e = Encode1("path", v)
    OBVIOUS
<1>8. /\ e \in Stream /\ Len(e) = NumLen + n * WordLen /\ e[1] = n % Mod
      /\ \A i \in 1 .. n, b \in 1 .. WordLen :
             /\ NumLen + (i - 1) * WordLen + b \in 1 .. NumLen + n * WordLen
             /\ e[NumLen + (i - 1) * WordLen + b] = d[i][b]
    <2>1. e = Bytes(n % Mod, NumLen) \o Joined(d, n) /\ WordLen \in Nat
        BY <1>3, <1>5, <1>7, Widths
    <2>2. IsListOf(e, d, n, WordLen)
        BY <1>1, <1>6, <2>1, ListIs, Zenon
    <2> QED BY <2>2 DEF IsListOf
<1>9. Items("path", v) = n
    BY DEF Items, n
<1>10. Size("path", v) = NumLen + n * WordLen
    BY <1>9, KindsDiffer DEF Size
<1>11. ASSUME Agrees(s, e)
       PROVE  ValueAt(s, "path", NumLen, n) = v
    <2>1. ValueAt(s, "path", NumLen, n) = [i \in 1 .. n |-> s[NumLen + (i - 1) * WordLen + 1]]
        BY KindsDiffer DEF ValueAt
    <2>2. ASSUME NEW i \in 1 .. n PROVE s[NumLen + (i - 1) * WordLen + 1] = v[i]
        <3>1. 1 \in 1 .. WordLen
            BY Widths
        <3>2. PICK a : a = NumLen + (i - 1) * WordLen + 1
            OBVIOUS
        <3>3. a \in 1 .. Len(e) /\ e[a] = v[i]
            BY <1>6, <1>8, <3>1, <3>2
        <3> QED BY <1>11, <3>2, <3>3 DEF Agrees
    <2>3. v = [i \in 1 .. n |-> v[i]]
        BY DEF n
    <2> QED BY <2>1, <2>2, <2>3
<1> QED BY <1>7, <1>8, <1>9, <1>10, <1>11, KindsDiffer DEF n

LEMMA SignaturesWritten ==
    ASSUME NEW v \in Seq(Signature), NEW s
    PROVE  LET e == Encode1("signatures", v)
           IN  /\ e \in Stream /\ Len(e) = Size("signatures", v) /\ e[1] = Len(v) % Mod
               /\ Agrees(s, e) =>
                      ValueAt(s, "signatures", Start("signatures"), Items("signatures", v)) = v
<1> DEFINE n == Len(v)
           d == [i \in DOMAIN v |-> EncodeSignature(v[i])]
           w == KeyLen + WordLen + SigLen
<1>1. n \in Nat /\ DOMAIN v = 1 .. n /\ \A i \in 1 .. n : v[i] \in Signature
    OBVIOUS
<1>2. \A i \in 1 .. n : d[i] = EncodeSignature(v[i])
    BY <1>1
<1>3. Encode1("signatures", v) = Bytes(n % Mod, NumLen) \o FlattenSeq(d)
    BY DEF Encode1
<1>4. d = [j \in 1 .. n |-> d[j]]
    BY <1>1
<1>5. w \in Nat \ {0} /\ 1 \in 1 .. w /\ KeyLen + 1 \in 1 .. w
    BY Widths
<1>6. ItemLen("signatures") = w
    BY KindsDiffer
<1> HIDE DEF n, d, w
<1>7. FlattenSeq(d) = Joined(d, n)
    BY <1>4 DEF Joined
<1>8. ASSUME NEW i \in 1 .. n
      PROVE  d[i] \in Stream /\ Len(d[i]) = w /\ d[i][1] = v[i].key /\ d[i][KeyLen + 1] = v[i].port
    BY <1>1, <1>2, SignatureIs DEF w
<1>9. Streams(d, n) /\ Even(d, n, w)
    BY <1>8 DEF Streams, Even
<1>10. PICK e : e = Encode1("signatures", v)
    OBVIOUS
<1>11. /\ e \in Stream /\ Len(e) = NumLen + n * w /\ e[1] = n % Mod
       /\ \A i \in 1 .. n, b \in 1 .. w :
              /\ NumLen + (i - 1) * w + b \in 1 .. NumLen + n * w
              /\ e[NumLen + (i - 1) * w + b] = d[i][b]
    <2>1. e = Bytes(n % Mod, NumLen) \o Joined(d, n) /\ w \in Nat
        BY <1>3, <1>5, <1>7, <1>10
    <2>2. IsListOf(e, d, n, w)
        BY <1>1, <1>9, <2>1, ListIs, Zenon
    <2> QED BY <2>2 DEF IsListOf
<1>12. Items("signatures", v) = n
    BY DEF Items, n
<1>13. Size("signatures", v) = NumLen + n * w
    BY <1>6, <1>12, KindsDiffer DEF Size
<1>14. ASSUME Agrees(s, e)
       PROVE  ValueAt(s, "signatures", NumLen, n) = v
    <2>1. ValueAt(s, "signatures", NumLen, n)
            = [i \in 1 .. n |-> [key |-> s[NumLen + (i - 1) * w + 1],
                                 port |-> s[NumLen + (i - 1) * w + 1 + KeyLen]]]
        BY <1>6 DEF ValueAt
    <2>2. ASSUME NEW i \in 1 .. n
          PROVE  [key |-> s[NumLen + (i - 1) * w + 1],
                  port |-> s[NumLen + (i - 1) * w + 1 + KeyLen]] = v[i]
        <3>1. PICK a, b : a = NumLen + (i - 1) * w + 1 /\ b = NumLen + (i - 1) * w + (KeyLen + 1)
            OBVIOUS
        <3>2. a \in 1 .. Len(e) /\ e[a] = v[i].key /\ b \in 1 .. Len(e) /\ e[b] = v[i].port
            BY <1>5, <1>8, <1>11, <3>1
        <3>3. NumLen + (i - 1) * w + 1 + KeyLen = b
            BY <1>1, <1>5, <3>1, Widths
        <3>4. s[a] = v[i].key /\ s[b] = v[i].port
            BY <1>14, <3>2 DEF Agrees
        <3>5. v[i] = [key |-> v[i].key, port |-> v[i].port]
            BY <1>1 DEF Signature
        <3> QED BY <3>1, <3>3, <3>4, <3>5
    <2>3. v = [i \in 1 .. n |-> v[i]]
        BY DEF n
    <2> QED BY <2>1, <2>2, <2>3
<1> QED BY <1>10, <1>11, <1>12, <1>13, <1>14, KindsDiffer DEF n


-----------------------------------------------------------------------------
(* What a field reads as.                                                  *)

LEMMA Written ==
    ASSUME NEW kind \in Kinds, NEW v \in Values(kind), NEW s
    PROVE  /\ Encode1(kind, v) \in Stream /\ Len(Encode1(kind, v)) = Size(kind, v)
           /\ IsList(kind) => Encode1(kind, v)[1] = Len(v) % Mod
           /\ Agrees(s, Encode1(kind, v)) =>
                  ValueAt(s, kind, Start(kind), Items(kind, v)) = v
<1>1. CASE kind \in {"key", "word"}
    <2>1. v \in Nat /\ ~ IsList(kind)
        BY <1>1 DEF Values, IsList
    <2> QED BY <1>1, <2>1, KeyWritten
<1>2. CASE kind = "payload"
    <2>1. v \in Seq(Nat) /\ ~ IsList(kind)
        BY <1>2 DEF Values, IsList
    <2> QED BY <1>2, <2>1, PayloadWritten
<1>3. CASE kind = "path"
    <2>1. v \in Seq(Nat)
        BY <1>3 DEF Values
    <2> QED BY <1>3, <2>1, PathWritten
<1>4. CASE kind = "signatures"
    <2>1. v \in Seq(Signature)
        BY <1>4 DEF Values, Signature
    <2> QED BY <1>4, <2>1, SignaturesWritten
<1> QED BY <1>1, <1>2, <1>3, <1>4 DEF Kinds

(* r begins as e does, as far as both go.                                  *)
Follows(r, e) == \A b \in 1 .. Len(r) : b <= Len(e) => r[b] = e[b]

Cursor(r, g, l, a, b) ==
    [rest |-> r, fields |-> g, ok |-> TRUE, len |-> l, lists |-> a, items |-> b]

Same(kind, read) ==
    read = kind \/ (kind = "path" /\ read = "path_as_destination")

LEMMA SizeType ==
    ASSUME NEW kind \in Kinds, NEW v \in Values(kind)
    PROVE  /\ Start(kind) \in Nat /\ ItemLen(kind) \in Nat /\ Items(kind, v) \in Nat
           /\ Size(kind, v) \in Nat /\ Start(kind) <= Size(kind, v)
           /\ Items(kind, v) <= Size(kind, v)
           /\ IsList(kind) => Start(kind) = NumLen /\ Items(kind, v) = Len(v)
           /\ kind = "payload" => Items(kind, v) = Len(v) /\ Len(v) \in Nat
<1>1. kind \in {"key", "word"} \/ Len(v) \in Nat
    BY DEF Kinds, Values
<1>2. Items(kind, v) \in Nat
    BY <1>1 DEF Items
<1>3. Start(kind) \in Nat /\ ItemLen(kind) \in Nat \ {0}
    <2>1. kind = "key" \/ kind = "word" \/ kind = "path" \/ kind = "payload" \/ kind = "signatures"
        BY DEF Kinds
    <2>2. KeyLen + WordLen + SigLen \in Nat \ {0} /\ 1 \in Nat \ {0} /\ 0 \in Nat
        BY Widths
    <2> QED BY <2>1, <2>2, KindsDiffer, Widths
<1>4. \A a \in Nat, w \in Nat \ {0} : a * w \in Nat /\ a <= a * w
    OBVIOUS
<1>5. PICK m : m = Items(kind, v) * ItemLen(kind) /\ m \in Nat /\ Items(kind, v) <= m
    BY <1>2, <1>3, <1>4
<1>6. Size(kind, v) = Start(kind) + m
    BY <1>5 DEF Size
<1>7. IsList(kind) => Start(kind) = NumLen /\ Items(kind, v) = Len(v)
    BY DEF IsList, Start, Items
<1>8. kind = "payload" => Items(kind, v) = Len(v) /\ Len(v) \in Nat
    BY <1>1 DEF Items
<1> QED BY <1>2, <1>3, <1>5, <1>6, <1>7, <1>8

(* The decoder has run into the end of the buffer.                         *)
Cut(c) == "ok" \in DOMAIN c /\ c.ok = FALSE

(* One field is read as it was written, or found to be cut off.            *)
LEMMA FieldRead ==
    ASSUME NEW kind \in Kinds, NEW v \in Values(kind), NEW read, Same(kind, read),
           NEW r \in Stream, Follows(r, Encode1(kind, v)),
           NEW g, NEW l, NEW a, NEW b, NEW name,
           Len(r) >= Start(kind) => Number(Cursor(r, g, l, a, b), read) = Items(kind, v),
           kind = "payload" => ~ (PayloadLength(Cursor(r, g, l, a, b)) < 0)
    PROVE  LET c == Decode1(Cursor(r, g, l, a, b), name, read)
           IN  IF Len(r) >= Size(kind, v)
               THEN c = Cursor(Skip(r, Size(kind, v)), With(g, name, v), l,
                               IF IsList(kind) THEN a + 1 ELSE a,
                               IF IsList(kind) THEN b + Count(Cursor(r, g, l, a, b)) ELSE b)
               ELSE Cut(c)
<1> DEFINE d == Cursor(r, g, l, a, b)
<1>1. /\ IsList(read) <=> IsList(kind)
      /\ ItemLen(read) = ItemLen(kind)
      /\ read = "payload" <=> kind = "payload"
    <2>1. IsList("path") /\ IsList("path_as_destination")
        BY DEF IsList
    <2> QED BY <2>1, KindsDiffer DEF Same
<1>2. \A s, n : ValueAt(s, read, Start(kind), n) = ValueAt(s, kind, Start(kind), n)
    BY <1>1 DEF Same, ValueAt
<1>3. d.rest = r /\ d.fields = g /\ d.ok = TRUE /\ d.len = l /\ d.lists = a /\ d.items = b
    BY DEF Cursor
<1>4. Size(kind, v) \in Nat /\ Start(kind) <= Size(kind, v) /\ Start(kind) \in Nat /\ Len(r) \in Nat
    BY SizeType DEF Stream
<1>5. CASE Len(r) >= Size(kind, v)
    <2>1. Number(d, read) = Items(kind, v)
        BY <1>4, <1>5
    <2>2. Agrees(r, Encode1(kind, v))
        <3>1. Len(Encode1(kind, v)) = Size(kind, v)
            BY Written
        <3> QED BY <1>4, <1>5, <3>1 DEF Follows, Agrees
    <2>3. ValueAt(r, read, Start(kind), Number(d, read)) = v
        BY <1>2, <2>1, <2>2, Written
    <2>4. PICK start, size : start = Start(kind) /\ size = Size(kind, v)
        OBVIOUS
    <2>5. /\ start = IF IsList(read) THEN NumLen ELSE 0
          /\ size = start + Number(d, read) * ItemLen(read)
        BY <1>1, <2>1, <2>4 DEF Start, Size
    <2>6. ~ (\/ ~ d.ok \/ Len(d.rest) < start \/ Len(d.rest) < size
             \/ read = "payload" /\ Checked /\ PayloadLength(d) < 0)
        BY <1>1, <1>3, <1>4, <1>5, <2>4
    <2>7. Decode1(d, name, read) =
             [d EXCEPT !.rest = Skip(@, size),
                      !.fields = With(@, name, ValueAt(d.rest, read, start, Number(d, read))),
                      !.lists = IF IsList(read) THEN @ + 1 ELSE @,
                      !.items = IF IsList(read) THEN @ + Count(d) ELSE @]
        BY <2>5, <2>6 DEF Decode1
    <2>8. PICK x : x = Count(d)
        OBVIOUS
    <2>9. Decode1(d, name, read) =
             [rest |-> Skip(r, size), fields |-> With(g, name, v), ok |-> TRUE, len |-> l,
              lists |-> IF IsList(kind) THEN a + 1 ELSE a,
              items |-> IF IsList(kind) THEN b + x ELSE b]
        <3>1. PICK val : val = ValueAt(d.rest, read, start, Number(d, read)) /\ val = v
            BY <1>3, <2>3, <2>4
        <3>2. PICK u : u = IF IsList(kind) THEN a + 1 ELSE a
            OBVIOUS
        <3>3. PICK w : w = IF IsList(kind) THEN b + x ELSE b
            OBVIOUS
        <3>4. u = (IF IsList(read) THEN d.lists + 1 ELSE d.lists)
              /\ w = (IF IsList(read) THEN d.items + Count(d) ELSE d.items)
            BY <1>1, <1>3, <2>8, <3>2, <3>3
        <3>5. Decode1(d, name, read) =
                 [d EXCEPT !.rest = Skip(d.rest, size), !.fields = With(d.fields, name, val),
                           !.lists = u, !.items = w]
            BY <2>7, <3>1, <3>4
        <3>6. Decode1(d, name, read) =
                 [d EXCEPT !.rest = Skip(r, size), !.fields = With(g, name, v),
                           !.lists = u, !.items = w]
            BY <1>3, <3>1, <3>5
        <3> QED BY <3>2, <3>3, <3>6 DEF Cursor
    <2> QED BY <1>5, <2>4, <2>8, <2>9 DEF Cursor
<1>6. CASE ~ (Len(r) >= Size(kind, v))
    <2>1. Len(d.rest) < Start(kind) \/ Len(d.rest) < Start(kind) + Number(d, read) * ItemLen(read)
        <3>1. CASE Len(r) >= Start(kind)
            BY <1>1, <1>3, <1>4, <1>6, <3>1 DEF Size
        <3> QED BY <1>3, <1>4, <3>1
    <2>2. Decode1(d, name, read) = [d EXCEPT !.ok = FALSE]
        BY <1>1, <2>1 DEF Decode1, Start
    <2>3. Cut(Decode1(d, name, read))
        BY <2>2 DEF Cursor, Cut
    <2> QED BY <1>6, <2>3
<1> QED BY <1>5, <1>6


-----------------------------------------------------------------------------
(* The tables of the encoder and the decoder agree.                        *)

Names(f) == EncodedFields[f.type]
Width(f) == Len(Names(f))

Types ==
    {"TreeAnnouncement", "TreeRouted", "SnekBootstrap", "SnekBootstrapACK",
     "SnekSetup", "SnekSetupACK", "SnekTeardown", "SnekRouted"}

AllNames ==
    {"root_key", "root_sequence", "signatures", "destination", "source", "payload",
     "destination_key", "source_key", "path_id"}

LEMMA KindsOfNames == \A name \in AllNames : Kind(name) \in Kinds
BY DEF AllNames, Kind, Kinds

LEMMA NamesOfTypes ==
    \A t \in Types :
        /\ Len(EncodedFields[t]) \in Nat \ {0}
        /\ DOMAIN EncodedFields[t] = 1 .. Len(EncodedFields[t])
        /\ \A i \in 1 .. Len(EncodedFields[t]) : EncodedFields[t][i] \in AllNames
<1>1. \A t \in Types : EncodedFields[t] \in Seq(AllNames) /\ EncodedFields[t] # << >>
    <2>1. EncodedFields["TreeAnnouncement"] \in Seq(AllNames) /\ EncodedFields["TreeAnnouncement"] # << >>
        BY DEF EncodedFields, AllNames
    <2>2. EncodedFields["TreeRouted"] \in Seq(AllNames) /\ EncodedFields["TreeRouted"] # << >>
        BY DEF EncodedFields, AllNames
    <2>3. EncodedFields["SnekBootstrap"] \in Seq(AllNames) /\ EncodedFields["SnekBootstrap"] # << >>
        BY DEF EncodedFields, AllNames
    <2>4. EncodedFields["SnekBootstrapACK"] \in Seq(AllNames) /\ EncodedFields["SnekBootstrapACK"] # << >>
        BY DEF EncodedFields, AllNames
    <2>5. EncodedFields["SnekSetup"] \in Seq(AllNames) /\ EncodedFields["SnekSetup"] # << >>
        BY DEF EncodedFields, AllNames
    <2>6. EncodedFields["SnekSetupACK"] \in Seq(AllNames) /\ EncodedFields["SnekSetupACK"] # << >>
        BY DEF EncodedFields, AllNames
    <2>7. EncodedFields["SnekTeardown"] \in Seq(AllNames) /\ EncodedFields["SnekTeardown"] # << >>
        BY DEF EncodedFields, AllNames
    <2>8. EncodedFields["SnekRouted"] \in Seq(AllNames) /\ EncodedFields["SnekRouted"] # << >>
        BY DEF EncodedFields, AllNames
    <2> QED BY <2>1, <2>2, <2>3, <2>4, <2>5, <2>6, <2>7, <2>8 DEF Types
<1> QED BY <1>1

LEMMA DecodedAsEncoded ==
    \A t \in Types :
        /\ EncodedType[t] \in 1 .. 8 /\ DecodedType[EncodedType[t]] = t
        /\ DecodedFields[EncodedType[t]] = EncodedFields[t]
        /\ EncodedType[t] = 2 <=> t = "TreeRouted"
<1>1. EncodedType["TreeAnnouncement"] = 1 /\ DecodedType[1] = "TreeAnnouncement"
    BY DEF EncodedType, DecodedType
<1>2. EncodedType["TreeRouted"] = 2 /\ DecodedType[2] = "TreeRouted"
    BY DEF EncodedType, DecodedType
<1>3. EncodedType["SnekBootstrap"] = 3 /\ DecodedType[3] = "SnekBootstrap"
    BY DEF EncodedType, DecodedType
<1>4. EncodedType["SnekBootstrapACK"] = 4 /\ DecodedType[4] = "SnekBootstrapACK"
    BY DEF EncodedType, DecodedType
<1>5. EncodedType["SnekSetup"] = 5 /\ DecodedType[5] = "SnekSetup"
    BY DEF EncodedType, DecodedType
<1>6. EncodedType["SnekSetupACK"] = 6 /\ DecodedType[6] = "SnekSetupACK"
    BY DEF EncodedType, DecodedType
<1>7. EncodedType["SnekTeardown"] = 7 /\ DecodedType[7] = "SnekTeardown"
    BY DEF EncodedType, DecodedType
<1>8. EncodedType["SnekRouted"] = 8 /\ DecodedType[8] = "SnekRouted"
    BY DEF EncodedType, DecodedType
<1>9. DecodedFields[1] = EncodedFields["TreeAnnouncement"]
    BY DEF DecodedFields, EncodedFields
<1>10. DecodedFields[2] = EncodedFields["TreeRouted"]
    BY DEF DecodedFields, EncodedFields
<1>11. DecodedFields[3] = EncodedFields["SnekBootstrap"]
    BY DEF DecodedFields, EncodedFields
<1>12. DecodedFields[4] = EncodedFields["SnekBootstrapACK"]
    BY DEF DecodedFields, EncodedFields
<1>13. DecodedFields[5] = EncodedFields["SnekSetup"]
    BY DEF DecodedFields, EncodedFields
<1>14. DecodedFields[6] = EncodedFields["SnekSetupACK"]
    BY DEF DecodedFields, EncodedFields
<1>15. DecodedFields[7] = EncodedFields["SnekTeardown"]
    BY DEF DecodedFields, EncodedFields
<1>16. DecodedFields[8] = EncodedFields["SnekRouted"]
    BY DEF DecodedFields, EncodedFields
<1> QED BY <1>1, <1>2, <1>3, <1>4, <1>5, <1>6, <1>7, <1>8, <1>9, <1>10, <1>11, <1>12, <1>13, <1>14, <1>15, <1>16 DEF Types

LEMMA SameKinds ==
    ASSUME NEW t, NEW name \in AllNames
    PROVE  Same(Kind(name), DecodedKind(t, name))
<1>1. Kind("source") = "path"
    BY DEF Kind
<1>2. CASE t = 2 /\ name = "source"
    <2>1. DecodedKind(t, name) = "path_as_destination"
        BY <1>2 DEF DecodedKind
    <2> QED BY <1>1, <1>2, <2>1 DEF Same
<1>3. CASE ~ (t = 2 /\ name = "source")
    <2>1. DecodedKind(t, name) = Kind(name)
        BY <1>3 DEF DecodedKind
    <2>2. \A k : Same(k, k)
        BY DEF Same
    <2> QED BY <2>1, <2>2
<1> QED BY <1>2, <1>3

LEMMA TypesNumbered == DOMAIN EncodedType = Types /\ DOMAIN DecodedType = 1 .. 8
BY DEF Types, EncodedType, DecodedType

Parts(f) ==
    [i \in 1 .. Width(f) |-> Encode1(Kind(Names(f)[i]), f.fields[Names(f)[i]])]

(* The frame's bytes up to the end of its i-th field.                      *)
Upto(f, i) == Len(Joined(Parts(f), i))

LEMMA FieldOf ==
    ASSUME NEW f, IsFrame(f), NEW i \in 1 .. Width(f)
    PROVE  /\ Names(f)[i] \in AllNames /\ Kind(Names(f)[i]) \in Kinds
           /\ f.fields[Names(f)[i]] \in Values(Kind(Names(f)[i]))
           /\ Parts(f)[i] = Encode1(Kind(Names(f)[i]), f.fields[Names(f)[i]])
<1>1. f.type \in Types
    BY TypesNumbered DEF IsFrame
<1>2. DOMAIN Names(f) = 1 .. Width(f) /\ Names(f)[i] \in AllNames
    BY <1>1, NamesOfTypes DEF Names, Width
<1>3. Names(f)[i] \in FieldNames(f.type)
    BY <1>2 DEF FieldNames, Names
<1> QED BY <1>2, <1>3, KindsOfNames DEF IsFrame, Parts

LEMMA BodyOf ==
    ASSUME NEW f, IsFrame(f)
    PROVE  /\ Width(f) \in Nat \ {0} /\ Streams(Parts(f), Width(f))
           /\ Body(f) = Joined(Parts(f), Width(f)) /\ Body(f) \in Stream
           /\ f.type \in Types
<1>1. f.type \in Types
    BY TypesNumbered DEF IsFrame
<1>2. Width(f) \in Nat \ {0} /\ DOMAIN Names(f) = 1 .. Width(f)
    BY <1>1, NamesOfTypes DEF Names, Width
<1>3. ASSUME NEW i \in 1 .. Width(f) PROVE Parts(f)[i] \in Stream
    BY FieldOf, Written
<1>4. Streams(Parts(f), Width(f))
    BY <1>3 DEF Streams
<1>5. [i \in 1 .. Width(f) |-> Parts(f)[i]] = Parts(f)
    BY DEF Parts
<1>6. Body(f) = FlattenSeq(Parts(f))
    BY <1>2 DEF Body, Parts, Names
<1>7. Body(f) = Joined(Parts(f), Width(f))
    BY <1>5, <1>6 DEF Joined
<1> QED BY <1>1, <1>2, <1>4, <1>7, JoinedType


-----------------------------------------------------------------------------
(* A frame's body, field by field.                                         *)

FieldName(f, i) == Names(f)[i]
FieldKind(f, i) == Kind(Names(f)[i])
Field(f, i) == f.fields[Names(f)[i]]
FieldSize(f, i) == Size(FieldKind(f, i), Field(f, i))

LEMMA BodyParts ==
    ASSUME NEW f, IsFrame(f), NEW i \in 1 .. Width(f)
    PROVE  /\ Upto(f, i - 1) \in Nat /\ Upto(f, i) \in Nat /\ FieldSize(f, i) \in Nat
           /\ Upto(f, i) = Upto(f, i - 1) + FieldSize(f, i)
           /\ Upto(f, i) <= Len(Body(f))
           /\ \A b \in 1 .. FieldSize(f, i) : Body(f)[Upto(f, i - 1) + b] = Parts(f)[i][b]
<1>1. Streams(Parts(f), Width(f)) /\ Width(f) \in Nat /\ Body(f) = Joined(Parts(f), Width(f))
    BY BodyOf
<1>2. Parts(f)[i] \in Stream /\ Len(Parts(f)[i]) = FieldSize(f, i)
    BY FieldOf, Written DEF FieldSize, FieldKind, Field
<1>3. PICK s, t : s = Joined(Parts(f), i - 1) /\ t = Joined(Parts(f), i)
    OBVIOUS
<1>4. /\ s \in Stream /\ t \in Stream
      /\ Len(t) = Len(s) + Len(Parts(f)[i])
      /\ \A b \in 1 .. Len(Parts(f)[i]) : t[Len(s) + b] = Parts(f)[i][b]
    <2>1. IsProlonged(t, s, Parts(f)[i])
        BY <1>1, <1>3, JoinedParts
    <2> QED BY <2>1 DEF IsProlonged
<1>5. /\ Len(t) <= Len(Body(f))
      /\ \A b \in 1 .. Len(t) : Body(f)[b] = t[b]
    <2>1. IsBeginning(t, Body(f))
        BY <1>1, <1>3, JoinedWhole
    <2> QED BY <2>1 DEF IsBeginning
<1>6. Upto(f, i - 1) = Len(s) /\ Upto(f, i) = Len(t)
    BY <1>3 DEF Upto
<1>7. Len(s) \in Nat /\ Len(t) \in Nat /\ Len(Parts(f)[i]) \in Nat
    BY <1>2, <1>4 DEF Stream
<1>8. ASSUME NEW b \in 1 .. FieldSize(f, i)
      PROVE  Body(f)[Upto(f, i - 1) + b] = Parts(f)[i][b]
    <2>1. PICK x : x = Len(s) + b
        OBVIOUS
    <2>2. x \in 1 .. Len(t) /\ t[x] = Parts(f)[i][b]
        BY <1>2, <1>4, <1>7, <2>1
    <2> QED BY <1>5, <1>6, <2>1, <2>2
<1> QED BY <1>2, <1>4, <1>5, <1>6, <1>7, <1>8

LEMMA BodyEnds ==
    ASSUME NEW f, IsFrame(f)
    PROVE  Upto(f, 0) = 0 /\ Upto(f, Width(f)) = Len(Body(f)) /\ Len(Body(f)) \in Nat
<1>1. Joined(Parts(f), 0) = << >> /\ Len(<< >>) = 0
    BY JoinedNone
<1>2. Body(f) = Joined(Parts(f), Width(f)) /\ Body(f) \in Stream
    BY BodyOf
<1>3. Len(Body(f)) \in Nat
    BY <1>2 DEF Stream
<1> QED BY <1>1, <1>2, <1>3 DEF Upto

(* The frames that the format can carry.                                   *)
Sound(f) ==
    /\ IsFrame(f)
    /\ DeclaredLength(f) < Mod
    /\ f.type = "TreeRouted" => Len(f.fields["source"]) = Len(f.fields["destination"])

(* The tables, entry by entry.                                             *)
LEMMA EncodedFieldsAre ==
    /\ EncodedFields["TreeAnnouncement"] =
           << "root_key", "root_sequence", "signatures" >>
    /\ EncodedFields["TreeRouted"] =
           << "destination", "source", "payload" >>
    /\ EncodedFields["SnekBootstrap"] =
           << "destination_key", "source", "root_key",
              "root_sequence", "path_id" >>
    /\ EncodedFields["SnekBootstrapACK"] =
           << "destination", "destination_key", "source",
              "source_key", "root_key", "root_sequence", "path_id" >>
    /\ EncodedFields["SnekSetup"] =
           << "destination", "destination_key", "source_key",
              "root_key", "root_sequence", "path_id" >>
    /\ EncodedFields["SnekSetupACK"] =
           << "destination_key", "root_key", "root_sequence",
              "path_id" >>
    /\ EncodedFields["SnekTeardown"] =
           << "destination_key", "root_key", "root_sequence",
              "path_id" >>
    /\ EncodedFields["SnekRouted"] =
           << "destination_key", "source_key", "payload" >>
<1>1. EncodedFields["TreeAnnouncement"] =
           << "root_key", "root_sequence", "signatures" >>
    BY DEF EncodedFields
<1>2. EncodedFields["TreeRouted"] =
           << "destination", "source", "payload" >>
    BY DEF EncodedFields
<1>3. EncodedFields["SnekBootstrap"] =
           << "destination_key", "source", "root_key",
              "root_sequence", "path_id" >>
    BY DEF EncodedFields
<1>4. EncodedFields["SnekBootstrapACK"] =
           << "destination", "destination_key", "source",
              "source_key", "root_key", "root_sequence", "path_id" >>
    BY DEF EncodedFields
<1>5. EncodedFields["SnekSetup"] =
           << "destination", "destination_key", "source_key",
              "root_key", "root_sequence", "path_id" >>
    BY DEF EncodedFields
<1>6. EncodedFields["SnekSetupACK"] =
           << "destination_key", "root_key", "root_sequence",
              "path_id" >>
    BY DEF EncodedFields
<1>7. EncodedFields["SnekTeardown"] =
           << "destination_key", "root_key", "root_sequence",
              "path_id" >>
    BY DEF EncodedFields
<1>8. EncodedFields["SnekRouted"] =
           << "destination_key", "source_key", "payload" >>
    BY DEF EncodedFields
<1> QED BY <1>1, <1>2, <1>3, <1>4, <1>5, <1>6, <1>7, <1>8

LEMMA AnnouncementNames ==
    ASSUME NEW f, f.type = "TreeAnnouncement"
    PROVE  /\ Width(f) = 3
           /\ FieldKind(f, 1) = "key" /\ FieldKind(f, 2) = "word" /\ FieldKind(f, 3) = "signatures"
           /\ FieldName(f, 3) = "signatures"
<1>1. Names(f) = << "root_key", "root_sequence", "signatures" >>
    BY EncodedFieldsAre DEF Names
<1>2. Len(Names(f)) = 3
    BY <1>1
<1>3. Names(f)[1] = "root_key" /\ Names(f)[2] = "root_sequence" /\ Names(f)[3] = "signatures"
    BY <1>1
<1> QED BY <1>2, <1>3 DEF Width, FieldKind, FieldName, Kind

LEMMA TreeRoutedNames ==
    ASSUME NEW f, f.type = "TreeRouted"
    PROVE  /\ Width(f) = 3
           /\ FieldKind(f, 1) = "path" /\ FieldKind(f, 2) = "path" /\ FieldKind(f, 3) = "payload"
           /\ FieldName(f, 1) = "destination" /\ FieldName(f, 2) = "source"
           /\ FieldName(f, 3) = "payload"
<1>1. Names(f) = << "destination", "source", "payload" >>
    BY EncodedFieldsAre DEF Names
<1> QED BY <1>1 DEF Width, FieldKind, FieldName, Kind

LEMMA SnekRoutedNames ==
    ASSUME NEW f, f.type = "SnekRouted"
    PROVE  /\ Width(f) = 3
           /\ FieldKind(f, 1) = "key" /\ FieldKind(f, 2) = "key" /\ FieldKind(f, 3) = "payload"
<1>1. Names(f) = << "destination_key", "source_key", "payload" >>
    BY EncodedFieldsAre DEF Names
<1>2. Len(Names(f)) = 3
    BY <1>1
<1>3. Names(f)[1] = "destination_key" /\ Names(f)[2] = "source_key" /\ Names(f)[3] = "payload"
    BY <1>1
<1> QED BY <1>2, <1>3 DEF Width, FieldKind, Kind

(* Only these three types have a payload or signatures.                    *)
LEMMA OtherKinds ==
    ASSUME NEW f, f.type \in Types, NEW i \in 1 .. Width(f)
    PROVE  /\ FieldKind(f, i) = "payload" => f.type \in {"TreeRouted", "SnekRouted"} /\ i = 3
           /\ FieldKind(f, i) = "signatures" => f.type = "TreeAnnouncement" /\ i = 3
           /\ DecodedKind(EncodedType[f.type], FieldName(f, i)) # FieldKind(f, i)
                  => f.type = "TreeRouted" /\ i = 2
<1>1. ASSUME FieldKind(f, i) = "payload" PROVE FieldName(f, i) = "payload"
    BY <1>1 DEF FieldKind, FieldName, Kind
<1>2. ASSUME FieldKind(f, i) = "signatures" PROVE FieldName(f, i) = "signatures"
    BY <1>2 DEF FieldKind, FieldName, Kind
<1>3. ASSUME DecodedKind(EncodedType[f.type], FieldName(f, i)) # FieldKind(f, i)
      PROVE  f.type = "TreeRouted" /\ FieldName(f, i) = "source"
    BY <1>3, DecodedAsEncoded DEF DecodedKind, FieldKind, FieldName
<1>4. /\ FieldName(f, i) = "payload" => f.type \in {"TreeRouted", "SnekRouted"} /\ i = 3
      /\ FieldName(f, i) = "signatures" => f.type = "TreeAnnouncement" /\ i = 3
      /\ f.type = "TreeRouted" /\ FieldName(f, i) = "source" => i = 2
    <2>1. CASE f.type = "TreeAnnouncement"
        <3>1. Names(f) = << "root_key", "root_sequence", "signatures" >>
            BY <2>1, EncodedFieldsAre DEF Names
        <3> QED BY <2>1, <3>1 DEF Width, FieldName
    <2>2. CASE f.type = "TreeRouted"
        <3>1. Names(f) = << "destination", "source", "payload" >>
            BY <2>2, EncodedFieldsAre DEF Names
        <3> QED BY <2>2, <3>1 DEF Width, FieldName
    <2>3. CASE f.type = "SnekBootstrap"
        <3>1. Names(f) = << "destination_key", "source", "root_key",
                             "root_sequence", "path_id" >>
            BY <2>3, EncodedFieldsAre DEF Names
        <3> QED BY <2>3, <3>1 DEF Width, FieldName
    <2>4. CASE f.type = "SnekBootstrapACK"
        <3>1. Names(f) = << "destination", "destination_key", "source",
                             "source_key", "root_key", "root_sequence", "path_id" >>
            BY <2>4, EncodedFieldsAre DEF Names
        <3> QED BY <2>4, <3>1 DEF Width, FieldName
    <2>5. CASE f.type = "SnekSetup"
        <3>1. Names(f) = << "destination", "destination_key", "source_key",
                             "root_key", "root_sequence", "path_id" >>
            BY <2>5, EncodedFieldsAre DEF Names
        <3> QED BY <2>5, <3>1 DEF Width, FieldName
    <2>6. CASE f.type = "SnekSetupACK"
        <3>1. Names(f) = << "destination_key", "root_key", "root_sequence",
                             "path_id" >>
            BY <2>6, EncodedFieldsAre DEF Names
        <3> QED BY <2>6, <3>1 DEF Width, FieldName
    <2>7. CASE f.type = "SnekTeardown"
        <3>1. Names(f) = << "destination_key", "root_key", "root_sequence",
                             "path_id" >>
            BY <2>7, EncodedFieldsAre DEF Names
        <3> QED BY <2>7, <3>1 DEF Width, FieldName
    <2>8. CASE f.type = "SnekRouted"
        <3>1. Names(f) = << "destination_key", "source_key", "payload" >>
            BY <2>8, EncodedFieldsAre DEF Names
        <3> QED BY <2>8, <3>1 DEF Width, FieldName
    <2> QED BY <2>1, <2>2, <2>3, <2>4, <2>5, <2>6, <2>7, <2>8 DEF Types
<1> QED BY <1>1, <1>2, <1>3, <1>4


-----------------------------------------------------------------------------
(* The length in the header, and the numbers that are read.                *)

LEMMA FieldSizes ==
    ASSUME NEW f, IsFrame(f), NEW i \in 1 .. Width(f)
    PROVE  /\ FieldKind(f, i) \in Kinds /\ Field(f, i) \in Values(FieldKind(f, i))
           /\ FieldKind(f, i) = "key" => FieldSize(f, i) = KeyLen
           /\ FieldKind(f, i) = "path" =>
                  /\ Len(Field(f, i)) \in Nat
                  /\ FieldSize(f, i) = NumLen + Len(Field(f, i)) * WordLen
           /\ FieldKind(f, i) = "payload" =>
                  Len(Field(f, i)) \in Nat /\ FieldSize(f, i) = Len(Field(f, i))
           /\ FieldKind(f, i) = "signatures" =>
                  /\ Len(Field(f, i)) \in Nat
                  /\ FieldSize(f, i) = NumLen + Len(Field(f, i)) * (KeyLen + WordLen + SigLen)
<1>1. PICK k, v : k = FieldKind(f, i) /\ v = Field(f, i)
    OBVIOUS
<1>2. k \in Kinds /\ v \in Values(k)
    BY <1>1, FieldOf DEF FieldKind, Field
<1>3. FieldSize(f, i) = Start(k) + Items(k, v) * ItemLen(k)
    BY <1>1 DEF FieldSize, Size
<1>4. k \in {"path", "payload", "signatures"} => Len(v) \in Nat /\ Items(k, v) = Len(v)
    BY <1>2 DEF Values, Items
<1>5. k = "key" => 0 + 1 * KeyLen = KeyLen /\ Items(k, v) = 1
    BY Widths DEF Items
<1>6. k = "payload" => 0 + Len(v) * 1 = Len(v)
    BY <1>4
<1> QED BY <1>1, <1>2, <1>3, <1>4, <1>5, <1>6, KindsDiffer

LEMMA DeclaredIs ==
    ASSUME NEW f, IsFrame(f)
    PROVE  /\ DeclaredLength(f) \in Nat /\ DeclaredLength(f) >= HeaderLen
           /\ DeclaredLength(f) <= HeaderLen + Len(Body(f))
           /\ f.type # "TreeAnnouncement" => DeclaredLength(f) = HeaderLen + Len(Body(f))
<1>1. Len(Body(f)) \in Nat /\ f.type \in Types
    BY BodyEnds, BodyOf
<1>2. CASE f.type # "TreeAnnouncement"
    BY <1>1, <1>2, Widths DEF DeclaredLength
<1>3. CASE f.type = "TreeAnnouncement"
    <2>1. 3 \in 1 .. Width(f) /\ FieldKind(f, 3) = "signatures"
        BY <1>3, AnnouncementNames
    <2>2. PICK n, w : n = Len(Field(f, 3)) /\ w = KeyLen + WordLen
        OBVIOUS
    <2>3. n \in Nat /\ w \in Nat /\ FieldSize(f, 3) = NumLen + n * (w + SigLen)
        BY <2>1, <2>2, FieldSizes, Widths
    <2>4. FieldSize(f, 3) <= Len(Body(f))
        BY <1>1, <2>1, BodyParts
    <2>5. n * (w + SigLen) = n * w + n * SigLen /\ n * w \in Nat /\ n * SigLen \in Nat
        BY <2>3, Widths
    <2>6. DeclaredLength(f) = HeaderLen + Len(Body(f)) - n * SigLen
        BY <1>3, <2>2, AnnouncementNames DEF DeclaredLength, Field, FieldName
    <2> QED BY <1>1, <1>3, <2>3, <2>4, <2>5, <2>6, Widths
<1> QED BY <1>2, <1>3

LEMMA SmallLists ==
    ASSUME NEW f, Sound(f), NEW i \in 1 .. Width(f), IsList(FieldKind(f, i))
    PROVE  Len(Field(f, i)) \in Nat /\ Len(Field(f, i)) < Mod
<1>1. IsFrame(f) /\ DeclaredLength(f) < Mod /\ f.type \in Types /\ Len(Body(f)) \in Nat
    BY BodyOf, BodyEnds DEF Sound
<1>2. PICK n : n = Len(Field(f, i))
    OBVIOUS
<1>3. FieldKind(f, i) \in Kinds
    BY <1>1, FieldSizes
<1>4. FieldSize(f, i) <= Len(Body(f)) /\ FieldSize(f, i) \in Nat
    BY <1>1, BodyParts
<1>5. CASE FieldKind(f, i) = "path"
    <2>1. f.type # "TreeAnnouncement"
        BY <1>1, <1>5, AnnouncementNames
    <2>2. n \in Nat /\ FieldSize(f, i) = NumLen + n * WordLen
        BY <1>1, <1>2, <1>5, FieldSizes
    <2>3. n <= n * WordLen /\ n * WordLen \in Nat
        BY <2>2, Widths
    <2>4. DeclaredLength(f) = HeaderLen + Len(Body(f))
        BY <1>1, <2>1, DeclaredIs
    <2> QED BY <1>1, <1>2, <1>4, <2>2, <2>3, <2>4, Widths
<1>6. CASE FieldKind(f, i) = "signatures"
    <2>1. f.type = "TreeAnnouncement" /\ i = 3
        BY <1>1, <1>6, OtherKinds
    <2>2. PICK w : w = KeyLen + WordLen /\ w \in Nat \ {0}
        BY Widths
    <2>3. n \in Nat /\ FieldSize(f, i) = NumLen + n * (w + SigLen)
        BY <1>1, <1>2, <1>6, <2>2, FieldSizes, Widths
    <2>4. n * (w + SigLen) = n * w + n * SigLen /\ n * w \in Nat /\ n * SigLen \in Nat /\ n <= n * w
        BY <2>2, <2>3, Widths
    <2>5. DeclaredLength(f) = HeaderLen + Len(Body(f)) - n * SigLen
        BY <1>2, <2>1, AnnouncementNames DEF DeclaredLength, Field, FieldName
    <2> QED BY <1>1, <1>2, <1>4, <2>3, <2>4, <2>5, Widths
<1> QED BY <1>3, <1>5, <1>6 DEF Kinds, IsList

(* What the decoder computes as a payload's length is what was written.    *)
LEMMA PayloadIs ==
    ASSUME NEW f, Sound(f), NEW r, NEW g, NEW a, NEW b,
           3 \in 1 .. Width(f), FieldKind(f, 3) = "payload",
           f.type = "SnekRouted" => a = 0,
           f.type = "TreeRouted" => a = 2 /\ b = Len(Field(f, 1)) + Len(Field(f, 2))
    PROVE  LET p == PayloadLength(Cursor(r, g, DeclaredLength(f), a, b))
           IN  p = Len(Field(f, 3)) /\ p \in Nat /\ p < Mod
<1>1. IsFrame(f) /\ DeclaredLength(f) < Mod /\ f.type \in Types /\ Len(Body(f)) \in Nat
    BY BodyOf, BodyEnds DEF Sound
<1>2. f.type \in {"TreeRouted", "SnekRouted"}
    BY <1>1, OtherKinds
<1>3. Width(f) = 3
    BY <1>2, TreeRoutedNames, SnekRoutedNames
<1>4. DeclaredLength(f) = HeaderLen + Len(Body(f))
    BY <1>1, <1>2, DeclaredIs
<1>5. PICK n : n = Len(Field(f, 3)) /\ n \in Nat /\ FieldSize(f, 3) = n
    BY <1>1, FieldSizes
<1>6. Len(Body(f)) = FieldSize(f, 1) + FieldSize(f, 2) + n
    <2>1. Upto(f, 0) = 0 /\ Upto(f, 3) = Len(Body(f))
        BY <1>1, <1>3, BodyEnds
    <2>2. ASSUME NEW i \in 1 .. 3
          PROVE  Upto(f, i) = Upto(f, i - 1) + FieldSize(f, i) /\ Upto(f, i) \in Nat
                 /\ FieldSize(f, i) \in Nat
        BY <1>1, <1>3, BodyParts
    <2>3. Upto(f, 1) = Upto(f, 0) + FieldSize(f, 1) /\ FieldSize(f, 1) \in Nat
        BY <2>2
    <2>4. Upto(f, 2) = Upto(f, 1) + FieldSize(f, 2) /\ FieldSize(f, 2) \in Nat
        BY <2>2
    <2>5. Upto(f, 3) = Upto(f, 2) + FieldSize(f, 3) /\ FieldSize(f, 3) \in Nat
        BY <2>2
    <2> QED BY <1>5, <2>1, <2>3, <2>4, <2>5
<1>7. PICK p : p = PayloadLength(Cursor(r, g, DeclaredLength(f), a, b))
    OBVIOUS
<1>8. p = Len(Body(f)) - (IF a = 0 THEN 2 * KeyLen ELSE a * NumLen + b * WordLen)
    <2>1. PICK x : x = IF a = 0 THEN 2 * KeyLen ELSE a * NumLen + b * WordLen
        OBVIOUS
    <2>2. p = DeclaredLength(f) - HeaderLen - x
        BY <1>7, <2>1 DEF PayloadLength, Cursor
    <2>3. x \in Int
        <3>1. CASE f.type = "SnekRouted"
            BY <2>1, <3>1, Widths
        <3>2. CASE f.type = "TreeRouted"
            <4>1. Len(Field(f, 1)) \in Nat /\ Len(Field(f, 2)) \in Nat
                BY <1>1, <1>3, <3>2, TreeRoutedNames, FieldSizes
            <4>2. b \in Nat /\ a = 2
                BY <3>2, <4>1
            <4>3. b * WordLen \in Nat
                BY <4>2, Widths
            <4> QED BY <2>1, <4>2, <4>3, Widths
        <3> QED BY <1>2, <3>1, <3>2
    <2> QED BY <1>1, <1>4, <2>1, <2>2, <2>3, Widths
<1>9. CASE f.type = "SnekRouted"
    <2>1. FieldSize(f, 1) = KeyLen /\ FieldSize(f, 2) = KeyLen
        BY <1>1, <1>3, <1>9, SnekRoutedNames, FieldSizes
    <2>2. p = n
        BY <1>5, <1>6, <1>8, <1>9, <2>1, Widths
    <2> QED BY <1>1, <1>4, <1>5, <1>6, <1>7, <2>1, <2>2, Widths
<1>10. CASE f.type = "TreeRouted"
    <2>1. PICK x, y : x = Len(Field(f, 1)) /\ y = Len(Field(f, 2))
        OBVIOUS
    <2>2. /\ x \in Nat /\ FieldSize(f, 1) = NumLen + x * WordLen
          /\ y \in Nat /\ FieldSize(f, 2) = NumLen + y * WordLen
        BY <1>1, <1>3, <1>10, <2>1, TreeRoutedNames, FieldSizes
    <2>3. (x + y) * WordLen = x * WordLen + y * WordLen /\ x * WordLen \in Nat /\ y * WordLen \in Nat
        BY <2>2, Widths
    <2>4. a = 2 /\ b = x + y
        BY <1>10, <2>1
    <2>5. PICK m, k : m = x * WordLen /\ k = y * WordLen
        OBVIOUS
    <2>6. m \in Nat /\ k \in Nat /\ b * WordLen = m + k
        BY <2>3, <2>4, <2>5
    <2>7. FieldSize(f, 1) = NumLen + m /\ FieldSize(f, 2) = NumLen + k
        BY <2>2, <2>5
    <2>8. p = Len(Body(f)) - (2 * NumLen + (m + k))
        BY <1>8, <2>4, <2>6
    <2>9. p = n
        BY <1>5, <1>6, <2>6, <2>7, <2>8, Widths
    <2> QED BY <1>1, <1>4, <1>5, <1>6, <1>7, <2>6, <2>7, <2>9, Widths
<1> QED BY <1>2, <1>9, <1>10


-----------------------------------------------------------------------------
(* Reading the fields one after the other.                                 *)

(* The function that DecodeFields is defined by.                           *)
Reads(c, t, r, l, n) ==
    c = [i \in 0 .. n |->
            IF i = 0 THEN Cursor(r, <<>>, l, 0, 0)
            ELSE Decode1(c[i - 1], DecodedFields[t][i], DecodedKind(t, DecodedFields[t][i]))]

LEMMA ReadsSteps ==
    ASSUME NEW t, NEW r, NEW l, NEW n \in Nat, NEW c, Reads(c, t, r, l, n)
    PROVE  /\ c[0] = Cursor(r, <<>>, l, 0, 0)
           /\ \A i \in 1 .. n :
                  c[i] = Decode1(c[i - 1], DecodedFields[t][i], DecodedKind(t, DecodedFields[t][i]))
<1>1. \A i \in 0 .. n : c[i] = IF i = 0 THEN Cursor(r, <<>>, l, 0, 0)
          ELSE Decode1(c[i - 1], DecodedFields[t][i], DecodedKind(t, DecodedFields[t][i]))
    BY DEF Reads
<1> QED BY <1>1

LEMMA ReadsExists ==
    ASSUME NEW t, NEW r, NEW l, NEW n \in Nat
    PROVE  \E c : Reads(c, t, r, l, n)
<1> DEFINE Stops == {k \in Nat : ~ \E c : Reads(c, t, r, l, k)}
<1>1. SUFFICES ASSUME Stops # {} PROVE FALSE
    OBVIOUS
<1>2. PICK k \in Stops : \A m \in Stops : k <= m
    BY <1>1, LeastNat
<1>3. k \in Nat /\ ~ \E c : Reads(c, t, r, l, k)
    BY <1>2
<1>4. CASE k = 0
    <2> DEFINE g == [i \in 0 .. k |-> Cursor(r, <<>>, l, 0, 0)]
    <2>1. Reads(g, t, r, l, k)
        BY <1>4 DEF Reads
    <2> QED BY <2>1, <1>3
<1>5. CASE k # 0
    <2>1. k - 1 \in Nat /\ k - 1 \notin Stops
        BY <1>2, <1>5
    <2>2. PICK g : Reads(g, t, r, l, k - 1)
        BY <2>1
    <2> DEFINE Step(h, i) ==
            IF i = 0 THEN Cursor(r, <<>>, l, 0, 0)
            ELSE Decode1(h[i - 1], DecodedFields[t][i], DecodedKind(t, DecodedFields[t][i]))
        h == [i \in 0 .. k |-> Step(g, i)]
    <2>3. \A i \in 0 .. k : h[i] = Step(g, i)
        OBVIOUS
    <2>4. h = [i \in 0 .. k |-> h[i]]
        OBVIOUS
    <2> HIDE DEF h
    <2>5. \A i \in 0 .. k - 1 : g[i] = Step(g, i)
        BY <2>2 DEF Reads
    <2>6. \A i \in 0 .. k - 1 : h[i] = g[i]
        BY <2>1, <2>3, <2>5
    <2>7. \A i \in 0 .. k : h[i] = Step(h, i)
        <3> TAKE i \in 0 .. k
        <3>1. i # 0 => i - 1 \in 0 .. k - 1
            BY <2>1
        <3>2. i # 0 => h[i - 1] = g[i - 1]
            BY <2>6, <3>1
        <3> QED BY <2>3, <3>2
    <2>8. h = [i \in 0 .. k |-> Step(h, i)]
        BY <2>4, <2>7
    <2>9. Reads(h, t, r, l, k)
        BY <2>8 DEF Reads
    <2> QED BY <2>9, <1>3
<1> QED BY <1>4, <1>5

LEMMA DecodeFieldsIs ==
    ASSUME NEW t, NEW r, NEW l, Len(DecodedFields[t]) \in Nat
    PROVE  \E c : /\ Reads(c, t, r, l, Len(DecodedFields[t]))
                  /\ DecodeFields(t, r, l) = c[Len(DecodedFields[t])]
<1>1. PICK n : n = Len(DecodedFields[t])
    OBVIOUS
<1>2. DecodeFields(t, r, l) = (CHOOSE c : Reads(c, t, r, l, n))[n]
    BY <1>1 DEF DecodeFields, Reads, Cursor
<1>3. PICK c : c = (CHOOSE d : Reads(d, t, r, l, n)) /\ Reads(c, t, r, l, n)
    BY <1>1, ReadsExists
<1> QED BY <1>1, <1>2, <1>3

IsTail(s, r, n) ==
    /\ s \in Stream /\ Len(s) = Len(r) - n
    /\ \A b \in 1 .. Len(r) - n : s[b] = r[n + b]

LEMMA SkipIs ==
    ASSUME NEW r \in Stream, NEW n \in Nat, n <= Len(r)
    PROVE  IsTail(Skip(r, n), r, n)
BY DEF IsTail, Skip, Stream

LEMMA SkipTwice ==
    ASSUME NEW r \in Stream, NEW n \in Nat, NEW m \in Nat, n + m <= Len(r)
    PROVE  Skip(Skip(r, n), m) = Skip(r, n + m)
<1>1. Len(r) \in Nat
    BY DEF Stream
<1>2. PICK s : s = Skip(r, n)
    OBVIOUS
<1>3. s \in Stream /\ Len(s) = Len(r) - n /\ \A b \in 1 .. Len(r) - n : s[b] = r[n + b]
    <2>1. IsTail(s, r, n)
        BY <1>1, <1>2, SkipIs
    <2> QED BY <2>1 DEF IsTail
<1>4. PICK x, y : x = Skip(s, m) /\ y = Skip(r, n + m)
    OBVIOUS
<1>5. x \in Stream /\ Len(x) = Len(s) - m /\ \A b \in 1 .. Len(s) - m : x[b] = s[m + b]
    <2>1. IsTail(x, s, m)
        BY <1>1, <1>3, <1>4, SkipIs
    <2> QED BY <2>1 DEF IsTail
<1>6. y \in Stream /\ Len(y) = Len(r) - (n + m) /\ \A b \in 1 .. Len(r) - (n + m) : y[b] = r[(n + m) + b]
    <2>1. IsTail(y, r, n + m)
        BY <1>1, <1>4, SkipIs
    <2> QED BY <2>1 DEF IsTail
<1>7. Len(x) = Len(y)
    BY <1>1, <1>3, <1>5, <1>6
<1>8. ASSUME NEW b \in 1 .. Len(x) PROVE x[b] = y[b]
    <2>1. b \in Nat /\ m + b \in 1 .. Len(r) - n /\ n + (m + b) = (n + m) + b
        BY <1>1, <1>3, <1>5, <1>8
    <2>2. x[b] = s[m + b] /\ s[m + b] = r[n + (m + b)]
        BY <1>3, <1>5, <1>8, <2>1
    <2>3. y[b] = r[(n + m) + b]
        BY <1>6, <1>7, <1>8
    <2> QED BY <2>1, <2>2, <2>3
<1> QED BY <1>2, <1>4, <1>5, <1>6, <1>7, <1>8, SameStream

(* The first i fields of a frame.                                          *)
FirstFields(f, i) == [name \in {FieldName(f, j) : j \in 1 .. i} |-> f.fields[name]]

LEMMA FirstFieldsGrow ==
    ASSUME NEW f, NEW i \in Nat \ {0}
    PROVE  With(FirstFields(f, i - 1), FieldName(f, i), Field(f, i)) = FirstFields(f, i)
<1> DEFINE B == {FieldName(f, j) : j \in 1 .. i - 1}
           C == {FieldName(f, j) : j \in 1 .. i}
<1>1. B \cup {FieldName(f, i)} = C
    <2>1. 1 .. i = (1 .. i - 1) \cup {i}
        OBVIOUS
    <2> QED BY <2>1
<1>2. Field(f, i) = f.fields[FieldName(f, i)]
    BY DEF Field, FieldName
<1> HIDE DEF B, C
<1>3. PICK g : g = FirstFields(f, i - 1) /\ g = [name \in B |-> f.fields[name]]
    BY DEF FirstFields, B
<1>4. DOMAIN g = B /\ \A name \in B : g[name] = f.fields[name]
    BY <1>3
<1>5. With(g, FieldName(f, i), Field(f, i)) = [name \in C |-> f.fields[name]]
    BY <1>1, <1>2, <1>4 DEF With
<1> QED BY <1>3, <1>5 DEF FirstFields, C

LEMMA FirstFieldsEnds ==
    ASSUME NEW f, IsFrame(f)
    PROVE  FirstFields(f, 0) = <<>> /\ FirstFields(f, Width(f)) = f.fields
<1>1. {FieldName(f, j) : j \in 1 .. 0} = {}
    OBVIOUS
<1>2. [name \in {} |-> f.fields[name]] = <<>>
    OBVIOUS
<1>3. DOMAIN Names(f) = 1 .. Width(f)
    BY BodyOf, NamesOfTypes DEF Names, Width
<1>4. FieldNames(f.type) = {FieldName(f, j) : j \in 1 .. Width(f)}
    BY <1>3 DEF FieldNames, FieldName, Names
<1>5. f.fields = [name \in FieldNames(f.type) |-> f.fields[name]]
    BY DEF IsFrame
<1> QED BY <1>1, <1>2, <1>4, <1>5 DEF FirstFields


-----------------------------------------------------------------------------
(* The numbers of items that are read are those that were written.         *)

LEMMA CountIs ==
    ASSUME NEW f, Sound(f), NEW i \in 1 .. Width(f), IsList(FieldKind(f, i)),
           NEW r \in Stream, Follows(r, Parts(f)[i]), Len(r) >= NumLen,
           NEW c, c.rest = r
    PROVE  Count(c) = Len(Field(f, i))
<1>1. IsFrame(f)
    BY DEF Sound
<1>2. PICK n : n = Len(Field(f, i)) /\ n \in Nat /\ n < Mod
    BY SmallLists
<1>3. PICK e : e = Parts(f)[i]
    OBVIOUS
<1>4. FieldKind(f, i) \in Kinds /\ Field(f, i) \in Values(FieldKind(f, i))
    BY <1>1, FieldSizes
<1>5. e = Encode1(FieldKind(f, i), Field(f, i))
    BY <1>1, <1>3, FieldOf DEF FieldKind, Field
<1>6. e[1] = n % Mod /\ e \in Stream /\ Len(e) = FieldSize(f, i)
    BY <1>2, <1>4, <1>5, Written DEF FieldSize
<1>7. FieldSize(f, i) \in Nat /\ NumLen <= FieldSize(f, i)
    BY <1>4, SizeType DEF FieldSize
<1>8. Len(r) \in Nat /\ 1 \in 1 .. Len(r) /\ 1 <= Len(e)
    BY <1>6, <1>7, Widths DEF Stream
<1>9. r[1] = e[1]
    BY <1>3, <1>8 DEF Follows
<1>10. Head(r) = r[1]
    BY <1>8 DEF Stream
<1>11. n % Mod = n
    BY <1>2, Widths
<1> QED BY <1>2, <1>6, <1>9, <1>10, <1>11 DEF Count

(* What the cursor has counted of a frame with a payload.                  *)
Counted(f, i, a, b) ==
    /\ f.type = "SnekRouted" => a = 0
    /\ f.type = "TreeRouted" =>
           /\ i = 0 => a = 0 /\ b = 0
           /\ i = 1 => a = 1 /\ b = Len(Field(f, 1))
           /\ i = 2 => a = 2 /\ b = Len(Field(f, 1)) + Len(Field(f, 2))

LEMMA NumberIs ==
    ASSUME NEW f, Sound(f), NEW i \in 1 .. Width(f),
           NEW r \in Stream, Follows(r, Parts(f)[i]), Len(r) >= Start(FieldKind(f, i)),
           NEW a, NEW b, Counted(f, i - 1, a, b)
    PROVE  Number(Cursor(r, FirstFields(f, i - 1), DeclaredLength(f), a, b),
                  DecodedKind(EncodedType[f.type], FieldName(f, i)))
              = Items(FieldKind(f, i), Field(f, i))
<1> DEFINE c == Cursor(r, FirstFields(f, i - 1), DeclaredLength(f), a, b)
           read == DecodedKind(EncodedType[f.type], FieldName(f, i))
<1>1. IsFrame(f) /\ f.type \in Types
    BY BodyOf DEF Sound
<1>2. FieldKind(f, i) \in Kinds
    BY <1>1, FieldSizes
<1>3. c.rest = r /\ c.fields = FirstFields(f, i - 1)
    BY DEF Cursor
<1> HIDE DEF c
<1>4. CASE FieldKind(f, i) \in {"key", "word"}
    <2>1. read = FieldKind(f, i)
        BY <1>1, <1>4, OtherKinds, TreeRoutedNames
    <2> QED BY <1>4, <2>1 DEF Number, Items, c
<1>5. CASE FieldKind(f, i) = "payload"
    <2>1. i = 3 /\ f.type \in {"TreeRouted", "SnekRouted"} /\ read = FieldKind(f, i)
        BY <1>1, <1>5, OtherKinds
    <2>2. PICK p : p = PayloadLength(c) /\ p = Len(Field(f, 3)) /\ p \in Nat /\ p < Mod
        BY <1>5, <2>1, PayloadIs DEF Counted, c
    <2>3. p % Mod = p
        BY <2>2, Widths
    <2>4. Number(c, read) = p
        BY <1>5, <2>1, <2>2, <2>3 DEF Number
    <2> QED BY <1>5, <2>1, <2>2, <2>4 DEF Items, c
<1>6. CASE IsList(FieldKind(f, i)) /\ read = FieldKind(f, i)
    <2>1. FieldKind(f, i) \in {"path", "signatures"}
        BY <1>2, <1>6 DEF Kinds, IsList
    <2>2. Start(FieldKind(f, i)) = NumLen
        BY <1>6 DEF Start
    <2>3. Count(c) = Len(Field(f, i))
        BY <1>3, <1>6, <2>2, CountIs
    <2>4. Number(c, read) = Count(c)
        BY <1>6, <2>1 DEF Number
    <2> QED BY <2>1, <2>3, <2>4 DEF Items, c
<1>7. CASE IsList(FieldKind(f, i)) /\ read # FieldKind(f, i)
    <2>1. f.type = "TreeRouted" /\ i = 2
        BY <1>1, <1>7, OtherKinds
    <2>2. /\ FieldName(f, 1) = "destination" /\ FieldName(f, 2) = "source"
          /\ FieldKind(f, 2) = "path"
        BY <2>1, TreeRoutedNames
    <2>3. read = "path_as_destination"
        BY <1>1, <2>1, <2>2, DecodedAsEncoded DEF DecodedKind
    <2>4. "destination" \in {FieldName(f, j) : j \in 1 .. i - 1}
        BY <2>1, <2>2
    <2>5. c.fields["destination"] = f.fields["destination"]
        BY <1>3, <2>4 DEF FirstFields
    <2>6. Number(c, read) = Len(c.fields["destination"])
        BY <2>3 DEF Number
    <2>7. Field(f, 2) = f.fields["source"]
        BY <2>2 DEF Field, FieldName
    <2> QED BY <2>1, <2>2, <2>5, <2>6, <2>7 DEF Items, Sound, c
<1> QED BY <1>2, <1>4, <1>5, <1>6, <1>7 DEF Kinds, IsList

(* The cursor after i fields that are all there.                           *)
OnField(c, f, r, i) ==
    \E a, b :
        /\ Counted(f, i, a, b)
        /\ c = Cursor(Skip(r, Upto(f, i)), FirstFields(f, i), DeclaredLength(f), a, b)

LEMMA NextField ==
    ASSUME NEW f, Sound(f), NEW r \in Stream, Follows(r, Body(f)), NEW i \in 1 .. Width(f),
           NEW c, Upto(f, i - 1) <= Len(r), OnField(c, f, r, i - 1)
    PROVE  LET d == Decode1(c, FieldName(f, i), DecodedKind(EncodedType[f.type], FieldName(f, i)))
           IN  IF Upto(f, i) <= Len(r) THEN OnField(d, f, r, i) ELSE Cut(d)
<1> DEFINE read == DecodedKind(EncodedType[f.type], FieldName(f, i))
<1>1. IsFrame(f) /\ f.type \in Types
    BY BodyOf DEF Sound
<1>2. PICK a, b :
          /\ Counted(f, i - 1, a, b)
          /\ c = Cursor(Skip(r, Upto(f, i - 1)), FirstFields(f, i - 1), DeclaredLength(f), a, b)
    BY DEF OnField
<1>3. PICK u, n : u = Upto(f, i - 1) /\ n = FieldSize(f, i)
    OBVIOUS
<1>4. u \in Nat /\ n \in Nat /\ Upto(f, i) = u + n /\ u + n <= Len(Body(f)) /\ Len(Body(f)) \in Nat
      /\ \A x \in 1 .. n : Body(f)[u + x] = Parts(f)[i][x]
    BY <1>1, <1>3, BodyParts, BodyEnds
<1>5. PICK s : s = Skip(r, u)
    OBVIOUS
<1>6. s \in Stream /\ Len(s) = Len(r) - u /\ \A x \in 1 .. Len(r) - u : s[x] = r[u + x]
    <2>1. IsTail(s, r, u)
        BY <1>3, <1>4, <1>5, SkipIs
    <2> QED BY <2>1 DEF IsTail
<1>7. PICK kind, v : kind = FieldKind(f, i) /\ v = Field(f, i)
    OBVIOUS
<1>8. kind \in Kinds /\ v \in Values(kind) /\ n = Size(kind, v)
    BY <1>1, <1>3, <1>7, FieldSizes DEF FieldSize
<1>9. Parts(f)[i] = Encode1(kind, v) /\ Len(Parts(f)[i]) = n
    <2>1. Parts(f)[i] = Encode1(kind, v)
        BY <1>1, <1>7, FieldOf DEF FieldKind, Field
    <2>2. Len(Encode1(kind, v)) = Size(kind, v)
        BY <1>8, Written
    <2> QED BY <1>8, <2>1, <2>2
<1>10. Follows(s, Parts(f)[i])
    <2>1. SUFFICES ASSUME NEW x \in 1 .. Len(s), x <= n PROVE s[x] = Parts(f)[i][x]
        BY <1>9 DEF Follows
    <2>2. Len(r) \in Nat
        BY DEF Stream
    <2>3. PICK y : y = u + x
        OBVIOUS
    <2>4. y \in 1 .. Len(r) /\ y <= Len(Body(f)) /\ x \in 1 .. n /\ x \in 1 .. Len(r) - u
        BY <1>4, <1>6, <2>1, <2>2, <2>3
    <2>5. r[y] = Body(f)[y]
        BY <2>4 DEF Follows
    <2> QED BY <1>4, <1>6, <2>3, <2>4, <2>5
<1>11. Same(kind, read)
    BY <1>1, <1>7, FieldOf, SameKinds DEF FieldKind, FieldName
<1>12. PICK g, l : g = FirstFields(f, i - 1) /\ l = DeclaredLength(f)
    OBVIOUS
<1>13. c = Cursor(s, g, l, a, b)
    BY <1>2, <1>3, <1>5, <1>12
<1>14. Len(s) >= Start(kind) => Number(Cursor(s, g, l, a, b), read) = Items(kind, v)
    BY <1>2, <1>6, <1>7, <1>10, <1>12, NumberIs
<1>15. kind = "payload" => ~ (PayloadLength(Cursor(s, g, l, a, b)) < 0)
    <2>1. SUFFICES ASSUME kind = "payload" PROVE ~ (PayloadLength(Cursor(s, g, l, a, b)) < 0)
        OBVIOUS
    <2>2. i = 3 /\ f.type \in {"TreeRouted", "SnekRouted"}
        BY <1>1, <1>7, <2>1, OtherKinds
    <2>3. Counted(f, 2, a, b) /\ 3 \in 1 .. Width(f) /\ FieldKind(f, 3) = "payload"
        <3>1. PICK j : j = i - 1
            OBVIOUS
        <3>2. j = 2 /\ Counted(f, j, a, b)
            BY <1>2, <2>2, <3>1
        <3>3. Counted(f, 2, a, b)
            BY <3>2
        <3> QED BY <1>7, <2>1, <2>2, <3>3
    <2>4. /\ f.type = "SnekRouted" => a = 0
          /\ f.type = "TreeRouted" => a = 2 /\ b = Len(Field(f, 1)) + Len(Field(f, 2))
        BY <2>3 DEF Counted
    <2>5. PayloadLength(Cursor(s, g, DeclaredLength(f), a, b)) \in Nat
        BY <2>3, <2>4, PayloadIs
    <2> QED BY <1>12, <2>5
<1>16. PICK d, name : d = Decode1(c, name, read) /\ name = FieldName(f, i)
    OBVIOUS
<1>17. Follows(s, Encode1(kind, v))
    BY <1>9, <1>10
<1> HIDE DEF read
<1>18. IF Len(s) >= Size(kind, v)
       THEN d = Cursor(Skip(s, Size(kind, v)), With(g, name, v), l,
                       IF IsList(kind) THEN a + 1 ELSE a,
                       IF IsList(kind) THEN b + Count(Cursor(s, g, l, a, b)) ELSE b)
       ELSE Cut(d)
    BY <1>6, <1>8, <1>11, <1>13, <1>14, <1>15, <1>16, <1>17, FieldRead
<1>19. Len(r) \in Nat /\ (Upto(f, i) <= Len(r) <=> Len(s) >= Size(kind, v))
    BY <1>4, <1>6, <1>8 DEF Stream
<1>20. CASE Upto(f, i) <= Len(r)
    <2>1. Skip(s, Size(kind, v)) = Skip(r, Upto(f, i))
        BY <1>4, <1>5, <1>8, <1>20, SkipTwice
    <2>2. With(g, name, v) = FirstFields(f, i)
        BY <1>7, <1>12, <1>16, FirstFieldsGrow
    <2>3. PICK x, y : x = (IF IsList(kind) THEN a + 1 ELSE a)
                      /\ y = IF IsList(kind) THEN b + Count(Cursor(s, g, l, a, b)) ELSE b
        OBVIOUS
    <2>4. Counted(f, i, x, y)
        <3>1. ASSUME IsList(kind) PROVE Count(Cursor(s, g, l, a, b)) = Len(v)
            <4>1. Start(kind) = NumLen /\ Len(s) >= NumLen
                BY <1>8, <1>19, <1>20, <3>1, SizeType
            <4>2. Cursor(s, g, l, a, b).rest = s
                BY DEF Cursor
            <4> QED BY <1>6, <1>7, <1>10, <3>1, <4>1, <4>2, CountIs
        <3>2. CASE f.type = "SnekRouted"
            <4>1. a = 0
                BY <1>2, <3>2 DEF Counted
            <4>2. ~ IsList(kind)
                BY <1>7, <3>2, SnekRoutedNames DEF IsList
            <4> QED BY <2>3, <3>2, <4>1, <4>2 DEF Counted
        <3>3. CASE f.type = "TreeRouted"
            <4>1. i = 1 \/ i = 2 \/ i = 3
                BY <3>3, TreeRoutedNames
            <4>2. i # 3 => IsList(kind)
                BY <1>7, <3>3, <4>1, TreeRoutedNames DEF IsList
            <4>3. CASE i = 1
                <5>1. a = 0 /\ b = 0 /\ x = a + 1 /\ y = b + Len(v) /\ Len(v) \in Nat
                    BY <1>2, <1>7, <2>3, <3>1, <3>3, <4>2, <4>3, SmallLists DEF Counted
                <5> QED BY <1>7, <3>3, <4>3, <5>1 DEF Counted
            <4>4. CASE i = 2
                <5>1. a = 1 /\ b = Len(Field(f, 1)) /\ x = a + 1 /\ y = b + Len(v)
                    BY <1>2, <1>7, <2>3, <3>1, <3>3, <4>2, <4>4 DEF Counted
                <5> QED BY <1>7, <3>3, <4>4, <5>1 DEF Counted
            <4>5. CASE i = 3
                BY <3>3, <4>5 DEF Counted
            <4> QED BY <4>1, <4>3, <4>4, <4>5
        <3> QED BY <3>2, <3>3 DEF Counted
    <2>5. d = Cursor(Skip(r, Upto(f, i)), FirstFields(f, i), DeclaredLength(f), x, y)
        BY <1>12, <1>18, <1>19, <1>20, <2>1, <2>2, <2>3
    <2>6. OnField(d, f, r, i)
        BY <2>4, <2>5 DEF OnField
    <2> QED BY <1>16, <1>20, <2>6 DEF read
<1>21. CASE ~ (Upto(f, i) <= Len(r))
    BY <1>16, <1>18, <1>19, <1>21 DEF read
<1> QED BY <1>20, <1>21


LEMMA AllFields ==
    ASSUME NEW f, Sound(f), NEW r \in Stream, Follows(r, Body(f)),
           NEW c, Reads(c, EncodedType[f.type], r, DeclaredLength(f), Width(f))
    PROVE  \A i \in 0 .. Width(f) :
               IF Upto(f, i) <= Len(r) THEN OnField(c[i], f, r, i) ELSE Cut(c[i])
<1> DEFINE Fine(i) == IF Upto(f, i) <= Len(r) THEN OnField(c[i], f, r, i) ELSE Cut(c[i])
           Bad == {i \in Nat : i \in 0 .. Width(f) /\ ~ Fine(i)}
           t == EncodedType[f.type]
<1>1. IsFrame(f) /\ f.type \in Types /\ Width(f) \in Nat
    BY BodyOf DEF Sound
<1>2. SUFFICES ASSUME Bad # {} PROVE FALSE
    BY <1>1
<1>3. PICK k \in Bad : \A j \in Bad : k <= j
    BY <1>2, LeastNat
<1>4. /\ c[0] = Cursor(r, <<>>, DeclaredLength(f), 0, 0)
      /\ \A i \in 1 .. Width(f) :
             c[i] = Decode1(c[i - 1], DecodedFields[t][i], DecodedKind(t, DecodedFields[t][i]))
    BY <1>1, ReadsSteps
<1>5. Fine(0)
    <2>1. Upto(f, 0) = 0 /\ FirstFields(f, 0) = <<>>
        BY <1>1, BodyEnds, FirstFieldsEnds
    <2>2. Skip(r, 0) = r
        <3>1. IsTail(Skip(r, 0), r, 0) /\ Len(r) \in Nat
            BY SkipIs DEF Stream
        <3>2. /\ Skip(r, 0) \in Stream /\ Len(Skip(r, 0)) = Len(r)
              /\ \A b \in 1 .. Len(Skip(r, 0)) : Skip(r, 0)[b] = r[b]
            BY <3>1 DEF IsTail
        <3> QED BY <3>2, SameStream
    <2>3. Counted(f, 0, 0, 0)
        BY DEF Counted
    <2>4. OnField(c[0], f, r, 0)
        BY <1>4, <2>1, <2>2, <2>3 DEF OnField
    <2> QED BY <2>1, <2>4 DEF Stream
<1>6. k \in 1 .. Width(f) /\ k - 1 \in Nat /\ k - 1 \in 0 .. Width(f) /\ k - 1 \notin Bad
    <2>1. k # 0
        BY <1>3, <1>5
    <2> QED BY <1>1, <1>3, <2>1
<1>7. Fine(k - 1) /\ ~ Fine(k)
    BY <1>3, <1>6
<1>8. /\ Upto(f, k - 1) \in Nat /\ Upto(f, k) \in Nat /\ FieldSize(f, k) \in Nat
      /\ Upto(f, k) = Upto(f, k - 1) + FieldSize(f, k)
    BY <1>1, <1>6, BodyParts
<1>9. c[k] = Decode1(c[k - 1], FieldName(f, k), DecodedKind(t, FieldName(f, k)))
    BY <1>1, <1>4, <1>6, DecodedAsEncoded DEF FieldName, Names
<1>10. CASE Upto(f, k - 1) <= Len(r)
    <2>1. PICK p : p = c[k - 1] /\ OnField(p, f, r, k - 1)
        BY <1>7, <1>10
    <2>2. PICK d : d = Decode1(p, FieldName(f, k), DecodedKind(EncodedType[f.type], FieldName(f, k)))
        OBVIOUS
    <2>3. IF Upto(f, k) <= Len(r) THEN OnField(d, f, r, k) ELSE Cut(d)
        BY <1>6, <1>10, <2>1, <2>2, NextField
    <2> QED BY <1>7, <1>9, <2>1, <2>2, <2>3
<1>11. CASE ~ (Upto(f, k - 1) <= Len(r))
    <2>1. Cut(c[k - 1]) /\ ~ (Upto(f, k) <= Len(r))
        BY <1>7, <1>8, <1>11 DEF Stream
    <2>2. PICK p : p = c[k - 1]
        OBVIOUS
    <2>3. c[k] = [p EXCEPT !.ok = FALSE]
        <3>1. ~ p.ok
            BY <2>1, <2>2 DEF Cut
        <3> QED BY <1>9, <2>2, <3>1 DEF Decode1
    <2>4. Cut(c[k])
        BY <2>1, <2>2, <2>3 DEF Cut
    <2> QED BY <1>7, <2>1, <2>4
<1> QED BY <1>10, <1>11

(* The fields of a frame: read as written when they are all there, and     *)
(* found to be cut off when they are not.                                  *)
LEMMA FieldsDecoded ==
    ASSUME NEW f, Sound(f), NEW r \in Stream, Follows(r, Body(f))
    PROVE  LET c == DecodeFields(EncodedType[f.type], r, DeclaredLength(f))
           IN  /\ Len(Body(f)) <= Len(r) =>
                      /\ c.ok = TRUE /\ c.fields = f.fields
                      /\ c.rest = Skip(r, Len(Body(f)))
               /\ Len(r) < Len(Body(f)) => c.ok = FALSE
<1> DEFINE t == EncodedType[f.type]
<1>1. IsFrame(f) /\ f.type \in Types /\ Width(f) \in Nat
    BY BodyOf DEF Sound
<1>2. DecodedFields[t] = Names(f) /\ Len(DecodedFields[t]) = Width(f)
    BY <1>1, DecodedAsEncoded DEF Names, Width
<1>3. PICK c : /\ Reads(c, t, r, DeclaredLength(f), Width(f))
               /\ DecodeFields(t, r, DeclaredLength(f)) = c[Width(f)]
    BY <1>1, <1>2, DecodeFieldsIs
<1>4. PICK d : d = c[Width(f)]
    OBVIOUS
<1>5. IF Upto(f, Width(f)) <= Len(r) THEN OnField(d, f, r, Width(f)) ELSE Cut(d)
    BY <1>1, <1>3, <1>4, AllFields
<1>6. /\ Upto(f, Width(f)) = Len(Body(f)) /\ Len(Body(f)) \in Nat
      /\ FirstFields(f, Width(f)) = f.fields
    BY <1>1, BodyEnds, FirstFieldsEnds
<1>7. ASSUME Len(Body(f)) <= Len(r)
      PROVE  d.ok = TRUE /\ d.fields = f.fields /\ d.rest = Skip(r, Len(Body(f)))
    <2>1. PICK a, b : d = Cursor(Skip(r, Len(Body(f))), f.fields, DeclaredLength(f), a, b)
        BY <1>5, <1>6, <1>7 DEF OnField
    <2> QED BY <2>1 DEF Cursor
<1>8. ASSUME Len(r) < Len(Body(f))
      PROVE  d.ok = FALSE
    <2>1. ~ (Len(Body(f)) <= Len(r))
        BY <1>6, <1>8 DEF Stream
    <2> QED BY <1>5, <1>6, <2>1 DEF Cut
<1> QED BY <1>3, <1>4, <1>7, <1>8


-----------------------------------------------------------------------------
(* A whole frame: the header and the body.                                 *)

FrameHeader(f) ==
    Bytes(Magic, MagicLen) \o <<Version, EncodedType[f.type]>> \o Bytes(0, ExtraLen)
    \o Bytes(DeclaredLength(f) % Mod, NumLen)

IsHeaderOf(h, f) ==
    /\ h \in Stream /\ Len(h) = HeaderLen
    /\ \A b \in 1 .. MagicLen : h[b] = Magic
    /\ h[MagicLen + 1] = Version
    /\ h[MagicLen + 2] = EncodedType[f.type]
    /\ h[HeaderLen] = DeclaredLength(f) % Mod

LEMMA HeaderIs ==
    ASSUME NEW f, IsFrame(f)
    PROVE  IsHeaderOf(FrameHeader(f), f)
<1>1. f.type \in Types /\ DeclaredLength(f) \in Nat
    BY BodyOf, DeclaredIs
<1>2. PICK m, t, x, n :
          /\ m = Bytes(Magic, MagicLen) /\ t = <<Version, EncodedType[f.type]>>
          /\ x = Bytes(0, ExtraLen) /\ n = Bytes(DeclaredLength(f) % Mod, NumLen)
    OBVIOUS
<1>3. m \in Stream /\ Len(m) = MagicLen /\ \A b \in 1 .. MagicLen : m[b] = Magic
    <2>1. Magic \in Int
        BY DEF Magic
    <2> QED BY <1>2, <2>1, BytesAre, Widths
<1>4. t \in Stream /\ Len(t) = 2 /\ t[1] = Version /\ t[2] = EncodedType[f.type]
    <2>1. Version \in Int /\ EncodedType[f.type] \in Int
        BY <1>1, DecodedAsEncoded DEF Version
    <2> QED BY <1>2, <2>1 DEF Stream
<1>5. x \in Stream /\ Len(x) = ExtraLen
    BY <1>2, BytesAre, Widths
<1>6. n \in Stream /\ Len(n) = NumLen /\ n[NumLen] = DeclaredLength(f) % Mod
    <2>1. DeclaredLength(f) % Mod \in Int /\ NumLen \in 1 .. NumLen
        BY <1>1, Widths
    <2> QED BY <1>2, <2>1, BytesAre, Widths
<1>7. PICK p : p = m \o t
    OBVIOUS
<1>8. /\ p \in Stream /\ Len(p) = MagicLen + 2
      /\ \A b \in 1 .. MagicLen : p[b] = Magic
      /\ p[MagicLen + 1] = Version /\ p[MagicLen + 2] = EncodedType[f.type]
    <2>1. /\ p \in Stream /\ Len(p) = Len(m) + Len(t)
          /\ \A i \in 1 .. Len(m) : p[i] = m[i]
          /\ \A i \in 1 .. Len(t) : p[Len(m) + i] = t[i]
        <3>1. m \in Stream /\ t \in Stream
            BY <1>3, <1>4
        <3> QED BY <1>7, <3>1, HeadAndTail
    <2>2. p[MagicLen + 1] = t[1] /\ p[MagicLen + 2] = t[2]
        BY <1>3, <1>4, <2>1
    <2> QED BY <1>3, <1>4, <2>1, <2>2
<1>9. PICK q : q = p \o x
    OBVIOUS
<1>10. /\ q \in Stream /\ Len(q) = MagicLen + 2 + ExtraLen
       /\ \A b \in 1 .. MagicLen : q[b] = Magic
       /\ q[MagicLen + 1] = Version /\ q[MagicLen + 2] = EncodedType[f.type]
    <2>1. /\ q \in Stream /\ Len(q) = Len(p) + Len(x)
          /\ \A i \in 1 .. Len(p) : q[i] = p[i]
        BY <1>5, <1>8, <1>9, HeadAndTail
    <2>2. /\ \A b \in 1 .. MagicLen : b \in 1 .. MagicLen + 2
          /\ MagicLen + 1 \in 1 .. MagicLen + 2 /\ MagicLen + 2 \in 1 .. MagicLen + 2
        BY Widths
    <2> QED BY <1>5, <1>8, <2>1, <2>2
<1>11. PICK h : h = q \o n
    OBVIOUS
<1>12. /\ h \in Stream /\ Len(h) = HeaderLen
       /\ \A b \in 1 .. MagicLen : h[b] = Magic
       /\ h[MagicLen + 1] = Version /\ h[MagicLen + 2] = EncodedType[f.type]
       /\ h[HeaderLen] = DeclaredLength(f) % Mod
    <2>1. /\ h \in Stream /\ Len(h) = Len(q) + Len(n)
          /\ \A i \in 1 .. Len(q) : h[i] = q[i]
          /\ \A i \in 1 .. Len(n) : h[Len(q) + i] = n[i]
        BY <1>6, <1>10, <1>11, HeadAndTail
    <2>2. /\ \A b \in 1 .. MagicLen : b \in 1 .. MagicLen + 2 + ExtraLen
          /\ MagicLen + 1 \in 1 .. MagicLen + 2 + ExtraLen
          /\ MagicLen + 2 \in 1 .. MagicLen + 2 + ExtraLen
          /\ NumLen \in 1 .. NumLen
          /\ MagicLen + 2 + ExtraLen + NumLen = HeaderLen
        BY Widths DEF HeaderLen
    <2>3. h[Len(q) + NumLen] = n[NumLen] /\ Len(q) + NumLen = HeaderLen
        BY <1>6, <1>10, <2>1, <2>2
    <2> QED BY <1>6, <1>10, <2>1, <2>2, <2>3
<1>13. FrameHeader(f) = h
    BY <1>2, <1>7, <1>9, <1>11 DEF FrameHeader
<1> QED BY <1>12, <1>13 DEF IsHeaderOf

IsEncodingOf(e, f) ==
    /\ e \in Stream /\ Len(e) = HeaderLen + Len(Body(f))
    /\ \A b \in 1 .. MagicLen : e[b] = Magic
    /\ e[MagicLen + 1] = Version
    /\ e[MagicLen + 2] = EncodedType[f.type]
    /\ e[HeaderLen] = DeclaredLength(f) % Mod
    /\ \A b \in 1 .. Len(Body(f)) : e[HeaderLen + b] = Body(f)[b]

LEMMA EncodingIs ==
    ASSUME NEW f, IsFrame(f)
    PROVE  IsEncodingOf(Encode(f), f)
<1>1. PICK h : h = FrameHeader(f) /\ IsHeaderOf(h, f)
    BY HeaderIs
<1>2. PICK d : d = Body(f) /\ d \in Stream
    BY BodyOf
<1>3. PICK e : e = h \o d
    OBVIOUS
<1>4. Encode(f) = e
    BY <1>1, <1>2, <1>3 DEF Encode, FrameHeader
<1>5. h \in Stream /\ Len(h) = HeaderLen
    BY <1>1 DEF IsHeaderOf
<1>6. /\ e \in Stream /\ Len(e) = Len(h) + Len(d)
      /\ \A i \in 1 .. Len(h) : e[i] = h[i]
      /\ \A i \in 1 .. Len(d) : e[Len(h) + i] = d[i]
    BY <1>2, <1>3, <1>5, HeadAndTail
<1>7. /\ \A b \in 1 .. MagicLen : b \in 1 .. HeaderLen
      /\ MagicLen + 1 \in 1 .. HeaderLen /\ MagicLen + 2 \in 1 .. HeaderLen
      /\ HeaderLen \in 1 .. HeaderLen
    BY Widths
<1> QED BY <1>1, <1>2, <1>4, <1>5, <1>6, <1>7 DEF IsHeaderOf, IsEncodingOf

(* What the decoder makes of a buffer that begins with a frame the format  *)
(* can carry, or with the beginning of one.                                *)
LEMMA FrameDecoded ==
    ASSUME NEW f, Sound(f), NEW src \in Stream, Follows(src, Encode(f))
    PROVE  /\ Len(src) < HeaderLen =>
                  Decode(src).result = "none" /\ Decode(src).rest = src
           /\ Len(src) >= Len(Encode(f)) =>
                  /\ Decode(src).result = "frame" /\ Decode(src).frame = f
                  /\ Decode(src).rest = Skip(src, Len(Encode(f)))
           /\ HeaderLen <= Len(src) /\ Len(src) < Len(Encode(f)) =>
                  /\ Decode(src).result \in {"error", "panic"}
                  /\ Decode(src).result = "panic" => f.type = "TreeAnnouncement"
<1>1. IsFrame(f) /\ f.type \in Types /\ Len(Body(f)) \in Nat /\ Len(src) \in Nat
    BY BodyOf, BodyEnds DEF Sound, Stream
<1>2. PICK e : e = Encode(f) /\ IsEncodingOf(e, f)
    BY <1>1, EncodingIs
<1>3. /\ e \in Stream /\ Len(e) = HeaderLen + Len(Body(f))
      /\ \A b \in 1 .. MagicLen : e[b] = Magic
      /\ e[MagicLen + 1] = Version
      /\ e[MagicLen + 2] = EncodedType[f.type]
      /\ e[HeaderLen] = DeclaredLength(f) % Mod
      /\ \A b \in 1 .. Len(Body(f)) : e[HeaderLen + b] = Body(f)[b]
    BY <1>2 DEF IsEncodingOf
<1>4. \A b \in 1 .. Len(src) : b <= Len(e) => src[b] = e[b]
    BY <1>2 DEF Follows
<1>5. Len(src) >= MagicLen => ~ \E i \in 1 .. MagicLen : src[i] # Magic
    <2>1. SUFFICES ASSUME Len(src) >= MagicLen, NEW i \in 1 .. MagicLen PROVE src[i] = Magic
        OBVIOUS
    <2>2. i \in 1 .. Len(src) /\ i <= Len(e)
        BY <1>1, <1>3, <2>1, Widths
    <2> QED BY <1>3, <1>4, <2>2
<1>6. CASE Len(src) < HeaderLen
    <2>1. Decode(src) = Outcome("none", src)
        <3>1. CASE Len(src) < MagicLen
            BY <3>1 DEF Decode
        <3>2. CASE ~ (Len(src) < MagicLen)
            <4>1. ~ \E i \in 1 .. MagicLen : src[i] # Magic
                BY <1>1, <1>5, <3>2, Widths
            <4> QED BY <1>6, <3>2, <4>1 DEF Decode
        <3> QED BY <3>1, <3>2
    <2>2. Decode(src).result = "none" /\ Decode(src).rest = src
        BY <2>1 DEF Outcome
    <2> QED BY <1>1, <1>2, <1>3, <1>6, <2>2, Widths
<1>7. CASE HeaderLen <= Len(src)
    <2>1. Decode(src) = DecodeBody(src)
        <3>1. ~ (Len(src) < MagicLen) /\ ~ (Len(src) < HeaderLen)
            BY <1>1, <1>7, Widths
        <3> QED BY <1>1, <1>5, <3>1, Widths DEF Decode
    <2>2. src[MagicLen + 1] = Version /\ src[MagicLen + 2] = EncodedType[f.type]
          /\ src[HeaderLen] = DeclaredLength(f) % Mod
        <3>1. \A b \in 1 .. HeaderLen : src[b] = e[b]
            BY <1>1, <1>3, <1>4, <1>7, Widths
        <3>2. MagicLen + 1 \in 1 .. HeaderLen /\ MagicLen + 2 \in 1 .. HeaderLen
              /\ HeaderLen \in 1 .. HeaderLen
            BY Widths
        <3> QED BY <1>3, <3>1, <3>2
    <2>3. PICK l : l = DeclaredLength(f)
        OBVIOUS
    <2>4. l \in Nat /\ l >= HeaderLen /\ l < Mod /\ l <= HeaderLen + Len(Body(f))
          /\ (f.type # "TreeAnnouncement" => l = HeaderLen + Len(Body(f)))
        BY <1>1, <2>3, DeclaredIs DEF Sound
    <2>5. (l % Mod) % Mod = l
        BY <2>4, Widths
    <2>6. PICK r : r = Skip(src, HeaderLen)
        OBVIOUS
    <2>7. r \in Stream /\ Len(r) = Len(src) - HeaderLen
          /\ \A b \in 1 .. Len(src) - HeaderLen : r[b] = src[HeaderLen + b]
        <3>1. IsTail(r, src, HeaderLen)
            BY <1>7, <2>6, SkipIs, Widths
        <3> QED BY <3>1 DEF IsTail
    <2>8. Follows(r, Body(f))
        <3>1. SUFFICES ASSUME NEW b \in 1 .. Len(r), b <= Len(Body(f)) PROVE r[b] = Body(f)[b]
            BY DEF Follows
        <3>2. PICK y : y = HeaderLen + b
            OBVIOUS
        <3>3. y \in 1 .. Len(src) /\ y <= Len(e) /\ b \in 1 .. Len(Body(f))
              /\ b \in 1 .. Len(src) - HeaderLen
            BY <1>1, <1>3, <2>7, <3>1, <3>2, Widths
        <3>4. src[y] = e[y]
            BY <1>4, <3>3
        <3> QED BY <1>3, <2>7, <3>2, <3>3, <3>4
    <2>9. PICK c : c = DecodeFields(EncodedType[f.type], r, l)
        OBVIOUS
    <2>10. /\ Len(Body(f)) <= Len(r) =>
                  /\ c.ok = TRUE /\ c.fields = f.fields
                  /\ c.rest = Skip(r, Len(Body(f)))
           /\ Len(r) < Len(Body(f)) => c.ok = FALSE
        BY <2>3, <2>7, <2>8, <2>9, FieldsDecoded
    <2>11. EncodedType[f.type] \in DOMAIN DecodedType /\ DecodedType[EncodedType[f.type]] = f.type
        BY <1>1, DecodedAsEncoded, TypesNumbered
    <2>12. DecodeBody(src) =
               IF Len(r) < l - HeaderLen THEN Outcome("error", r)
               ELSE IF ~ c.ok THEN Outcome("panic", r)
               ELSE [result |-> "frame", rest |-> c.rest,
                     frame |-> [type |-> f.type, fields |-> c.fields]]
        <3>1. ~ (l < HeaderLen)
            BY <2>4, Widths
        <3>2. c = DecodeFields(src[MagicLen + 2], Skip(src, HeaderLen), src[HeaderLen] % Mod)
            BY <2>2, <2>3, <2>5, <2>6, <2>9
        <3>3. src[HeaderLen] % Mod = l
            BY <2>2, <2>3, <2>5
        <3> QED BY <2>2, <2>6, <2>11, <3>1, <3>2, <3>3 DEF DecodeBody
    <2>13. CASE Len(src) >= Len(e)
        <3>1. Len(Body(f)) <= Len(r) /\ ~ (Len(r) < l - HeaderLen)
            BY <1>1, <1>3, <2>4, <2>7, <2>13, Widths
        <3>2. Skip(r, Len(Body(f))) = Skip(src, Len(e))
            BY <1>1, <1>3, <2>6, <2>13, SkipTwice, Widths
        <3>3. DecodeBody(src) = [result |-> "frame", rest |-> Skip(src, Len(e)),
                                 frame |-> [type |-> f.type, fields |-> f.fields]]
            BY <2>10, <2>12, <3>1, <3>2
        <3>4. f = [type |-> f.type, fields |-> f.fields]
            BY <1>1 DEF IsFrame
        <3> QED BY <1>1, <1>2, <1>3, <1>7, <2>1, <2>13, <3>3, <3>4, Widths
    <2>14. CASE Len(src) < Len(e)
        <3>1. Len(r) < Len(Body(f))
            <4>1. PICK a, b, h : a = Len(src) /\ b = Len(Body(f)) /\ h = HeaderLen
                OBVIOUS
            <4>2. a \in Nat /\ b \in Nat /\ h \in Nat /\ a < h + b /\ Len(r) = a - h
                BY <1>1, <1>3, <2>7, <2>14, <4>1, Widths
            <4>3. a - h < b
                BY <4>2
            <4> QED BY <4>1, <4>2, <4>3
        <3>2. c.ok = FALSE
            BY <2>10, <3>1
        <3>3. f.type # "TreeAnnouncement" => Len(r) < l - HeaderLen
            BY <1>1, <2>4, <2>7, <3>1, Widths
        <3>4. DecodeBody(src) = IF Len(r) < l - HeaderLen THEN Outcome("error", r)
                                ELSE Outcome("panic", r)
            BY <2>12, <3>2
        <3>5. /\ DecodeBody(src).result \in {"error", "panic"}
              /\ DecodeBody(src).result = "panic" => ~ (Len(r) < l - HeaderLen)
            BY <3>4 DEF Outcome
        <3> QED BY <1>1, <1>2, <1>3, <1>7, <2>1, <2>14, <3>3, <3>5, Widths
    <2> QED BY <1>1, <1>3, <2>13, <2>14, Widths
<1> QED BY <1>1, <1>6, <1>7, Widths


(* Whatever comes after it in the buffer, a frame that the format can      *)
(* carry is decoded to itself, and what comes after it is what is left     *)
(* (wire_frame.rs, encode and decode).                                     *)
THEOREM RoundTrip ==
    ASSUME NEW f \in Proper, NEW after \in Seq(Int)
    PROVE  /\ Decode(Encode(f) \o after).result = "frame"
           /\ Decode(Encode(f) \o after).frame = f
           /\ Decode(Encode(f) \o after).rest = after
<1>1. Sound(f)
    BY SampleAssumption DEF Proper, Sound
<1>2. PICK e : e = Encode(f) /\ e \in Stream
    BY <1>1, EncodingIs DEF Sound, IsEncodingOf
<1>3. PICK src : src = e \o after
    OBVIOUS
<1>4. after \in Stream
    BY DEF Stream
<1>5. /\ src \in Stream /\ Len(src) = Len(e) + Len(after)
      /\ \A i \in 1 .. Len(e) : src[i] = e[i]
      /\ \A i \in 1 .. Len(after) : src[Len(e) + i] = after[i]
    BY <1>2, <1>3, <1>4, HeadAndTail
<1>6. Len(e) \in Nat /\ Len(after) \in Nat /\ Len(src) >= Len(e)
    BY <1>2, <1>4, <1>5 DEF Stream
<1>7. Follows(src, Encode(f))
    <2>1. \A b \in 1 .. Len(src) : b <= Len(e) => b \in 1 .. Len(e)
        BY <1>6
    <2> QED BY <1>2, <1>5, <2>1 DEF Follows
<1>8. /\ Decode(src).result = "frame" /\ Decode(src).frame = f
      /\ Decode(src).rest = Skip(src, Len(e))
    BY <1>1, <1>2, <1>5, <1>6, <1>7, FrameDecoded
<1>9. Skip(src, Len(e)) = after
    <2>1. PICK y : y = Skip(src, Len(e)) /\ IsTail(y, src, Len(e))
        BY <1>5, <1>6, SkipIs
    <2>2. y \in Stream /\ Len(y) = Len(after) /\ \A b \in 1 .. Len(y) : y[b] = after[b]
        BY <1>5, <1>6, <2>1 DEF IsTail
    <2> QED BY <1>4, <2>1, <2>2, SameStream
<1> QED BY <1>2, <1>3, <1>8, <1>9

-----------------------------------------------------------------------------
(* The inductive invariant.  s are the frames sent, p the bytes in the     *)
(* pipe, d those in the buffer, g the frames that came out.                *)

Wire(s) == [j \in 1 .. Len(s) |-> Encode(s[j])]

(* All the bytes written, and where the i-th frame ends in them.           *)
All(s) == Joined(Wire(s), Len(s))
Ends(s, i) == Len(Joined(Wire(s), i))

(* The bytes read.                                                         *)
Received(s, p) == Len(All(s)) - Len(p)

Inside(s, n) == \E i \in 1 .. Len(s) : Ends(s, i - 1) + HeaderLen <= n /\ n < Ends(s, i)

(* The pipe holds the last of the bytes that were written.                 *)
IsPipe(s, p) ==
    /\ p \in Stream /\ Len(p) <= Len(All(s))
    /\ \A b \in 1 .. Len(p) : p[b] = All(s)[Received(s, p) + b]

Match(s, g, n) == \A i \in 1 .. n : g[i] = s[i]

(* All is well: the buffer begins with the next frame.                     *)
Following(s, p, d, g, r, st) ==
    /\ st = "reading" /\ Len(g) <= Len(s) /\ Match(s, g, Len(g))
    /\ d \in Stream /\ Len(d) = Received(s, p) - Ends(s, Len(g))
    /\ \A b \in 1 .. Len(d) : d[b] = All(s)[Ends(s, Len(g)) + b]
    /\ r = FALSE /\ Len(g) < Len(s) => Len(d) < HeaderLen

(* The peer task came to an end at a frame it had a part of.               *)
Halted(s, g, st, t) ==
    /\ st # "reading" /\ t = TRUE
    /\ Len(g) < Len(s) /\ Match(s, g, Len(g))
    /\ st = "panicked" => s[Len(g) + 1].type = "TreeAnnouncement"

(* A frame that the format cannot carry has come up; then all may follow.  *)
Garbled(s, g) ==
    \E j \in 1 .. Len(s) : j <= Len(g) + 1 /\ ~ Sound(s[j]) /\ Match(s, g, j - 1)

IInv ==
    /\ sent \in Seq(Sample) /\ IsPipe(sent, pipe)
    /\ readable \in BOOLEAN /\ torn \in BOOLEAN
    /\ \E S : got \in Seq(S)
    /\ Inside(sent, Received(sent, pipe)) => torn = TRUE
    /\ \/ Following(sent, pipe, buffer, got, readable, state)
       \/ Halted(sent, got, state, torn)
       \/ Garbled(sent, got)

(* Where the i-th frame is in the bytes written.                           *)
IsPlaced(s, i) ==
    /\ Ends(s, i - 1) \in Nat /\ Ends(s, i) = Ends(s, i - 1) + Len(Encode(s[i]))
    /\ Ends(s, i) <= Len(All(s)) /\ Len(Encode(s[i])) \in Nat /\ HeaderLen <= Len(Encode(s[i]))
    /\ \A b \in 1 .. Len(Encode(s[i])) : All(s)[Ends(s, i - 1) + b] = Encode(s[i])[b]

LEMMA EncodingType ==
    ASSUME NEW f \in Sample
    PROVE  Encode(f) \in Stream /\ Len(Encode(f)) \in Nat /\ HeaderLen <= Len(Encode(f))
<1>1. IsFrame(f) /\ Len(Body(f)) \in Nat
    BY SampleAssumption, BodyEnds
<1> QED BY <1>1, EncodingIs, Widths DEF IsEncodingOf

LEMMA WireType ==
    ASSUME NEW s \in Seq(Sample)
    PROVE  /\ Len(s) \in Nat /\ Streams(Wire(s), Len(s))
           /\ \A i \in 1 .. Len(s) : s[i] \in Sample /\ Wire(s)[i] = Encode(s[i])
           /\ All(s) \in Stream /\ Len(All(s)) \in Nat
           /\ Ends(s, 0) = 0 /\ Ends(s, Len(s)) = Len(All(s))
           /\ \A i \in 0 .. Len(s) : Ends(s, i) \in Nat /\ Ends(s, i) <= Len(All(s))
<1>1. Len(s) \in Nat /\ \A i \in 1 .. Len(s) : s[i] \in Sample /\ Wire(s)[i] = Encode(s[i])
    BY DEF Wire
<1>2. Streams(Wire(s), Len(s))
    BY <1>1, EncodingType DEF Streams
<1>3. All(s) \in Stream /\ \A i \in 0 .. Len(s) : Joined(Wire(s), i) \in Stream
    BY <1>1, <1>2, JoinedType DEF All
<1>4. Len(All(s)) \in Nat /\ \A i \in 0 .. Len(s) : Len(Joined(Wire(s), i)) \in Nat
    BY <1>3 DEF Stream
<1>5. Joined(Wire(s), 0) = << >> /\ Len(<< >>) = 0
    BY JoinedNone
<1>6. ASSUME NEW i \in 0 .. Len(s) PROVE Len(Joined(Wire(s), i)) <= Len(All(s))
    <2>1. IsBeginning(Joined(Wire(s), i), All(s))
        BY <1>1, <1>2, JoinedWhole DEF All
    <2> QED BY <2>1 DEF IsBeginning
<1> QED BY <1>1, <1>2, <1>3, <1>4, <1>5, <1>6 DEF All, Ends

LEMMA Placed ==
    ASSUME NEW s \in Seq(Sample), NEW i \in 1 .. Len(s)
    PROVE  IsPlaced(s, i)
<1>1. PICK e, n : e = Wire(s) /\ n = Len(s)
    OBVIOUS
<1>2. n \in Nat /\ Streams(e, n) /\ i \in 1 .. n /\ s[i] \in Sample /\ e[i] = Encode(s[i])
    BY <1>1, WireType
<1>3. PICK x : x = Encode(s[i]) /\ x \in Stream /\ Len(x) \in Nat /\ HeaderLen <= Len(x)
    BY <1>2, EncodingType
<1>4. PICK u, t : u = Joined(e, i - 1) /\ t = Joined(e, i)
    OBVIOUS
<1>5. /\ u \in Stream /\ t \in Stream
      /\ Len(t) = Len(u) + Len(e[i])
      /\ \A b \in 1 .. Len(e[i]) : t[Len(u) + b] = e[i][b]
    <2>1. IsProlonged(t, u, e[i])
        BY <1>2, <1>4, JoinedParts
    <2> QED BY <2>1 DEF IsProlonged
<1>6. /\ Len(t) <= Len(All(s))
      /\ \A b \in 1 .. Len(t) : All(s)[b] = t[b]
    <2>1. IsBeginning(t, All(s))
        BY <1>1, <1>2, <1>4, JoinedWhole DEF All
    <2> QED BY <2>1 DEF IsBeginning
<1>7. Ends(s, i - 1) = Len(u) /\ Ends(s, i) = Len(t) /\ Len(u) \in Nat /\ Len(t) \in Nat
    <2>1. Len(u) \in Nat /\ Len(t) \in Nat
        BY <1>5 DEF Stream
    <2> QED BY <1>1, <1>4, <2>1 DEF Ends
<1>8. ASSUME NEW b \in 1 .. Len(x) PROVE All(s)[Len(u) + b] = x[b]
    <2>1. PICK y : y = Len(u) + b
        OBVIOUS
    <2>2. y \in 1 .. Len(t) /\ t[y] = x[b]
        BY <1>2, <1>3, <1>5, <1>7, <2>1
    <2> QED BY <1>6, <2>1, <2>2
<1> QED BY <1>2, <1>3, <1>5, <1>6, <1>7, <1>8 DEF IsPlaced

(* One more frame is written after the others.                             *)
IsGrown(s, f, t) ==
    /\ t \in Seq(Sample) /\ Len(t) = Len(s) + 1 /\ t[Len(s) + 1] = f
    /\ \A i \in 1 .. Len(s) : t[i] = s[i]
    /\ \A i \in 0 .. Len(s) : Ends(t, i) = Ends(s, i)
    /\ Len(All(t)) = Len(All(s)) + Len(Encode(f))
    /\ \A b \in 1 .. Len(All(s)) : All(t)[b] = All(s)[b]
    /\ \A b \in 1 .. Len(Encode(f)) : All(t)[Len(All(s)) + b] = Encode(f)[b]

LEMMA Grown ==
    ASSUME NEW s \in Seq(Sample), NEW f \in Sample
    PROVE  IsGrown(s, f, Append(s, f))
<1>1. PICK t : t = Append(s, f)
    OBVIOUS
<1>2. /\ t \in Seq(Sample) /\ Len(t) = Len(s) + 1 /\ t[Len(s) + 1] = f /\ Len(s) \in Nat
      /\ \A i \in 1 .. Len(s) : t[i] = s[i]
    BY <1>1
<1>3. ASSUME NEW i \in 0 .. Len(s) PROVE Joined(Wire(t), i) = Joined(Wire(s), i)
    <2>1. \A j \in 1 .. i : Wire(t)[j] = Wire(s)[j]
        BY <1>2 DEF Wire
    <2>2. i \in Nat
        BY <1>2
    <2> QED BY <2>1, <2>2, JoinedSame
<1>4. All(s) = Joined(Wire(t), Len(s)) /\ All(s) \in Stream
    BY <1>2, <1>3, WireType DEF All
<1>5. Streams(Wire(t), Len(s) + 1) /\ Wire(t)[Len(s) + 1] = Encode(f)
    BY <1>2, WireType
<1>6. All(t) = All(s) \o Encode(f)
    <2>1. PICK e, n : e = Wire(t) /\ n = Len(s)
        OBVIOUS
    <2>2. n \in Nat /\ Streams(e, n + 1) /\ Joined(e, n) \in Stream
        BY <1>2, <1>4, <1>5, <2>1
    <2>3. Joined(e, n + 1) = Joined(e, n) \o e[n + 1]
        BY <2>2, JoinedStep
    <2> QED BY <1>2, <1>4, <1>5, <2>1, <2>3 DEF All
<1>7. PICK a, x : a = All(s) /\ x = Encode(f)
    OBVIOUS
<1>8. a \in Stream /\ x \in Stream
    BY <1>4, <1>7, EncodingType
<1>9. /\ Len(a \o x) = Len(a) + Len(x)
      /\ \A b \in 1 .. Len(a) : (a \o x)[b] = a[b]
      /\ \A b \in 1 .. Len(x) : (a \o x)[Len(a) + b] = x[b]
    BY <1>8, HeadAndTail
<1> QED BY <1>1, <1>2, <1>3, <1>6, <1>7, <1>9 DEF IsGrown, Ends


-----------------------------------------------------------------------------
(* The steps.                                                              *)

LEMMA PipeGrows ==
    ASSUME NEW s \in Seq(Sample), NEW f \in Sample, NEW p, IsPipe(s, p),
           NEW t, IsGrown(s, f, t)
    PROVE  /\ IsPipe(t, p \o Encode(f))
           /\ Received(t, p \o Encode(f)) = Received(s, p) /\ Len(p) \in Nat
<1>0. PICK q : q = p \o Encode(f)
    OBVIOUS
<1>1. PICK x : x = Encode(f) /\ x \in Stream /\ Len(x) \in Nat
    BY EncodingType
<1>2. p \in Stream /\ Len(p) \in Nat /\ Len(p) <= Len(All(s)) /\ Len(All(s)) \in Nat
    BY WireType DEF IsPipe, Stream
<1>3. PICK n, m : n = Len(All(s)) /\ m = Len(p)
    OBVIOUS
<1>4. /\ Len(All(t)) = n + Len(x)
      /\ \A b \in 1 .. n : All(t)[b] = All(s)[b]
      /\ \A b \in 1 .. Len(x) : All(t)[n + b] = x[b]
    BY <1>1, <1>3 DEF IsGrown
<1>5. /\ q \in Stream /\ Len(q) = m + Len(x)
      /\ \A i \in 1 .. m : q[i] = p[i]
      /\ \A i \in 1 .. Len(x) : q[m + i] = x[i]
    <2>1. /\ p \o x \in Stream /\ Len(p \o x) = Len(p) + Len(x)
          /\ \A i \in 1 .. Len(p) : (p \o x)[i] = p[i]
          /\ \A i \in 1 .. Len(x) : (p \o x)[Len(p) + i] = x[i]
        BY <1>1, <1>2, HeadAndTail
    <2> QED BY <1>0, <1>1, <1>3, <2>1
<1>6. Received(s, p) = n - m /\ Received(t, q) = n - m
    BY <1>1, <1>2, <1>3, <1>4, <1>5 DEF Received
<1>7. ASSUME NEW b \in 1 .. Len(q) PROVE q[b] = All(t)[(n - m) + b]
    <2>1. PICK y : y = (n - m) + b
        OBVIOUS
    <2>2. CASE b <= m
        <3>1. b \in 1 .. m /\ y \in 1 .. n
            BY <1>1, <1>2, <1>3, <1>5, <2>1, <2>2
        <3>2. p[b] = All(s)[y]
            BY <1>3, <1>6, <2>1, <3>1 DEF IsPipe
        <3> QED BY <1>4, <1>5, <2>1, <3>1, <3>2
    <2>3. CASE ~ (b <= m)
        <3>1. PICK c : c = b - m
            OBVIOUS
        <3>2. c \in 1 .. Len(x) /\ b = m + c /\ y = n + c
            BY <1>1, <1>2, <1>3, <1>5, <2>1, <2>3, <3>1
        <3> QED BY <1>4, <1>5, <2>1, <3>2
    <2> QED BY <2>2, <2>3
<1>8. IsPipe(t, q)
    BY <1>1, <1>2, <1>3, <1>4, <1>5, <1>6, <1>7 DEF IsPipe
<1> QED BY <1>0, <1>2, <1>6, <1>8

LEMMA SendKeeps ==
    ASSUME NEW s \in Seq(Sample), NEW f \in Sample, NEW p, IsPipe(s, p),
           NEW t, IsGrown(s, f, t), NEW q, q = p \o Encode(f)
    PROVE  /\ IsPipe(t, q)
           /\ Inside(t, Received(t, q)) => Inside(s, Received(s, p))
           /\ \A d, g, r, st : Len(g) \in Nat /\ Following(s, p, d, g, r, st)
                  => Following(t, q, d, g, r, st)
           /\ \A g, st, h : Len(g) \in Nat /\ Halted(s, g, st, h) => Halted(t, g, st, h)
           /\ \A g : Len(g) \in Nat /\ Garbled(s, g) => Garbled(t, g)
<1>1. IsPipe(t, q) /\ Received(t, q) = Received(s, p)
    BY PipeGrows
<1>2. PICK c : c = Received(s, p) /\ c \in Nat /\ c <= Len(All(s)) /\ Len(All(s)) \in Nat
    <2>1. Len(All(s)) \in Nat /\ Len(p) \in Nat /\ Len(p) <= Len(All(s))
        BY WireType, PipeGrows DEF IsPipe
    <2> QED BY <2>1 DEF Received
<1>3. /\ Len(s) \in Nat /\ t \in Seq(Sample) /\ Len(t) = Len(s) + 1
      /\ \A i \in 1 .. Len(s) : t[i] = s[i]
      /\ \A i \in 0 .. Len(s) : Ends(t, i) = Ends(s, i)
      /\ \A b \in 1 .. Len(All(s)) : All(t)[b] = All(s)[b]
    BY DEF IsGrown
<1>4. Ends(s, Len(s)) = Len(All(s))
    BY WireType
<1>5. ASSUME Inside(t, c) PROVE Inside(s, c)
    <2>1. PICK i \in 1 .. Len(t) : Ends(t, i - 1) + HeaderLen <= c /\ c < Ends(t, i)
        BY <1>5 DEF Inside
    <2>2. i # Len(s) + 1
        <3>1. SUFFICES ASSUME i = Len(s) + 1 PROVE FALSE
            OBVIOUS
        <3>2. i - 1 = Len(s)
            BY <1>3, <3>1
        <3>3. Ends(t, i - 1) = Len(All(s))
            BY <1>3, <1>4, <3>2
        <3> QED BY <1>2, <2>1, <3>3, Widths
    <2>3. i \in 1 .. Len(s) /\ i - 1 \in 0 .. Len(s) /\ i \in 0 .. Len(s)
        BY <1>3, <2>2
    <2>4. Ends(t, i - 1) = Ends(s, i - 1) /\ Ends(t, i) = Ends(s, i)
        BY <1>3, <2>3
    <2> QED BY <2>1, <2>3, <2>4 DEF Inside
<1>6. ASSUME NEW d, NEW g, NEW r, NEW st, Len(g) \in Nat, Following(s, p, d, g, r, st)
      PROVE  Following(t, q, d, g, r, st)
    <2>1. PICK k : k = Len(g)
        OBVIOUS
    <2>2. /\ st = "reading" /\ k <= Len(s) /\ Match(s, g, k)
          /\ d \in Stream /\ Len(d) = c - Ends(s, k)
          /\ \A b \in 1 .. Len(d) : d[b] = All(s)[Ends(s, k) + b]
          /\ r = FALSE /\ k < Len(s) => Len(d) < HeaderLen
        BY <1>2, <1>6, <2>1 DEF Following
    <2>3. k \in 0 .. Len(s) /\ Ends(t, k) = Ends(s, k) /\ Ends(s, k) \in Nat
        BY <1>3, <1>6, <2>1, <2>2, WireType
    <2>4. Match(t, g, k)
        BY <1>3, <2>2, <2>3 DEF Match
    <2>5. ASSUME NEW b \in 1 .. Len(d) PROVE d[b] = All(t)[Ends(t, k) + b]
        <3>1. PICK y : y = Ends(s, k) + b
            OBVIOUS
        <3>2. y \in 1 .. Len(All(s))
            BY <1>2, <2>2, <2>3, <3>1
        <3> QED BY <1>3, <2>2, <2>3, <3>1, <3>2
    <2>6. r = FALSE /\ k < Len(t) => Len(d) < HeaderLen
        <3>1. k = Len(s) => Len(d) < HeaderLen
            BY <1>2, <1>4, <2>2, Widths
        <3> QED BY <1>3, <2>2, <2>3, <3>1
    <2> QED BY <1>1, <1>2, <1>3, <2>1, <2>2, <2>3, <2>4, <2>5, <2>6 DEF Following
<1>7. ASSUME NEW g, NEW st, NEW h, Len(g) \in Nat, Halted(s, g, st, h)
      PROVE  Halted(t, g, st, h)
    <2>1. Len(g) + 1 \in 1 .. Len(s) /\ Match(s, g, Len(g))
        BY <1>3, <1>7 DEF Halted
    <2>2. t[Len(g) + 1] = s[Len(g) + 1] /\ Match(t, g, Len(g))
        BY <1>3, <1>7, <2>1 DEF Match
    <2> QED BY <1>3, <1>7, <2>1, <2>2 DEF Halted
<1>8. ASSUME NEW g, Len(g) \in Nat, Garbled(s, g)
      PROVE  Garbled(t, g)
    <2>1. PICK j \in 1 .. Len(s) : j <= Len(g) + 1 /\ ~ Sound(s[j]) /\ Match(s, g, j - 1)
        BY <1>8 DEF Garbled
    <2>2. j \in 1 .. Len(t) /\ t[j] = s[j] /\ Match(t, g, j - 1)
        BY <1>3, <2>1 DEF Match
    <2> QED BY <2>1, <2>2 DEF Garbled
<1> QED BY <1>1, <1>2, <1>5, <1>6, <1>7, <1>8

(* What a read takes off the pipe.                                         *)
LEMMA ReadKeeps ==
    ASSUME NEW s \in Seq(Sample), NEW p, IsPipe(s, p), NEW n \in 1 .. Len(p),
           NEW q, q = Skip(p, n), NEW x, x = SubSeq(p, 1, n)
    PROVE  /\ IsPipe(s, q)
           /\ \A d, g, r, st : Len(g) \in Nat /\ Following(s, p, d, g, r, st)
                  => Following(s, q, d \o x, g, TRUE, st)
<1>1. p \in Stream /\ Len(p) \in Nat /\ Len(p) <= Len(All(s)) /\ Len(All(s)) \in Nat /\ n \in Nat
    BY WireType DEF IsPipe, Stream
<1>2. PICK m, a : m = Len(p) /\ a = Len(All(s))
    OBVIOUS
<1>3. n \in 1 .. m /\ m \in Nat /\ a \in Nat /\ m <= a
      /\ \A b \in 1 .. m : p[b] = All(s)[(a - m) + b]
    BY <1>1, <1>2 DEF IsPipe, Received
<1>4. q \in Stream /\ Len(q) = m - n /\ \A b \in 1 .. m - n : q[b] = p[n + b]
    <2>1. IsTail(q, p, n)
        BY <1>1, SkipIs
    <2> QED BY <1>2, <2>1 DEF IsTail
<1>5. x \in Stream /\ Len(x) = n /\ \A b \in 1 .. n : x[b] = p[b]
    BY <1>1 DEF Stream
<1>6. Received(s, p) = a - m /\ Received(s, q) = (a - m) + n
    BY <1>2, <1>3, <1>4 DEF Received
<1>7. IsPipe(s, q)
    <2>1. ASSUME NEW b \in 1 .. Len(q) PROVE q[b] = All(s)[((a - m) + n) + b]
        <3>1. PICK y : y = n + b
            OBVIOUS
        <3>2. y \in 1 .. m /\ b \in 1 .. m - n /\ (a - m) + y = ((a - m) + n) + b
            BY <1>3, <1>4, <3>1
        <3> QED BY <1>3, <1>4, <3>1, <3>2
    <2> QED BY <1>2, <1>3, <1>4, <1>6, <2>1 DEF IsPipe
<1>8. ASSUME NEW d, NEW g, NEW r, NEW st, Len(g) \in Nat, Following(s, p, d, g, r, st)
      PROVE  Following(s, q, d \o x, g, TRUE, st)
    <2>1. PICK e : e = Ends(s, Len(g))
        OBVIOUS
    <2>2. /\ st = "reading" /\ Len(g) <= Len(s) /\ Match(s, g, Len(g))
          /\ d \in Stream /\ Len(d) = (a - m) - e
          /\ \A b \in 1 .. Len(d) : d[b] = All(s)[e + b]
        BY <1>6, <1>8, <2>1 DEF Following
    <2>3. e \in Nat /\ Len(d) \in Nat
        BY <1>8, <2>1, <2>2, WireType DEF Stream
    <2>4. /\ d \o x \in Stream /\ Len(d \o x) = Len(d) + Len(x)
          /\ \A i \in 1 .. Len(d) : (d \o x)[i] = d[i]
          /\ \A i \in 1 .. Len(x) : (d \o x)[Len(d) + i] = x[i]
        BY <1>5, <2>2, HeadAndTail
    <2>5. PICK y : y = d \o x
        OBVIOUS
    <2>6. Len(y) = Received(s, q) - e
        <3>1. Len(y) = Len(d) + n
            BY <1>5, <2>4, <2>5
        <3>2. PICK l : l = Len(d) /\ l = (a - m) - e
            BY <2>2
        <3>3. l + n = ((a - m) + n) - e
            BY <1>3, <2>3, <3>2
        <3> QED BY <1>6, <3>1, <3>2, <3>3
    <2>7. ASSUME NEW b \in 1 .. Len(y) PROVE y[b] = All(s)[e + b]
        <3>1. CASE b <= Len(d)
            BY <2>2, <2>3, <2>4, <2>5, <2>7, <3>1
        <3>2. CASE ~ (b <= Len(d))
            <4>1. PICK c : c = b - Len(d)
                OBVIOUS
            <4>2. c \in 1 .. n /\ c \in 1 .. m /\ b = Len(d) + c /\ (a - m) + c = e + b
                BY <1>3, <1>5, <2>2, <2>3, <2>4, <2>5, <2>7, <3>2, <4>1
            <4> QED BY <1>3, <1>5, <2>4, <2>5, <4>2
        <3> QED BY <3>1, <3>2
    <2> QED BY <2>1, <2>2, <2>4, <2>5, <2>6, <2>7 DEF Following
<1> QED BY <1>7, <1>8


(* A frame more comes out.                                                 *)
LEMMA GotGrows ==
    ASSUME NEW S, NEW g \in Seq(S), NEW x
    PROVE  /\ Append(g, x) \in Seq(S \cup {x}) /\ Len(g) \in Nat
           /\ Len(Append(g, x)) = Len(g) + 1 /\ Append(g, x)[Len(g) + 1] = x
           /\ \A i \in 1 .. Len(g) : Append(g, x)[i] = g[i]
<1>1. g \in Seq(S \cup {x})
    OBVIOUS
<1> QED BY <1>1

(* What is in the buffer is the beginning of the next frame.               *)
LEMMA NextFrame ==
    ASSUME NEW s \in Seq(Sample), NEW p, IsPipe(s, p), NEW d, NEW g, NEW r, NEW st,
           Len(g) \in Nat, Following(s, p, d, g, r, st), Len(g) < Len(s)
    PROVE  /\ s[Len(g) + 1] \in Sample /\ Follows(d, Encode(s[Len(g) + 1]))
           /\ HeaderLen <= Len(d) /\ Len(d) < Len(Encode(s[Len(g) + 1]))
                  => Inside(s, Received(s, p))
<1>1. PICK k, i : k = Len(g) /\ i = k + 1
    OBVIOUS
<1>2. i \in 1 .. Len(s) /\ i - 1 = k /\ s[i] \in Sample /\ k \in 0 .. Len(s)
    BY <1>1, WireType
<1>3. IsPlaced(s, i)
    BY <1>2, Placed
<1>4. PICK x, u : x = Encode(s[i]) /\ u = Ends(s, k)
    OBVIOUS
<1>5. /\ u \in Nat /\ Ends(s, i) = u + Len(x) /\ Len(x) \in Nat /\ HeaderLen <= Len(x)
      /\ \A b \in 1 .. Len(x) : All(s)[u + b] = x[b]
    BY <1>2, <1>3, <1>4 DEF IsPlaced
<1>6. /\ d \in Stream /\ Len(d) = Received(s, p) - u /\ Len(d) \in Nat
      /\ \A b \in 1 .. Len(d) : d[b] = All(s)[u + b]
    BY <1>1, <1>4 DEF Following, Stream
<1>7. Follows(d, x)
    <2>1. SUFFICES ASSUME NEW b \in 1 .. Len(d), b <= Len(x) PROVE d[b] = x[b]
        BY DEF Follows
    <2>2. b \in 1 .. Len(x)
        BY <1>5, <2>1
    <2> QED BY <1>5, <1>6, <2>2
<1>8. Received(s, p) = u + Len(d)
    <2>1. Len(p) \in Nat /\ Len(All(s)) \in Nat
        BY WireType DEF IsPipe, Stream
    <2>2. Received(s, p) \in Int
        BY <2>1 DEF Received
    <2> QED BY <1>5, <1>6, <2>2
<1>9. ASSUME HeaderLen <= Len(d), Len(d) < Len(x) PROVE Inside(s, Received(s, p))
    <2>1. Ends(s, i - 1) + HeaderLen <= Received(s, p) /\ Received(s, p) < Ends(s, i)
        <3>1. PICK h, a, b : h = HeaderLen /\ a = Len(d) /\ b = Len(x)
            OBVIOUS
        <3>2. u \in Nat /\ a \in Nat /\ b \in Nat /\ h \in Nat /\ h <= a /\ a < b
            BY <1>5, <1>6, <1>9, <3>1, Widths
        <3>3. u + h <= u + a /\ u + a < u + b
            BY <3>2
        <3> QED BY <1>2, <1>4, <1>5, <1>8, <3>1, <3>3
    <2> QED BY <1>2, <2>1 DEF Inside
<1> QED BY <1>1, <1>2, <1>4, <1>7, <1>9

LEMMA PollKeeps ==
    ASSUME NEW s \in Seq(Sample), NEW p, IsPipe(s, p), NEW d, NEW S, NEW g \in Seq(S),
           NEW r, Following(s, p, d, g, r, "reading"),
           NEW t, Inside(s, Received(s, p)) => t = TRUE,
           NEW g2, g2 = IF Decode(d).result = "frame" THEN Append(g, Decode(d).frame) ELSE g,
           NEW r2, r2 = FALSE <=> Decode(d).result # "frame",
           NEW st2, st2 = CASE Decode(d).result = "error" -> "ended"
                            [] Decode(d).result = "panic" -> "panicked"
                            [] OTHER -> "reading"
    PROVE  \/ Following(s, p, Decode(d).rest, g2, r2, st2)
           \/ Halted(s, g2, st2, t)
           \/ Garbled(s, g2)
<1>1. Len(g) \in Nat /\ Len(s) \in Nat
    BY GotGrows, WireType
<1>2. PICK k, u, c : k = Len(g) /\ u = Ends(s, k) /\ c = Received(s, p)
    OBVIOUS
<1>3. /\ k \in 0 .. Len(s) /\ Match(s, g, k)
      /\ d \in Stream /\ Len(d) = c - u /\ Len(d) \in Nat
      /\ \A b \in 1 .. Len(d) : d[b] = All(s)[u + b]
    BY <1>1, <1>2 DEF Following, Stream
<1>4. u \in Nat /\ c \in Int /\ c <= Len(All(s)) /\ Len(All(s)) \in Nat
    <2>1. Len(p) \in Nat /\ Len(All(s)) \in Nat
        BY WireType DEF IsPipe, Stream
    <2> QED BY <1>2, <1>3, <2>1, WireType DEF Received
<1>5. PICK o : o = Decode(d)
    OBVIOUS
<1>6. CASE k = Len(s)
    <2>1. Len(d) = 0
        BY <1>2, <1>3, <1>4, <1>6, WireType
    <2>2. Decode(d) = Outcome("none", d)
        BY <2>1, Widths DEF Decode
    <2>3. o.result = "none" /\ o.rest = d
        BY <1>5, <2>2 DEF Outcome
    <2>4. g2 = g /\ st2 = "reading"
        BY <1>5, <2>3
    <2>5. ~ (Len(g2) < Len(s)) /\ Len(g2) <= Len(s)
        <3>1. Len(g2) = Len(s)
            BY <1>2, <1>6, <2>4
        <3>2. PICK l : l = Len(s) /\ l \in Nat
            BY <1>1
        <3>3. ~ (l < l) /\ l <= l
            BY <3>2
        <3> QED BY <3>1, <3>2, <3>3
    <2>6. Following(s, p, o.rest, g2, r2, st2)
        BY <1>2, <1>3, <2>3, <2>4, <2>5 DEF Following
    <2> QED BY <1>5, <2>6
<1>7. CASE k # Len(s)
    <2>1. PICK f : f = s[k + 1] /\ k + 1 \in 1 .. Len(s)
        BY <1>3, <1>7, <1>1
    <2>2. /\ f \in Sample /\ Follows(d, Encode(f))
          /\ HeaderLen <= Len(d) /\ Len(d) < Len(Encode(f)) => Inside(s, c)
        BY <1>1, <1>2, <1>3, <1>7, <2>1, NextFrame
    <2>3. CASE ~ Sound(f)
        <3>1. PICK j : j = k + 1
            OBVIOUS
        <3>2. j \in 1 .. Len(s) /\ s[j] = f /\ j - 1 = k
            BY <1>3, <2>1, <3>1
        <3>3. j <= Len(g2) + 1 /\ Match(s, g2, k)
            <4>1. CASE g2 = g
                BY <1>1, <1>2, <1>3, <3>1, <4>1
            <4>2. CASE g2 = Append(g, Decode(d).frame)
                <5>1. Len(g2) = Len(g) + 1 /\ \A i \in 1 .. Len(g) : g2[i] = g[i]
                    BY <4>2, GotGrows
                <5> QED BY <1>1, <1>2, <1>3, <3>1, <5>1 DEF Match
            <4> QED BY <4>1, <4>2
        <3>4. Garbled(s, g2)
            BY <2>3, <3>2, <3>3 DEF Garbled
        <3> QED BY <3>4
    <2>4. CASE Sound(f)
        <3>1. PICK e : e = Encode(f) /\ Len(e) \in Nat /\ HeaderLen <= Len(e)
            BY <2>2, EncodingType
        <3>2. /\ Len(d) < HeaderLen => o.result = "none" /\ o.rest = d
              /\ Len(d) >= Len(e) =>
                     o.result = "frame" /\ o.frame = f /\ o.rest = Skip(d, Len(e))
              /\ HeaderLen <= Len(d) /\ Len(d) < Len(e) =>
                     /\ o.result \in {"error", "panic"}
                     /\ o.result = "panic" => f.type = "TreeAnnouncement"
            BY <1>3, <1>5, <2>2, <2>4, <3>1, FrameDecoded
        <3>3. CASE Len(d) < HeaderLen
            <4>1. g2 = g /\ st2 = "reading"
                BY <1>5, <3>2, <3>3
            <4>2. Following(s, p, o.rest, g2, r2, st2)
                BY <1>2, <1>3, <3>2, <3>3, <4>1 DEF Following
            <4> QED BY <1>5, <4>2
        <3>4. CASE HeaderLen <= Len(d) /\ Len(d) < Len(e)
            <4>1. g2 = g /\ st2 # "reading" /\ (st2 = "panicked" => f.type = "TreeAnnouncement")
                BY <1>5, <3>2, <3>4
            <4>2. t = TRUE
                BY <1>2, <2>2, <3>1, <3>4
            <4>3. Halted(s, g2, st2, t)
                BY <1>1, <1>2, <1>3, <1>7, <2>1, <4>1, <4>2 DEF Halted
            <4> QED BY <4>3
        <3>5. CASE Len(d) >= Len(e)
            <4>1. o.result = "frame" /\ o.frame = f /\ o.rest = Skip(d, Len(e))
                BY <3>2, <3>5
            <4>2. g2 = Append(g, f) /\ st2 = "reading" /\ r2 # FALSE
                BY <1>5, <4>1
            <4>3. Len(g2) = k + 1 /\ g2[k + 1] = f /\ \A i \in 1 .. k : g2[i] = g[i]
                BY <1>2, <4>2, GotGrows
            <4>4. Match(s, g2, k + 1)
                <5>1. SUFFICES ASSUME NEW i \in 1 .. k + 1 PROVE g2[i] = s[i]
                    BY DEF Match
                <5>2. i = k + 1 \/ i \in 1 .. k
                    BY <1>3, <5>1
                <5> QED BY <1>3, <2>1, <4>3, <5>2 DEF Match
            <4>5. Ends(s, k + 1) = u + Len(e)
                <5>1. PICK j : j = k + 1
                    OBVIOUS
                <5>2. IsPlaced(s, j) /\ j - 1 = k
                    BY <1>3, <2>1, <5>1, Placed
                <5> QED BY <1>2, <2>1, <3>1, <5>1, <5>2 DEF IsPlaced
            <4>6. PICK y, l : y = Skip(d, Len(e)) /\ l = Len(e)
                OBVIOUS
            <4>7. y \in Stream /\ Len(y) = Len(d) - l /\ \A b \in 1 .. Len(d) - l : y[b] = d[l + b]
                <5>1. IsTail(y, d, l)
                    BY <1>3, <3>1, <3>5, <4>6, SkipIs
                <5> QED BY <5>1 DEF IsTail
            <4>8. Len(y) = c - (u + l)
                BY <1>3, <1>4, <3>1, <4>6, <4>7
            <4>9. ASSUME NEW b \in 1 .. Len(y) PROVE y[b] = All(s)[(u + l) + b]
                <5>1. PICK z : z = l + b
                    OBVIOUS
                <5>2. z \in 1 .. Len(d) /\ u + z = (u + l) + b /\ b \in 1 .. Len(d) - l
                    <6>1. PICK v, w : v = Len(d) /\ w = Len(y)
                        OBVIOUS
                    <6>2. /\ u \in Int /\ l \in Nat /\ v \in Nat /\ w = v - l
                          /\ b \in 1 .. w /\ z = l + b
                        BY <1>3, <1>4, <3>1, <4>6, <4>7, <4>9, <5>1, <6>1
                    <6>3. z \in 1 .. v /\ u + z = (u + l) + b /\ b \in 1 .. v - l
                        BY <6>2
                    <6> QED BY <6>1, <6>3
                <5> QED BY <1>3, <4>7, <5>1, <5>2
            <4>10. Following(s, p, y, g2, r2, st2)
                BY <1>2, <2>1, <4>2, <4>3, <4>4, <4>5, <4>6, <4>7, <4>8, <4>9 DEF Following
            <4> QED BY <1>5, <4>1, <4>6, <4>10
        <3>6. Len(d) < HeaderLen \/ (HeaderLen <= Len(d) /\ Len(d) < Len(e)) \/ Len(d) >= Len(e)
            <4>1. PICK x, y, h : x = Len(d) /\ y = Len(e) /\ h = HeaderLen
                OBVIOUS
            <4>2. x \in Int /\ y \in Int /\ h \in Int
                BY <1>3, <3>1, <4>1, Widths
            <4>3. x < h \/ (h <= x /\ x < y) \/ x >= y
                BY <4>2
            <4> QED BY <4>1, <4>3
        <3> QED BY <3>3, <3>4, <3>5, <3>6
    <2> QED BY <2>3, <2>4
<1> QED BY <1>6, <1>7

LEMMA GarbledStays ==
    ASSUME NEW s \in Seq(Sample), NEW S, NEW g \in Seq(S), Garbled(s, g), NEW x
    PROVE  Garbled(s, Append(g, x))
<1>1. PICK j \in 1 .. Len(s) : j <= Len(g) + 1 /\ ~ Sound(s[j]) /\ Match(s, g, j - 1)
    BY DEF Garbled
<1>2. PICK h : h = Append(g, x)
    OBVIOUS
<1>3. Len(g) \in Nat /\ Len(h) = Len(g) + 1 /\ \A i \in 1 .. Len(g) : h[i] = g[i]
    BY <1>2, GotGrows
<1>4. j <= Len(h) + 1 /\ Match(s, h, j - 1)
    BY <1>1, <1>3 DEF Match
<1> QED BY <1>1, <1>2, <1>4 DEF Garbled


-----------------------------------------------------------------------------
(* The invariant holds in every reachable state.                           *)

LEMMA EncodedIs == \A f \in Sample : Encoded[f] = Encode(f)
BY DEF Encoded

LEMMA WrittenIs ==
    ASSUME NEW s \in Seq(Sample), NEW i \in 0 .. Len(s)
    PROVE  Len(FlattenSeq([j \in 1 .. i |-> Encoded[s[j]]])) = Ends(s, i)
<1>1. \A j \in 1 .. i : j \in 1 .. Len(s) /\ s[j] \in Sample /\ Encoded[s[j]] = Wire(s)[j]
    BY WireType, EncodedIs
<1>2. [j \in 1 .. i |-> Encoded[s[j]]] = [j \in 1 .. i |-> Wire(s)[j]]
    BY <1>1
<1> QED BY <1>2 DEF Ends, Joined

LEMMA InitInvariant == Init => IInv
<1>1. SUFFICES ASSUME Init PROVE IInv
    OBVIOUS
<1>2. /\ sent = <<>> /\ pipe = <<>> /\ buffer = <<>> /\ got = <<>>
      /\ readable = FALSE /\ torn = FALSE /\ state = "reading"
    BY <1>1 DEF Init
<1>a. <<>> \in Seq(Sample) /\ <<>> \in Seq(Int) /\ <<>> \in Seq({}) /\ Len(<<>>) = 0
    OBVIOUS
<1>3. PICK s : s = <<>> /\ s \in Seq(Sample) /\ Len(s) = 0
    BY <1>a
<1>4. PICK p : p = <<>> /\ p \in Stream /\ Len(p) = 0
    BY <1>a DEF Stream
<1>5. Ends(s, 0) = 0 /\ Len(All(s)) = 0
    BY <1>3, WireType
<1>6. Received(s, p) = 0
    <2>1. PICK a, b : a = Len(All(s)) /\ b = Len(p) /\ a = 0 /\ b = 0
        BY <1>4, <1>5
    <2>2. a - b = 0
        BY <2>1
    <2> QED BY <2>1, <2>2 DEF Received
<1>7. IsPipe(s, p)
    BY <1>4, <1>5 DEF IsPipe
<1>8. ~ Inside(s, Received(s, p))
    BY <1>3 DEF Inside
<1>9. PICK g : g = <<>> /\ g \in Seq({}) /\ Len(g) = 0
    BY <1>a
<1>10. Following(s, p, p, g, FALSE, "reading")
    BY <1>3, <1>4, <1>5, <1>6, <1>9 DEF Following, Match
<1>11. \E S : got \in Seq(S)
    BY <1>2, <1>9
<1> QED BY <1>2, <1>3, <1>4, <1>7, <1>8, <1>9, <1>10, <1>11 DEF IInv

LEMMA SendInvariant ==
    ASSUME IInv, NEW f \in Sample, Send(f)
    PROVE  IInv'
<1>1. /\ sent' = Append(sent, f) /\ pipe' = pipe \o Encode(f)
      /\ buffer' = buffer /\ readable' = readable /\ got' = got /\ state' = state /\ torn' = torn
    BY EncodedIs DEF Send
<1>2. PICK s, p, d, g, r, st, h :
          /\ s = sent /\ p = pipe /\ d = buffer /\ g = got /\ r = readable /\ st = state /\ h = torn
    OBVIOUS
<1>3. /\ s \in Seq(Sample) /\ IsPipe(s, p) /\ r \in BOOLEAN /\ h \in BOOLEAN
      /\ \E S : g \in Seq(S)
      /\ Inside(s, Received(s, p)) => h = TRUE
      /\ Following(s, p, d, g, r, st) \/ Halted(s, g, st, h) \/ Garbled(s, g)
    BY <1>2 DEF IInv
<1>4. PICK t, q : t = sent' /\ q = pipe'
    OBVIOUS
<1>5. IsGrown(s, f, t) /\ q = p \o Encode(f)
    BY <1>1, <1>2, <1>3, <1>4, Grown
<1>6. Len(g) \in Nat
    BY <1>3, GotGrows
<1>7. /\ IsPipe(t, q)
      /\ Inside(t, Received(t, q)) => Inside(s, Received(s, p))
      /\ \A d1, g1, r1, st1 : Len(g1) \in Nat /\ Following(s, p, d1, g1, r1, st1)
             => Following(t, q, d1, g1, r1, st1)
      /\ \A g1, st1, h1 : Len(g1) \in Nat /\ Halted(s, g1, st1, h1) => Halted(t, g1, st1, h1)
      /\ \A g1 : Len(g1) \in Nat /\ Garbled(s, g1) => Garbled(t, g1)
    BY <1>3, <1>5, SendKeeps
<1>8. Following(t, q, d, g, r, st) \/ Halted(t, g, st, h) \/ Garbled(t, g)
    BY <1>3, <1>6, <1>7
<1>9. t \in Seq(Sample)
    BY <1>5 DEF IsGrown
<1>10. /\ sent' = t /\ pipe' = q /\ buffer' = d /\ got' = g /\ readable' = r /\ state' = st
       /\ torn' = h
    BY <1>1, <1>2, <1>4
<1> QED BY <1>3, <1>7, <1>8, <1>9, <1>10 DEF IInv

LEMMA ReadInvariant ==
    ASSUME IInv, NEW n \in 1 .. Len(pipe), Read(n)
    PROVE  IInv'
<1>1. /\ state = "reading" /\ pipe' = Skip(pipe, n) /\ buffer' = buffer \o SubSeq(pipe, 1, n)
      /\ readable' = TRUE /\ sent' = sent /\ got' = got /\ state' = state
      /\ torn' = (torn \/ InsideBody(WrittenFor(Len(sent)) - Len(pipe')))
    BY DEF Read
<1>2. PICK s, p, d, g, r, st, h :
          /\ s = sent /\ p = pipe /\ d = buffer /\ g = got /\ r = readable /\ st = state /\ h = torn
    OBVIOUS
<1>3. /\ s \in Seq(Sample) /\ IsPipe(s, p) /\ h \in BOOLEAN
      /\ \E S : g \in Seq(S)
      /\ Following(s, p, d, g, r, st) \/ Halted(s, g, st, h) \/ Garbled(s, g)
      /\ st = "reading"
    BY <1>1, <1>2 DEF IInv
<1>4. PICK q, x : q = Skip(p, n) /\ x = SubSeq(p, 1, n)
    OBVIOUS
<1>5. Len(g) \in Nat /\ n \in 1 .. Len(p)
    BY <1>2, <1>3, GotGrows
<1>6. /\ IsPipe(s, q)
      /\ \A d1, g1, r1, st1 : Len(g1) \in Nat /\ Following(s, p, d1, g1, r1, st1)
             => Following(s, q, d1 \o x, g1, TRUE, st1)
    BY <1>3, <1>4, <1>5, ReadKeeps
<1>7. Following(s, q, d \o x, g, TRUE, st) \/ Garbled(s, g)
    BY <1>3, <1>5, <1>6 DEF Halted
<1>8. PICK c : c = Received(s, q)
    OBVIOUS
<1>9. InsideBody(WrittenFor(Len(sent)) - Len(pipe')) <=> Inside(s, c)
    <2>1. \A i \in 0 .. Len(s) : WrittenFor(i) = Ends(s, i)
        BY <1>2, <1>3, WrittenIs DEF WrittenFor
    <2>2. Len(s) \in Nat /\ Ends(s, Len(s)) = Len(All(s)) /\ DOMAIN s = 1 .. Len(s)
        BY <1>3, WireType
    <2>3. WrittenFor(Len(sent)) - Len(pipe') = c
        <3>1. WrittenFor(Len(s)) = Len(All(s))
            BY <2>1, <2>2
        <3>2. Len(sent) = Len(s) /\ pipe' = q
            BY <1>1, <1>2, <1>4
        <3> QED BY <1>8, <3>1, <3>2 DEF Received
    <2>4. \A i \in 1 .. Len(s) : WrittenFor(i) = Ends(s, i) /\ WrittenFor(i - 1) = Ends(s, i - 1)
        BY <2>1, <2>2
    <2> QED BY <1>2, <2>2, <2>3, <2>4 DEF InsideBody, Inside
<1>10. PICK h2 : h2 = torn'
    OBVIOUS
<1>11. h2 \in BOOLEAN /\ (Inside(s, Received(s, q)) => h2 = TRUE)
    BY <1>1, <1>8, <1>9, <1>10
<1>12. /\ sent' = s /\ pipe' = q /\ buffer' = d \o x /\ got' = g /\ readable' = TRUE
       /\ state' = st /\ torn' = h2
    BY <1>1, <1>2, <1>4, <1>10
<1> QED BY <1>3, <1>6, <1>7, <1>11, <1>12 DEF IInv

LEMMA PollInvariant ==
    ASSUME IInv, PollPeer
    PROVE  IInv'
<1>1. /\ state = "reading" /\ readable
      /\ buffer' = Decode(buffer).rest
      /\ got' = IF Decode(buffer).result = "frame" THEN Append(got, Decode(buffer).frame) ELSE got
      /\ readable' = (Decode(buffer).result = "frame")
      /\ state' = CASE Decode(buffer).result = "error" -> "ended"
                    [] Decode(buffer).result = "panic" -> "panicked"
                    [] OTHER -> "reading"
      /\ sent' = sent /\ pipe' = pipe /\ torn' = torn
    BY DEF PollPeer
<1>2. PICK s, p, d, g, h : s = sent /\ p = pipe /\ d = buffer /\ g = got /\ h = torn
    OBVIOUS
<1>3. /\ s \in Seq(Sample) /\ IsPipe(s, p) /\ h \in BOOLEAN
      /\ \E S : g \in Seq(S)
      /\ Inside(s, Received(s, p)) => h = TRUE
      /\ Following(s, p, d, g, readable, "reading") \/ Halted(s, g, "reading", h) \/ Garbled(s, g)
    BY <1>1, <1>2 DEF IInv
<1>4. Following(s, p, d, g, readable, "reading") \/ Garbled(s, g)
    BY <1>3 DEF Halted
<1>5. PICK S : g \in Seq(S)
    BY <1>3
<1>6. PICK g2, r2, st2 : g2 = got' /\ r2 = readable' /\ st2 = state'
    OBVIOUS
<1>7. /\ g2 = IF Decode(d).result = "frame" THEN Append(g, Decode(d).frame) ELSE g
      /\ st2 = CASE Decode(d).result = "error" -> "ended"
                 [] Decode(d).result = "panic" -> "panicked"
                 [] OTHER -> "reading"
    BY <1>1, <1>2, <1>6
<1>8. r2 \in BOOLEAN /\ (r2 = FALSE <=> Decode(d).result # "frame")
    BY <1>1, <1>2, <1>6
<1>9. \E T : g2 \in Seq(T)
    <2>1. CASE g2 = g
        BY <1>5, <2>1
    <2>2. CASE g2 = Append(g, Decode(d).frame)
        BY <1>5, <2>2, GotGrows
    <2> QED BY <1>7, <2>1, <2>2
<1>10. /\ sent' = s /\ pipe' = p /\ buffer' = Decode(d).rest /\ got' = g2 /\ readable' = r2
       /\ state' = st2 /\ torn' = h
    BY <1>1, <1>2, <1>6
<1>11. \/ Following(s, p, Decode(d).rest, g2, r2, st2)
       \/ Halted(s, g2, st2, h)
       \/ Garbled(s, g2)
    <2>1. CASE Garbled(s, g)
        <3>1. Garbled(s, Append(g, Decode(d).frame))
            BY <1>3, <1>5, <2>1, GarbledStays
        <3>2. g2 = g \/ g2 = Append(g, Decode(d).frame)
            BY <1>7
        <3> QED BY <2>1, <3>1, <3>2
    <2>2. CASE Following(s, p, d, g, readable, "reading")
        <3>1. PICK r : r = readable
            OBVIOUS
        <3> QED BY <1>3, <1>5, <1>7, <1>8, <2>2, <3>1, PollKeeps
    <2> QED BY <1>4, <2>1, <2>2
<1> QED BY <1>3, <1>8, <1>9, <1>10, <1>11 DEF IInv

LEMMA StepInvariant == IInv /\ [Next]_vars => IInv'
<1>1. SUFFICES ASSUME IInv, [Next]_vars PROVE IInv'
    OBVIOUS
<1>2. ASSUME NEW f \in Sample, Send(f) PROVE IInv'
    BY <1>1, <1>2, SendInvariant
<1>3. ASSUME NEW n \in 1 .. Len(pipe), Read(n) PROVE IInv'
    BY <1>1, <1>3, ReadInvariant
<1>4. CASE PollPeer
    BY <1>1, <1>4, PollInvariant
<1>5. CASE UNCHANGED vars
    BY <1>1, <1>5 DEF IInv, vars
<1> QED BY <1>1, <1>2, <1>3, <1>4, <1>5 DEF Next

LEMMA Invariant == Spec => []IInv
BY InitInvariant, StepInvariant, PTL DEF Spec


-----------------------------------------------------------------------------
(* The properties.                                                         *)

LEMMA SoundIsProper ==
    ASSUME sent \in Seq(Sample)
    PROVE  \A i \in 1 .. Len(sent) : sent[i] \in Proper <=> Sound(sent[i])
BY SampleAssumption DEF Proper, Sound

LEMMA GarbledIsImproper ==
    ASSUME IInv, AllProper
    PROVE  ~ Garbled(sent, got)
<1>1. sent \in Seq(Sample) /\ DOMAIN sent = 1 .. Len(sent)
    BY DEF IInv
<1> QED BY <1>1, SoundIsProper DEF Garbled, AllProper

LEMMA DecodesFromInvariant == IInv => DecodesWhatWasSent
<1>1. SUFFICES ASSUME IInv, NEW i \in DOMAIN got,
                      \A j \in 1 .. i : j \in DOMAIN sent => sent[j] \in Proper
               PROVE  i \in DOMAIN sent /\ got[i] = sent[i]
    BY DEF DecodesWhatWasSent
<1>2. /\ sent \in Seq(Sample) /\ DOMAIN sent = 1 .. Len(sent) /\ Len(sent) \in Nat
      /\ DOMAIN got = 1 .. Len(got) /\ Len(got) \in Nat
    BY <1>1 DEF IInv
<1>3. CASE Len(got) <= Len(sent) /\ Match(sent, got, Len(got))
    BY <1>1, <1>2, <1>3 DEF Match
<1>4. CASE Garbled(sent, got)
    <2>1. PICK j \in 1 .. Len(sent) : ~ Sound(sent[j]) /\ Match(sent, got, j - 1)
        BY <1>4 DEF Garbled
    <2>2. ~ (j <= i)
        <3>1. sent[j] \notin Proper
            BY <1>2, <2>1, SoundIsProper
        <3> QED BY <1>1, <1>2, <2>1, <3>1
    <2>3. i \in 1 .. j - 1 /\ i \in 1 .. Len(sent)
        BY <1>1, <1>2, <2>1, <2>2
    <2> QED BY <1>2, <2>1, <2>3 DEF Match
<1>5. \/ Following(sent, pipe, buffer, got, readable, state)
      \/ Halted(sent, got, state, torn)
      \/ Garbled(sent, got)
    BY <1>1 DEF IInv
<1> QED BY <1>2, <1>3, <1>4, <1>5 DEF Following, Halted

LEMMA FailsFromInvariant == IInv => FailsOnlyOnTornFrames
<1>1. SUFFICES ASSUME IInv, AllProper, state # "reading" PROVE torn
    BY DEF FailsOnlyOnTornFrames
<1>2. Halted(sent, got, state, torn)
    BY <1>1, GarbledIsImproper DEF IInv, Following
<1> QED BY <1>2 DEF Halted

LEMMA PanicFromInvariant == IInv => OnlyAnnouncementsPanic
<1>1. SUFFICES ASSUME IInv, AllProper, state = "panicked"
               PROVE  sent[Len(got) + 1].type = "TreeAnnouncement"
    BY DEF OnlyAnnouncementsPanic
<1>2. Halted(sent, got, state, torn)
    BY <1>1, GarbledIsImproper DEF IInv, Following
<1> QED BY <1>1, <1>2 DEF Halted

LEMMA NothingFromInvariant == IInv => NothingStaysBehind
<1>1. SUFFICES ASSUME IInv, AllProper, state = "reading", pipe = <<>>, ~ readable
               PROVE  got = sent /\ buffer = <<>>
    BY DEF NothingStaysBehind
<1>2. Following(sent, pipe, buffer, got, readable, state) /\ readable = FALSE
    BY <1>1, GarbledIsImproper DEF IInv, Halted
<1>3. sent \in Seq(Sample) /\ Len(sent) \in Nat /\ Len(got) \in Nat /\ IsPipe(sent, pipe)
    BY <1>1 DEF IInv
<1>4. PICK s, p, d, k, u : s = sent /\ p = pipe /\ d = buffer /\ k = Len(got) /\ u = Ends(s, k)
    OBVIOUS
<1>5. /\ k \in 0 .. Len(s) /\ d \in Stream /\ Len(d) = Received(s, p) - u
      /\ k < Len(s) => Len(d) < HeaderLen
      /\ Match(sent, got, k)
    BY <1>2, <1>3, <1>4 DEF Following
<1>6. Received(s, p) = Len(All(s)) /\ Len(All(s)) \in Nat /\ u \in Nat
    <2>1. Len(p) = 0
        BY <1>1, <1>4
    <2>2. PICK a, b : a = Len(All(s)) /\ b = Len(p) /\ a \in Nat /\ b = 0
        BY <1>3, <1>4, <2>1, WireType
    <2>3. a - b = a
        BY <2>2
    <2> QED BY <1>3, <1>4, <1>5, <2>2, <2>3, WireType DEF Received
<1>7. k = Len(s)
    <2>1. SUFFICES ASSUME k < Len(s) PROVE FALSE
        BY <1>3, <1>4, <1>5
    <2>2. PICK i : i = k + 1
        OBVIOUS
    <2>3. i \in 1 .. Len(s) /\ i - 1 = k
        BY <1>3, <1>4, <1>5, <2>1, <2>2
    <2>4. IsPlaced(s, i)
        BY <1>3, <1>4, <2>3, Placed
    <2>5. /\ Ends(s, i) = u + Len(Encode(s[i])) /\ Ends(s, i) <= Len(All(s))
          /\ HeaderLen <= Len(Encode(s[i])) /\ Len(Encode(s[i])) \in Nat
        BY <1>4, <2>3, <2>4 DEF IsPlaced
    <2> QED BY <1>5, <1>6, <2>1, <2>5, Widths
<1>8. Len(d) = 0
    <2>1. u = Len(All(s))
        BY <1>3, <1>4, <1>7, WireType
    <2> QED BY <1>5, <1>6, <2>1
<1>9. buffer = <<>>
    BY <1>4, <1>5, <1>8 DEF Stream
<1>10. got = sent
    <2>1. PICK S : got \in Seq(S)
        BY <1>1 DEF IInv
    <2>2. got = [i \in 1 .. Len(got) |-> got[i]] /\ sent = [i \in 1 .. Len(sent) |-> sent[i]]
        BY <1>3, <2>1
    <2>3. Len(got) = Len(sent) /\ \A i \in 1 .. Len(got) : got[i] = sent[i]
        BY <1>4, <1>5, <1>7 DEF Match
    <2> QED BY <2>2, <2>3
<1> QED BY <1>9, <1>10

(* For all widths of the fields, all frames that are sent and all cuts of  *)
(* the stream: the frames that come out are those that went in, in order,  *)
(* up to the first that the format cannot carry (wire_frame.rs, encode and *)
(* decode; the stream of poll_peer).                                       *)
THEOREM FramesSurvive == Spec => []DecodesWhatWasSent
BY Invariant, DecodesFromInvariant, PTL

(* On frames that the format can carry the decoder fails only where a read *)
(* ended inside the body of a frame (wire_frame.rs 203).                   *)
THEOREM OnlyTornFramesFail == Spec => []FailsOnlyOnTornFrames
BY Invariant, FailsFromInvariant, PTL

(* And of those only a torn announcement makes the peer task panic, as the *)
(* length in its header leaves out its signatures (wire_frame.rs 47).      *)
THEOREM PanicIsOfAnnouncement == Spec => []OnlyAnnouncementsPanic
BY Invariant, PanicFromInvariant, PTL

(* When all bytes are read and the peer task waits, all frames came out    *)
(* and no byte is left over.                                               *)
THEOREM NothingIsLeft == Spec => []NothingStaysBehind
BY Invariant, NothingFromInvariant, PTL


-----------------------------------------------------------------------------
(* Where the magic bytes are.                                              *)

(* From its b-th byte on, s holds no magic byte.                           *)
PlainFrom(s, b) == \A c \in 1 .. Len(s) : b <= c => s[c] \in Nat

LEMMA PlainGrows ==
    ASSUME NEW s \in Stream, NEW t \in Stream, NEW b \in Nat,
           PlainFrom(s, b), PlainFrom(t, 0)
    PROVE  PlainFrom(s \o t, b)
<1>1. PICK y : y = s \o t
    OBVIOUS
<1>2. /\ Len(y) = Len(s) + Len(t) /\ Len(s) \in Nat /\ Len(t) \in Nat
      /\ \A i \in 1 .. Len(s) : y[i] = s[i]
      /\ \A i \in 1 .. Len(t) : y[Len(s) + i] = t[i]
    BY <1>1, HeadAndTail DEF Stream
<1>3. ASSUME NEW c \in 1 .. Len(y), b <= c PROVE y[c] \in Nat
    <2>1. CASE c <= Len(s)
        BY <1>2, <1>3, <2>1 DEF PlainFrom
    <2>2. CASE ~ (c <= Len(s))
        <3>1. PICK i : i = c - Len(s)
            OBVIOUS
        <3>2. i \in 1 .. Len(t) /\ c = Len(s) + i /\ 0 <= i
            BY <1>2, <1>3, <2>2, <3>1
        <3> QED BY <1>2, <3>2 DEF PlainFrom
    <2> QED BY <2>1, <2>2
<1> QED BY <1>1, <1>3 DEF PlainFrom

LEMMA PlainBytes ==
    ASSUME NEW x \in Nat, NEW w \in Nat
    PROVE  Bytes(x, w) \in Stream /\ PlainFrom(Bytes(x, w), 0)
BY BytesAre DEF PlainFrom

LEMMA PlainJoined ==
    ASSUME NEW e, NEW n \in Nat, Streams(e, n), \A j \in 1 .. n : PlainFrom(e[j], 0)
    PROVE  PlainFrom(Joined(e, n), 0)
<1> DEFINE Bad == {i \in Nat : i \in 0 .. n /\ ~ PlainFrom(Joined(e, i), 0)}
<1>1. SUFFICES ASSUME Bad # {} PROVE FALSE
    OBVIOUS
<1>2. PICK k \in Bad : \A l \in Bad : k <= l
    BY <1>1, LeastNat
<1>3. k # 0
    <2>1. Joined(e, 0) = << >> /\ Len(<< >>) = 0
        BY JoinedNone
    <2>2. PlainFrom(Joined(e, 0), 0)
        BY <2>1 DEF PlainFrom
    <2> QED BY <1>2, <2>2
<1> DEFINE l == k - 1
<1>4. l \in Nat /\ l \in 0 .. n /\ l \notin Bad /\ k = l + 1
    BY <1>2, <1>3
<1>5. Joined(e, l) \in Stream /\ Streams(e, l + 1) /\ e[k] \in Stream
    BY <1>2, <1>4, JoinedType DEF Streams
<1>6. PlainFrom(Joined(e, l), 0) /\ PlainFrom(e[k], 0)
    BY <1>2, <1>4
<1> HIDE DEF l
<1>7. Joined(e, k) = Joined(e, l) \o e[k]
    BY <1>4, <1>5, JoinedStep
<1>8. PlainFrom(Joined(e, k), 0)
    BY <1>5, <1>6, <1>7, PlainGrows
<1> QED BY <1>2, <1>8

LEMMA PlainList ==
    ASSUME NEW e, NEW n \in Nat, Streams(e, n), \A j \in 1 .. n : PlainFrom(e[j], 0)
    PROVE  PlainFrom(Bytes(n % Mod, NumLen) \o Joined(e, n), 0)
<1>1. n % Mod \in Nat /\ NumLen \in Nat
    BY Widths
<1>2. Bytes(n % Mod, NumLen) \in Stream /\ PlainFrom(Bytes(n % Mod, NumLen), 0)
    BY <1>1, PlainBytes
<1>3. Joined(e, n) \in Stream /\ PlainFrom(Joined(e, n), 0)
    BY JoinedType, PlainJoined
<1> QED BY <1>2, <1>3, PlainGrows

LEMMA PlainSignature ==
    ASSUME NEW s \in Signature
    PROVE  EncodeSignature(s) \in Stream /\ PlainFrom(EncodeSignature(s), 0)
<1>1. s.key \in Nat /\ s.port \in Nat
    BY DEF Signature
<1>2. PICK k, p, q : k = Bytes(s.key, KeyLen) /\ p = Bytes(s.port, WordLen) /\ q = Bytes(s.key, SigLen)
    OBVIOUS
<1>3. /\ k \in Stream /\ PlainFrom(k, 0) /\ p \in Stream /\ PlainFrom(p, 0)
      /\ q \in Stream /\ PlainFrom(q, 0)
    BY <1>1, <1>2, PlainBytes, Widths
<1>4. k \o p \in Stream /\ PlainFrom(k \o p, 0)
    BY <1>3, HeadAndTail, PlainGrows
<1>5. (k \o p) \o q \in Stream /\ PlainFrom((k \o p) \o q, 0)
    BY <1>3, <1>4, HeadAndTail, PlainGrows
<1> QED BY <1>2, <1>5 DEF EncodeSignature

LEMMA PlainField ==
    ASSUME NEW kind \in Kinds, NEW v \in Values(kind)
    PROVE  PlainFrom(Encode1(kind, v), 0)
<1>1. CASE kind \in {"key", "word"}
    <2>1. v \in Nat
        BY <1>1 DEF Values
    <2>2. CASE kind = "key"
        <3>1. Encode1(kind, v) = Bytes(v, KeyLen)
            BY <2>2 DEF Encode1
        <3> QED BY <2>1, <3>1, PlainBytes, Widths
    <2>3. CASE kind = "word"
        <3>1. Encode1(kind, v) = Bytes(v, WordLen)
            BY <2>3 DEF Encode1
        <3> QED BY <2>1, <3>1, PlainBytes, Widths
    <2> QED BY <1>1, <2>2, <2>3
<1>2. CASE kind = "payload"
    <2>1. v \in Seq(Nat) /\ Encode1(kind, v) = v
        BY <1>2 DEF Values, Encode1
    <2> QED BY <2>1 DEF PlainFrom
<1>3. CASE kind = "path"
    <2>1. v \in Seq(Nat)
        BY <1>3 DEF Values
    <2>2. PICK n : n = Len(v)
        OBVIOUS
    <2> DEFINE e == [i \in 1 .. n |-> Bytes(v[i], WordLen)]
    <2>3. n \in Nat /\ DOMAIN v = 1 .. n /\ \A i \in 1 .. n : v[i] \in Nat
        BY <2>1, <2>2
    <2>4. ASSUME NEW j \in 1 .. n PROVE e[j] \in Stream /\ PlainFrom(e[j], 0)
        BY <2>3, PlainBytes, Widths
    <2>5. [j \in 1 .. n |-> e[j]] = e
        OBVIOUS
    <2>6. Encode1(kind, v) = Bytes(n % Mod, NumLen) \o Joined(e, n)
        BY <1>3, <2>2, <2>3, <2>5 DEF Encode1, Joined
    <2> HIDE DEF e
    <2>7. Streams(e, n)
        BY <2>4 DEF Streams
    <2> QED BY <2>3, <2>4, <2>6, <2>7, PlainList
<1>4. CASE kind = "signatures"
    <2>1. v \in Seq(Signature)
        BY <1>4 DEF Values, Signature
    <2>2. PICK n : n = Len(v)
        OBVIOUS
    <2> DEFINE e == [i \in 1 .. n |-> EncodeSignature(v[i])]
    <2>3. n \in Nat /\ DOMAIN v = 1 .. n /\ \A i \in 1 .. n : v[i] \in Signature
        BY <2>1, <2>2
    <2>4. ASSUME NEW j \in 1 .. n PROVE e[j] \in Stream /\ PlainFrom(e[j], 0)
        BY <2>3, PlainSignature
    <2>5. [j \in 1 .. n |-> e[j]] = e
        OBVIOUS
    <2>6. Encode1(kind, v) = Bytes(n % Mod, NumLen) \o Joined(e, n)
        BY <1>4, <2>2, <2>3, <2>5 DEF Encode1, Joined
    <2> HIDE DEF e
    <2>7. Streams(e, n)
        BY <2>4 DEF Streams
    <2> QED BY <2>3, <2>4, <2>6, <2>7, PlainList
<1> QED BY <1>1, <1>2, <1>3, <1>4 DEF Kinds

(* Only the first bytes of a frame are magic: no key, number or payload    *)
(* looks like the beginning of a frame.                                    *)
LEMMA MagicFirst ==
    ASSUME NEW f, IsFrame(f)
    PROVE  PlainFrom(Encode(f), MagicLen + 1)
<1>1. f.type \in Types /\ DeclaredLength(f) \in Nat
    BY BodyOf, DeclaredIs
<1>2. PICK m, t, x, n, d :
          /\ m = Bytes(Magic, MagicLen) /\ t = <<Version, EncodedType[f.type]>>
          /\ x = Bytes(0, ExtraLen) /\ n = Bytes(DeclaredLength(f) % Mod, NumLen)
          /\ d = Body(f)
    OBVIOUS
<1>3. m \in Stream /\ PlainFrom(m, MagicLen + 1)
    <2>1. Magic \in Int
        BY DEF Magic
    <2>2. m \in Stream /\ Len(m) = MagicLen
        BY <1>2, <2>1, BytesAre, Widths
    <2>3. \A c \in 1 .. MagicLen : ~ (MagicLen + 1 <= c)
        BY Widths
    <2> QED BY <2>2, <2>3 DEF PlainFrom
<1>4. t \in Stream /\ PlainFrom(t, 0)
    <2>1. Version \in Nat /\ EncodedType[f.type] \in Nat
        BY <1>1, DecodedAsEncoded DEF Version
    <2>2. t \in Seq(Nat)
        BY <1>2, <2>1
    <2> QED BY <2>2 DEF Stream, PlainFrom
<1>5. x \in Stream /\ PlainFrom(x, 0)
    BY <1>2, PlainBytes, Widths
<1>6. n \in Stream /\ PlainFrom(n, 0)
    <2>1. DeclaredLength(f) % Mod \in Nat
        BY <1>1, Widths
    <2> QED BY <1>2, <2>1, PlainBytes, Widths
<1>7. d \in Stream /\ PlainFrom(d, 0)
    <2>1. /\ Width(f) \in Nat /\ Streams(Parts(f), Width(f)) /\ d \in Stream
          /\ d = Joined(Parts(f), Width(f))
        BY <1>2, BodyOf
    <2>2. \A i \in 1 .. Width(f) : PlainFrom(Parts(f)[i], 0)
        BY FieldOf, PlainField
    <2> QED BY <2>1, <2>2, PlainJoined
<1>8. PICK b : b = MagicLen + 1 /\ b \in Nat
    BY Widths
<1>9. m \o t \in Stream /\ PlainFrom(m \o t, b)
    BY <1>3, <1>4, <1>8, HeadAndTail, PlainGrows
<1>10. (m \o t) \o x \in Stream /\ PlainFrom((m \o t) \o x, b)
    BY <1>5, <1>8, <1>9, HeadAndTail, PlainGrows
<1>11. ((m \o t) \o x) \o n \in Stream /\ PlainFrom(((m \o t) \o x) \o n, b)
    BY <1>6, <1>8, <1>10, HeadAndTail, PlainGrows
<1>12. PlainFrom((((m \o t) \o x) \o n) \o d, b)
    BY <1>7, <1>8, <1>11, PlainGrows
<1> QED BY <1>2, <1>8, <1>12 DEF Encode

(* A magic byte on the wire is one of the first of some frame.             *)
LEMMA MagicPlace ==
    ASSUME NEW s \in Seq(Sample), NEW b \in 1 .. Len(All(s)), All(s)[b] = Magic
    PROVE  \E j \in 1 .. Len(s) : Ends(s, j - 1) < b /\ b <= Ends(s, j - 1) + MagicLen
<1>1. /\ Len(s) \in Nat /\ Len(All(s)) \in Nat /\ b \in Nat
      /\ \A i \in 1 .. Len(s) : s[i] \in Sample
      /\ Ends(s, 0) = 0 /\ Ends(s, Len(s)) = Len(All(s))
      /\ \A i \in 0 .. Len(s) : Ends(s, i) \in Nat
    BY WireType
<1> DEFINE T == {i \in Nat : i \in 0 .. Len(s) /\ b <= Ends(s, i)}
<1>2. Len(s) \in T
    BY <1>1
<1>3. PICK j \in T : \A k \in T : j <= k
    BY <1>2, LeastNat
<1>4. j # 0
    BY <1>1, <1>3
<1>5. j \in 1 .. Len(s) /\ j - 1 \in 0 .. Len(s) /\ j - 1 \notin T
    BY <1>1, <1>3, <1>4
<1>6. PICK u, x : u = Ends(s, j - 1) /\ x = Encode(s[j])
    OBVIOUS
<1>7. u < b /\ u \in Nat /\ b <= Ends(s, j)
    BY <1>1, <1>3, <1>5, <1>6
<1>8. /\ Ends(s, j) = u + Len(x) /\ Len(x) \in Nat
      /\ \A c \in 1 .. Len(x) : All(s)[u + c] = x[c]
    <2>1. IsPlaced(s, j)
        BY <1>5, Placed
    <2> QED BY <1>6, <2>1 DEF IsPlaced
<1>9. PICK c : c = b - u
    OBVIOUS
<1>10. c \in 1 .. Len(x) /\ b = u + c
    BY <1>1, <1>7, <1>8, <1>9
<1>11. x[c] \notin Nat
    <2>1. x[c] = Magic
        BY <1>8, <1>10
    <2> QED BY <2>1 DEF Magic
<1>12. IsFrame(s[j])
    BY <1>1, <1>5, SampleAssumption
<1>13. ~ (MagicLen + 1 <= c)
    <2>1. PlainFrom(x, MagicLen + 1)
        BY <1>6, <1>12, MagicFirst
    <2> QED BY <1>10, <1>11, <2>1 DEF PlainFrom
<1>14. PICK w : w = MagicLen /\ w \in Nat
    BY Widths
<1>15. u < b /\ b <= u + w
    BY <1>7, <1>8, <1>10, <1>13, <1>14
<1> QED BY <1>5, <1>6, <1>14, <1>15

-----------------------------------------------------------------------------
(* What the decoder takes off a buffer, whatever the buffer holds.         *)

(* The cursor c has read to the end of some of the bytes r.                *)
Within(c, r) ==
    /\ c = [rest |-> c.rest, fields |-> c.fields, ok |-> c.ok, len |-> c.len,
            lists |-> c.lists, items |-> c.items]
    /\ c.len \in Int /\ c.lists \in Nat /\ c.items \in Nat
    /\ \E n \in 0 .. Len(r) : c.rest = Skip(r, n)

(* The destination is read: its length counts the ports of the source.     *)
Measured(c) ==
    "destination" \in DOMAIN c.fields /\ Len(c.fields["destination"]) \in Nat

ReadKinds == Kinds \cup {"path_as_destination"}

LEMMA PayloadLengthType ==
    ASSUME NEW c, c.len \in Int, c.lists \in Nat, c.items \in Nat
    PROVE  PayloadLength(c) % Mod \in Nat
<1>1. c.lists * NumLen \in Nat /\ c.items * WordLen \in Nat /\ 2 * KeyLen \in Nat
    BY Widths
<1>2. PICK x, y, z : x = c.lists * NumLen /\ y = c.items * WordLen /\ z = 2 * KeyLen
    OBVIOUS
<1>3. x \in Nat /\ y \in Nat /\ z \in Nat
    BY <1>1, <1>2
<1>4. PayloadLength(c) = c.len - HeaderLen - (IF c.lists = 0 THEN z ELSE x + y)
    BY <1>2 DEF PayloadLength
<1>5. PayloadLength(c) \in Int
    BY <1>3, <1>4, Widths
<1> QED BY <1>5, Widths

LEMMA StepWithin ==
    ASSUME NEW r \in Stream, NEW c, Within(c, r), NEW name \in AllNames, NEW t,
           DecodedKind(t, name) = "path_as_destination" => c.ok = FALSE \/ Measured(c)
    PROVE  LET d == Decode1(c, name, DecodedKind(t, name))
           IN  /\ Within(d, r)
               /\ d.ok = FALSE \/ Measured(c) \/ name = "destination" => d.ok = FALSE \/ Measured(d)
<1> DEFINE kind == DecodedKind(t, name)
           start == IF IsList(kind) THEN NumLen ELSE 0
           size == start + Number(c, kind) * ItemLen(kind)
           d == Decode1(c, name, kind)
           cut == \/ ~ c.ok \/ Len(c.rest) < start \/ Len(c.rest) < size
                  \/ kind = "payload" /\ Checked /\ PayloadLength(c) < 0
<1>1. kind \in ReadKinds
    BY SameKinds, KindsOfNames DEF Same, ReadKinds
<1>2. PICK n \in 0 .. Len(r) : c.rest = Skip(r, n)
    BY DEF Within
<1>3. Len(r) \in Nat /\ n \in Nat /\ n <= Len(r)
    BY <1>2 DEF Stream
<1>4. c.rest \in Stream /\ Len(c.rest) = Len(r) - n /\ Len(c.rest) \in Nat
    <2>1. IsTail(c.rest, r, n)
        BY <1>2, <1>3, SkipIs
    <2> QED BY <1>3, <2>1 DEF IsTail
<1>5. CASE cut
    <2>1. d = [c EXCEPT !.ok = FALSE]
        BY <1>5 DEF Decode1
    <2>2. d = [rest |-> c.rest, fields |-> c.fields, ok |-> FALSE, len |-> c.len,
               lists |-> c.lists, items |-> c.items]
        BY <2>1 DEF Within
    <2> HIDE DEF d
    <2>3. Within(d, r)
        BY <1>2, <2>2 DEF Within
    <2> QED BY <2>2, <2>3 DEF d
<1>6. CASE ~ cut
    <2>1. c.ok # FALSE /\ ~ (Len(c.rest) < start) /\ ~ (Len(c.rest) < size)
        BY <1>6
    <2>2. ASSUME IsList(kind) PROVE Count(c) \in Nat
        <3>1. start = NumLen /\ Len(c.rest) >= 1
            BY <1>4, <2>1, <2>2, Widths
        <3>2. Head(c.rest) \in Int
            BY <1>4, <3>1 DEF Stream
        <3> QED BY <3>2, Widths DEF Count
    <2>3. Number(c, kind) \in Nat
        <3>1. CASE kind \in {"key", "word"}
            BY <3>1 DEF Number
        <3>2. CASE kind \in {"path", "signatures"}
            <4>1. IsList(kind) /\ Number(c, kind) = Count(c)
                BY <3>2 DEF IsList, Number
            <4> QED BY <2>2, <4>1
        <3>3. CASE kind = "payload"
            <4>1. Number(c, kind) = PayloadLength(c) % Mod
                BY <3>3 DEF Number
            <4> QED BY <4>1, PayloadLengthType DEF Within
        <3>4. CASE kind = "path_as_destination"
            <4>1. Number(c, kind) = Len(c.fields["destination"])
                BY <3>4 DEF Number
            <4> QED BY <2>1, <3>4, <4>1 DEF Measured
        <3> QED BY <1>1, <3>1, <3>2, <3>3, <3>4 DEF ReadKinds, Kinds
    <2>4. start \in Nat /\ ItemLen(kind) \in Nat
        BY Widths DEF ItemLen
    <2>5. PICK k, m, i : k = size /\ m = start /\ i = Number(c, kind)
        OBVIOUS
    <2>6. k \in Nat /\ k <= Len(c.rest)
        <3>1. i * ItemLen(kind) \in Nat
            BY <2>3, <2>4, <2>5
        <3>2. k = m + i * ItemLen(kind)
            BY <2>5
        <3> QED BY <1>4, <2>1, <2>4, <2>5, <3>1, <3>2
    <2>7. PICK v : v = ValueAt(c.rest, kind, m, i)
        OBVIOUS
    <2>8. PICK a, b : /\ a = IF IsList(kind) THEN c.lists + 1 ELSE c.lists
                      /\ b = IF IsList(kind) THEN c.items + Count(c) ELSE c.items
        OBVIOUS
    <2>9. a \in Nat /\ b \in Nat
        BY <2>2, <2>8 DEF Within
    <2>10. d = [c EXCEPT !.rest = Skip(c.rest, k), !.fields = With(c.fields, name, v),
                         !.lists = a, !.items = b]
        BY <1>6, <2>5, <2>7, <2>8 DEF Decode1
    <2>11. d = [rest |-> Skip(c.rest, k), fields |-> With(c.fields, name, v), ok |-> c.ok,
                len |-> c.len, lists |-> a, items |-> b]
        BY <2>10 DEF Within
    <2> HIDE DEF d, size, cut
    <2>12. \E x \in 0 .. Len(r) : Skip(c.rest, k) = Skip(r, x)
        <3>1. n + k \in 0 .. Len(r)
            BY <1>3, <1>4, <2>6
        <3> QED BY <1>2, <1>3, <2>6, <3>1, SkipTwice
    <2>13. Within(d, r)
        BY <2>9, <2>11, <2>12 DEF Within
    <2>14. ASSUME Measured(c) \/ name = "destination" PROVE Measured(d)
        <3>1. PICK g : g = With(c.fields, name, v) /\ g = d.fields
            BY <2>11
        <3>2. "destination" \in DOMAIN g
            BY <2>14, <3>1 DEF With, Measured
        <3>3. CASE name = "destination"
            <4>1. kind = "path"
                BY <3>3 DEF DecodedKind, Kind
            <4>2. v = [j \in 1 .. i |-> c.rest[m + (j - 1) * ItemLen(kind) + 1]]
                BY <2>7, <4>1 DEF ValueAt
            <4>3. Len(v) = i
                BY <2>3, <2>5, <4>2
            <4>4. g["destination"] = v
                BY <3>1, <3>3 DEF With
            <4> QED BY <2>3, <2>5, <3>1, <3>2, <4>3, <4>4 DEF Measured
        <3>4. CASE name # "destination"
            <4>1. g["destination"] = c.fields["destination"]
                BY <2>14, <3>1, <3>4 DEF With, Measured
            <4> QED BY <2>14, <3>1, <3>2, <3>4, <4>1 DEF Measured
        <3> QED BY <3>3, <3>4
    <2>15. d.ok = c.ok
        BY <2>11
    <2> QED BY <2>1, <2>13, <2>14, <2>15 DEF d
<1> HIDE DEF cut
<1> QED BY <1>5, <1>6

LEMMA DecodedNames ==
    ASSUME NEW t \in 1 .. 8
    PROVE  /\ Len(DecodedFields[t]) \in Nat
           /\ \A i \in 1 .. Len(DecodedFields[t]) : DecodedFields[t][i] \in AllNames
           /\ t = 2 => /\ DecodedFields[t][1] = "destination"
                       /\ \A i \in 1 .. Len(DecodedFields[t]) :
                              DecodedFields[t][i] = "source" => i # 1
<1>1. ASSUME NEW u \in Types, EncodedType[u] = t
      PROVE  /\ Len(DecodedFields[t]) \in Nat
             /\ \A i \in 1 .. Len(DecodedFields[t]) : DecodedFields[t][i] \in AllNames
    BY <1>1, NamesOfTypes, DecodedAsEncoded
<1>2. t = 1 \/ t = 2 \/ t = 3 \/ t = 4 \/ t = 5 \/ t = 6 \/ t = 7 \/ t = 8
    OBVIOUS
<1>3. \E u \in Types : EncodedType[u] = t
    <2>1. EncodedType["TreeAnnouncement"] = 1 /\ EncodedType["TreeRouted"] = 2
        BY DEF EncodedType
    <2>2. EncodedType["SnekBootstrap"] = 3 /\ EncodedType["SnekBootstrapACK"] = 4
        BY DEF EncodedType
    <2>3. EncodedType["SnekSetup"] = 5 /\ EncodedType["SnekSetupACK"] = 6
        BY DEF EncodedType
    <2>4. EncodedType["SnekTeardown"] = 7 /\ EncodedType["SnekRouted"] = 8
        BY DEF EncodedType
    <2> QED BY <1>2, <2>1, <2>2, <2>3, <2>4 DEF Types
<1>4. DecodedFields[2] = << "destination", "source", "payload" >>
    BY DEF DecodedFields
<1>5. DecodedFields[2][1] = "destination"
    BY <1>4
<1> QED BY <1>1, <1>3, <1>5

LEMMA CursorsWithin ==
    ASSUME NEW t \in 1 .. 8, NEW r \in Stream, NEW l \in Int, NEW c,
           Reads(c, t, r, l, Len(DecodedFields[t]))
    PROVE  Within(c[Len(DecodedFields[t])], r)
<1> DEFINE w == Len(DecodedFields[t])
<1>1. w \in Nat
    BY DecodedNames
<1>3. /\ c[0] = Cursor(r, <<>>, l, 0, 0)
      /\ \A i \in 1 .. w :
             c[i] = Decode1(c[i - 1], DecodedFields[t][i], DecodedKind(t, DecodedFields[t][i]))
    BY <1>1, ReadsSteps
<1> DEFINE Fine(i) ==
               Within(c[i], r) /\ (t = 2 /\ i # 0 => c[i].ok = FALSE \/ Measured(c[i]))
           Bad == {i \in Nat : i \in 0 .. w /\ ~ Fine(i)}
<1>4. SUFFICES ASSUME Bad # {} PROVE FALSE
    <2>1. w \in Nat /\ w \in 0 .. w
        BY <1>1
    <2>2. w \notin Bad => Fine(w)
        BY <2>1
    <2>3. Fine(w) => Within(c[w], r)
        OBVIOUS
    <2> HIDE DEF Fine, Bad
    <2> QED BY <2>2, <2>3
<1>5. PICK k \in Bad : \A j \in Bad : k <= j
    BY <1>4, LeastNat
<1>6. Fine(0)
    <2>1. Len(r) \in Nat /\ 0 \in 0 .. Len(r)
        BY DEF Stream
    <2>2. Skip(r, 0) = r
        <3>1. IsTail(Skip(r, 0), r, 0)
            BY <2>1, SkipIs
        <3>2. /\ Skip(r, 0) \in Stream /\ Len(Skip(r, 0)) = Len(r)
              /\ \A b \in 1 .. Len(Skip(r, 0)) : Skip(r, 0)[b] = r[b]
            BY <2>1, <3>1 DEF IsTail
        <3> QED BY <3>2, SameStream
    <2>3. Within(Cursor(r, <<>>, l, 0, 0), r)
        BY <2>1, <2>2 DEF Within, Cursor
    <2> QED BY <1>3, <2>3
<1>7. k \in 1 .. w /\ k - 1 \in Nat /\ k - 1 \in 0 .. w /\ k - 1 \notin Bad
    <2>1. k # 0
        BY <1>5, <1>6
    <2> QED BY <1>1, <1>5, <2>1
<1>8. Fine(k - 1) /\ ~ Fine(k)
    BY <1>5, <1>7
<1>9. PICK p, name : p = c[k - 1] /\ name = DecodedFields[t][k]
    OBVIOUS
<1>10. /\ name \in AllNames
       /\ t = 2 /\ k = 1 => name = "destination"
       /\ t = 2 /\ name = "source" => k # 1
    BY <1>1, <1>7, <1>9, DecodedNames
<1>11. DecodedKind(t, name) = "path_as_destination" => p.ok = FALSE \/ Measured(p)
    <2>1. Kind(name) # "path_as_destination"
        BY <1>10, KindsOfNames DEF Kinds
    <2>2. DecodedKind(t, name) = "path_as_destination" => t = 2 /\ name = "source"
        BY <2>1 DEF DecodedKind
    <2>3. k # 1 => k - 1 # 0
        BY <1>7
    <2> QED BY <1>8, <1>9, <1>10, <2>2, <2>3
<1>12. Within(p, r)
    BY <1>8, <1>9
<1>13. PICK d : d = Decode1(p, name, DecodedKind(t, name))
    OBVIOUS
<1>14. /\ Within(d, r)
       /\ d.ok = FALSE \/ Measured(p) \/ name = "destination" => d.ok = FALSE \/ Measured(d)
    BY <1>10, <1>11, <1>12, <1>13, StepWithin
<1>15. c[k] = d
    BY <1>3, <1>7, <1>9, <1>13
<1>16. ASSUME t = 2 PROVE d.ok = FALSE \/ Measured(d)
    <2>1. CASE k = 1
        BY <1>10, <1>14, <1>16, <2>1
    <2>2. CASE k # 1
        <3>1. p.ok = FALSE \/ Measured(p)
            <4>1. k - 1 # 0
                BY <1>7, <2>2
            <4> QED BY <1>8, <1>9, <1>16, <4>1
        <3>2. p.ok = FALSE => d.ok = FALSE
            <4>1. p.ok = FALSE => d = [p EXCEPT !.ok = FALSE]
                BY <1>13 DEF Decode1
            <4>2. [p EXCEPT !.ok = FALSE].ok = FALSE
                BY <1>12 DEF Within
            <4> QED BY <4>1, <4>2
        <3> QED BY <1>14, <3>1, <3>2
    <2> QED BY <2>1, <2>2
<1> QED BY <1>8, <1>14, <1>15, <1>16

LEMMA FieldsWithin ==
    ASSUME NEW t \in 1 .. 8, NEW r \in Stream, NEW l \in Int
    PROVE  \E n \in 0 .. Len(r) : DecodeFields(t, r, l).rest = Skip(r, n)
<1>1. PICK c : /\ Reads(c, t, r, l, Len(DecodedFields[t]))
               /\ DecodeFields(t, r, l) = c[Len(DecodedFields[t])]
    BY DecodedNames, DecodeFieldsIs
<1>2. PICK d : d = DecodeFields(t, r, l) /\ Within(d, r)
    BY <1>1, CursorsWithin
<1> QED BY <1>2 DEF Within

(* What decode leaves is the end of the buffer; a frame takes off its      *)
(* header at least, and begins with the magic bytes.                       *)
LEMMA DecodeTakes ==
    ASSUME NEW d \in Stream
    PROVE  \E n \in 0 .. Len(d) :
               /\ Decode(d).rest = Skip(d, n)
               /\ Decode(d).result = "frame" => HeaderLen <= n /\ d[1] = Magic
<1>1. Len(d) \in Nat
    BY DEF Stream
<1>2. 0 \in 0 .. Len(d) /\ d = Skip(d, 0)
    <2>1. IsTail(Skip(d, 0), d, 0)
        BY <1>1, SkipIs
    <2>2. /\ Skip(d, 0) \in Stream /\ Len(Skip(d, 0)) = Len(d)
          /\ \A b \in 1 .. Len(Skip(d, 0)) : Skip(d, 0)[b] = d[b]
        BY <1>1, <2>1 DEF IsTail
    <2> QED BY <1>1, <2>2, SameStream
<1>3. CASE Len(d) < MagicLen \/ (\E i \in 1 .. MagicLen : d[i] # Magic) \/ Len(d) < HeaderLen
    <2>1. \E x \in {"none", "error"} : Decode(d) = Outcome(x, d)
        BY <1>3 DEF Decode
    <2>2. Decode(d).rest = d /\ Decode(d).result # "frame"
        BY <2>1 DEF Outcome
    <2> QED BY <1>2, <2>2
<1>4. CASE ~ (Len(d) < MagicLen \/ (\E i \in 1 .. MagicLen : d[i] # Magic) \/ Len(d) < HeaderLen)
    <2>1. Decode(d) = DecodeBody(d) /\ HeaderLen <= Len(d)
        BY <1>1, <1>4, Widths DEF Decode
    <2>2. d[1] = Magic
        <3>1. 1 \in 1 .. MagicLen
            BY Widths
        <3> QED BY <1>4, <3>1
    <2>3. PICK r, t, l, e : /\ r = Skip(d, HeaderLen) /\ t = d[MagicLen + 2]
                            /\ l = d[HeaderLen] % Mod /\ e = DecodeFields(t, r, l)
        OBVIOUS
    <2>4. r \in Stream /\ Len(r) = Len(d) - HeaderLen /\ HeaderLen \in 0 .. Len(d)
        <3>1. IsTail(r, d, HeaderLen)
            BY <2>1, <2>3, SkipIs, Widths
        <3> QED BY <1>1, <2>1, <3>1, Widths DEF IsTail
    <2>5. \/ Decode(d) = Outcome("error", Skip(d, MagicLen + 1))
          \/ Decode(d) = Outcome("panic", r)
          \/ Decode(d) = Outcome("error", r)
          \/ /\ t \in DOMAIN DecodedType
             /\ Decode(d).result = "frame" /\ Decode(d).rest = e.rest
        BY <2>1, <2>3 DEF DecodeBody
    <2>6. CASE Decode(d) = Outcome("error", Skip(d, MagicLen + 1))
        <3>1. MagicLen + 1 \in 0 .. Len(d)
            BY <1>1, <2>1, Widths
        <3>2. Decode(d).rest = Skip(d, MagicLen + 1) /\ Decode(d).result # "frame"
            BY <2>6 DEF Outcome
        <3> QED BY <3>1, <3>2
    <2>7. CASE Decode(d) = Outcome("panic", r) \/ Decode(d) = Outcome("error", r)
        <3>1. Decode(d).rest = r /\ Decode(d).result # "frame"
            BY <2>7 DEF Outcome
        <3> QED BY <2>3, <2>4, <3>1
    <2>8. CASE /\ t \in DOMAIN DecodedType
               /\ Decode(d).result = "frame" /\ Decode(d).rest = e.rest
        <3>1. t \in 1 .. 8
            BY <2>8, TypesNumbered
        <3>2. l \in Int
            <4>1. HeaderLen \in 1 .. Len(d)
                BY <1>1, <2>1, Widths
            <4>2. d[HeaderLen] \in Int
                BY <4>1 DEF Stream
            <4> QED BY <2>3, <4>2, Widths
        <3>3. PICK n \in 0 .. Len(r) : e.rest = Skip(r, n)
            BY <2>3, <2>4, <3>1, <3>2, FieldsWithin
        <3>4. HeaderLen + n \in 0 .. Len(d) /\ n \in Nat /\ HeaderLen <= HeaderLen + n
            BY <1>1, <2>1, <2>4, <3>3, Widths
        <3>5. Skip(r, n) = Skip(d, HeaderLen + n)
            <4>1. HeaderLen + n <= Len(d)
                BY <3>4
            <4> QED BY <2>3, <3>4, <4>1, SkipTwice, Widths
        <3> QED BY <2>2, <2>8, <3>3, <3>4, <3>5
    <2> QED BY <2>5, <2>6, <2>7, <2>8
<1> QED BY <1>3, <1>4

-----------------------------------------------------------------------------
(* The bytes that are still to be decoded are the last of those written,   *)
(* from the k-th on, and m frames came out: where k is not yet past the    *)
(* beginning of the frame after the i-th, no more than i of them.          *)

Behind(s, m, k) == \A i \in 0 .. Len(s) : k < Ends(s, i) + MagicLen => m <= i

HoldsFrom(s, p, d, k) ==
    /\ Len(d) = Received(s, p) - k
    /\ \A b \in 1 .. Len(d) : d[b] = All(s)[k + b]

Bounded(s, p, d, g) ==
    /\ d \in Stream
    /\ \E k \in Nat : HoldsFrom(s, p, d, k) /\ Behind(s, Len(g), k)

BInv ==
    /\ IInv
    /\ Len(sent) <= MaxSent /\ state \in {"reading", "ended", "panicked"}
    /\ Bounded(sent, pipe, buffer, got)

LEMMA ReceivedType ==
    ASSUME NEW s \in Seq(Sample), NEW p, IsPipe(s, p)
    PROVE  /\ Received(s, p) \in Nat /\ Received(s, p) <= Len(All(s))
           /\ Received(s, p) + Len(p) = Len(All(s)) /\ Len(p) \in Nat
<1>1. PICK a, b : a = Len(All(s)) /\ b = Len(p)
    OBVIOUS
<1>2. a \in Nat /\ b \in Nat /\ b <= a
    BY <1>1, WireType DEF IsPipe, Stream
<1>3. a - b \in Nat /\ a - b <= a /\ (a - b) + b = a
    BY <1>2
<1> QED BY <1>1, <1>2, <1>3 DEF Received

(* Where the earlier frames end.                                           *)
LEMMA EndsRise ==
    ASSUME NEW s \in Seq(Sample), NEW i \in 0 .. Len(s), NEW j \in 0 .. Len(s), i <= j
    PROVE  Ends(s, i) <= Ends(s, j)
<1>1. PICK e, n : e = Wire(s) /\ n = Len(s)
    OBVIOUS
<1>2. n \in Nat /\ Streams(e, n)
    BY <1>1, WireType
<1>3. Streams(e, j) /\ j \in Nat /\ i \in 0 .. j
    BY <1>1, <1>2 DEF Streams
<1>4. Len(Joined(e, i)) <= Len(Joined(e, j))
    <2>1. IsBeginning(Joined(e, i), Joined(e, j))
        BY <1>3, JoinedWhole
    <2> QED BY <2>1 DEF IsBeginning
<1> QED BY <1>1, <1>4 DEF Ends

LEMMA BoundedSend ==
    ASSUME NEW s \in Seq(Sample), NEW f \in Sample, NEW p, IsPipe(s, p),
           NEW t, IsGrown(s, f, t), NEW d, NEW g, Len(g) \in Nat, Bounded(s, p, d, g)
    PROVE  Bounded(t, p \o Encode(f), d, g)
<1>0. PICK q : q = p \o Encode(f)
    OBVIOUS
<1>1. q = p \o Encode(f) /\ Received(t, q) = Received(s, p)
    BY <1>0, PipeGrows
<1>2. PICK k \in Nat : HoldsFrom(s, p, d, k) /\ Behind(s, Len(g), k)
    BY DEF Bounded
<1>3. d \in Stream /\ Len(d) \in Nat
    BY DEF Bounded, Stream
<1>4. Received(s, p) \in Nat /\ Received(s, p) <= Len(All(s)) /\ Len(All(s)) \in Nat
    BY ReceivedType, WireType
<1>5. PICK c, a : c = Received(s, p) /\ a = Len(All(s))
    OBVIOUS
<1>6. Len(d) = c - k /\ \A b \in 1 .. Len(d) : d[b] = All(s)[k + b]
    BY <1>2, <1>5 DEF HoldsFrom
<1>7. ASSUME NEW b \in 1 .. Len(d) PROVE d[b] = All(t)[k + b]
    <2>1. PICK y : y = k + b
        OBVIOUS
    <2>2. y \in 1 .. a
        BY <1>3, <1>4, <1>5, <1>6, <2>1
    <2> QED BY <1>5, <1>6, <2>1, <2>2 DEF IsGrown
<1>8. HoldsFrom(t, q, d, k)
    BY <1>1, <1>5, <1>6, <1>7 DEF HoldsFrom
<1>9. Behind(t, Len(g), k)
    <2>1. SUFFICES ASSUME NEW i \in 0 .. Len(t), k < Ends(t, i) + MagicLen
                   PROVE  Len(g) <= i
        BY DEF Behind
    <2>2. Len(s) \in Nat /\ Len(t) = Len(s) + 1
        BY WireType DEF IsGrown
    <2>3. CASE i \in 0 .. Len(s)
        <3>1. Ends(t, i) = Ends(s, i)
            BY <2>3 DEF IsGrown
        <3> QED BY <1>2, <2>1, <2>3, <3>1 DEF Behind
    <2>4. CASE i \notin 0 .. Len(s)
        <3>1. Ends(s, Len(s)) = a
            BY <1>5, WireType
        <3>2. k <= c
            BY <1>3, <1>4, <1>5, <1>6
        <3>3. k < a + MagicLen /\ Len(s) \in 0 .. Len(s)
            BY <1>4, <1>5, <2>2, <3>2, Widths
        <3>4. Len(g) <= Len(s)
            BY <1>2, <3>1, <3>3 DEF Behind
        <3> QED BY <2>1, <2>2, <2>4, <3>4
    <2> QED BY <2>3, <2>4
<1> QED BY <1>1, <1>3, <1>8, <1>9 DEF Bounded

LEMMA BoundedRead ==
    ASSUME NEW s \in Seq(Sample), NEW p, IsPipe(s, p), NEW n \in 1 .. Len(p),
           NEW d, NEW g, Bounded(s, p, d, g)
    PROVE  Bounded(s, Skip(p, n), d \o SubSeq(p, 1, n), g)
<1>1. p \in Stream /\ Len(p) \in Nat /\ Len(p) <= Len(All(s)) /\ Len(All(s)) \in Nat /\ n \in Nat
    BY WireType DEF IsPipe, Stream
<1>2. PICK m, a, q, x : m = Len(p) /\ a = Len(All(s)) /\ q = Skip(p, n) /\ x = SubSeq(p, 1, n)
    OBVIOUS
<1>3. n \in 1 .. m /\ m \in Nat /\ a \in Nat /\ m <= a
      /\ \A b \in 1 .. m : p[b] = All(s)[(a - m) + b]
    BY <1>1, <1>2 DEF IsPipe, Received
<1>4. Len(q) = m - n
    <2>1. IsTail(q, p, n)
        BY <1>1, <1>2, SkipIs
    <2> QED BY <1>2, <2>1 DEF IsTail
<1>5. x \in Stream /\ Len(x) = n /\ \A b \in 1 .. n : x[b] = p[b]
    BY <1>1, <1>2 DEF Stream
<1>6. Received(s, p) = a - m /\ Received(s, q) = (a - m) + n
    BY <1>2, <1>3, <1>4 DEF Received
<1>7. PICK e \in Nat : HoldsFrom(s, p, d, e) /\ Behind(s, Len(g), e)
    BY DEF Bounded
<1>8. /\ d \in Stream /\ Len(d) \in Nat /\ Len(d) = (a - m) - e
      /\ \A b \in 1 .. Len(d) : d[b] = All(s)[e + b]
    BY <1>6, <1>7 DEF Bounded, HoldsFrom, Stream
<1>9. PICK y : y = d \o x
    OBVIOUS
<1>10. /\ y \in Stream /\ Len(y) = Len(d) + n
       /\ \A i \in 1 .. Len(d) : y[i] = d[i]
       /\ \A i \in 1 .. n : y[Len(d) + i] = x[i]
    <2>1. /\ y \in Stream /\ Len(y) = Len(d) + Len(x)
          /\ \A i \in 1 .. Len(d) : y[i] = d[i]
          /\ \A i \in 1 .. Len(x) : y[Len(d) + i] = x[i]
        BY <1>5, <1>8, <1>9, HeadAndTail
    <2> QED BY <1>5, <2>1
<1>11. Len(y) = ((a - m) + n) - e
    BY <1>3, <1>8, <1>10
<1>12. ASSUME NEW b \in 1 .. Len(y) PROVE y[b] = All(s)[e + b]
    <2>1. CASE b <= Len(d)
        BY <1>8, <1>10, <1>12, <2>1
    <2>2. CASE ~ (b <= Len(d))
        <3>1. PICK c : c = b - Len(d)
            OBVIOUS
        <3>2. c \in 1 .. n /\ c \in 1 .. m /\ b = Len(d) + c /\ (a - m) + c = e + b
            <4>1. PICK u, v : u = Len(d) /\ v = a - m
                OBVIOUS
            <4>2. /\ u \in Nat /\ v \in Nat /\ u = v - e /\ b \in 1 .. u + n /\ ~ (b <= u)
                  /\ n \in 1 .. m /\ m \in Nat /\ c = b - u
                BY <1>3, <1>8, <1>10, <1>12, <2>2, <3>1, <4>1
            <4>3. c \in 1 .. n /\ c \in 1 .. m /\ b = u + c /\ v + c = e + b
                BY <4>2
            <4> QED BY <4>1, <4>3
        <3>3. y[b] = x[c] /\ x[c] = p[c]
            BY <1>5, <1>10, <3>2
        <3>4. p[c] = All(s)[(a - m) + c]
            BY <1>3, <3>2
        <3> QED BY <3>2, <3>3, <3>4
    <2> QED BY <2>1, <2>2
<1>13. HoldsFrom(s, q, y, e)
    BY <1>6, <1>11, <1>12 DEF HoldsFrom
<1> QED BY <1>2, <1>7, <1>9, <1>10, <1>13 DEF Bounded

(* A frame comes out: it began with a magic byte, where one began that was *)
(* sent, and what is left begins after its header.                         *)
LEMMA BoundedDecode ==
    ASSUME NEW s \in Seq(Sample), NEW p, IsPipe(s, p), NEW d, NEW S, NEW g \in Seq(S),
           Bounded(s, p, d, g)
    PROVE  /\ Bounded(s, p, Decode(d).rest, g)
           /\ Decode(d).result = "frame" =>
                  Bounded(s, p, Decode(d).rest, Append(g, Decode(d).frame))
<1>1. PICK k \in Nat : HoldsFrom(s, p, d, k) /\ Behind(s, Len(g), k)
    BY DEF Bounded
<1>2. d \in Stream /\ Len(d) \in Nat
    BY DEF Bounded, Stream
<1>3. PICK c : c = Received(s, p) /\ c \in Nat /\ c <= Len(All(s)) /\ Len(All(s)) \in Nat
    BY ReceivedType, WireType
<1>4. Len(d) = c - k /\ \A b \in 1 .. Len(d) : d[b] = All(s)[k + b]
    BY <1>1, <1>3 DEF HoldsFrom
<1>5. PICK n \in 0 .. Len(d) :
          /\ Decode(d).rest = Skip(d, n)
          /\ Decode(d).result = "frame" => HeaderLen <= n /\ d[1] = Magic
    BY <1>2, DecodeTakes
<1>6. PICK r, l : r = Skip(d, n) /\ l = k + n
    OBVIOUS
<1>7. r \in Stream /\ Len(r) = Len(d) - n /\ \A b \in 1 .. Len(d) - n : r[b] = d[n + b]
    <2>1. IsTail(r, d, n)
        BY <1>2, <1>6, SkipIs
    <2> QED BY <2>1 DEF IsTail
<1>8. l \in Nat /\ HoldsFrom(s, p, r, l)
    <2>1. l \in Nat /\ Len(r) = c - l
        BY <1>2, <1>3, <1>4, <1>6, <1>7
    <2>2. ASSUME NEW b \in 1 .. Len(r) PROVE r[b] = All(s)[l + b]
        <3>1. PICK y : y = n + b
            OBVIOUS
        <3>2. y \in 1 .. Len(d) /\ k + y = l + b
            BY <1>2, <1>6, <1>7, <3>1
        <3> QED BY <1>4, <1>7, <3>1, <3>2
    <2> QED BY <1>3, <2>1, <2>2 DEF HoldsFrom
<1>9. Len(g) \in Nat
    OBVIOUS
<1>10. \A i \in 0 .. Len(s) : Ends(s, i) \in Nat
    BY WireType
<1>11. Bounded(s, p, r, g)
    <2>1. Behind(s, Len(g), l)
        <3>1. SUFFICES ASSUME NEW i \in 0 .. Len(s), l < Ends(s, i) + MagicLen
                       PROVE  Len(g) <= i
            BY DEF Behind
        <3>2. k < Ends(s, i) + MagicLen
            BY <1>2, <1>6, <1>10, <3>1, Widths
        <3> QED BY <1>1, <3>2 DEF Behind
    <2> QED BY <1>7, <1>8, <2>1 DEF Bounded
<1>12. ASSUME Decode(d).result = "frame"
       PROVE  Bounded(s, p, r, Append(g, Decode(d).frame))
    <2>1. HeaderLen <= n /\ d[1] = Magic /\ 1 \in 1 .. Len(d)
        BY <1>2, <1>5, <1>12, Widths
    <2>2. PICK b : b = k + 1
        OBVIOUS
    <2>3. b \in 1 .. Len(All(s)) /\ All(s)[b] = Magic
        BY <1>2, <1>3, <1>4, <2>1, <2>2
    <2>4. PICK j \in 1 .. Len(s) : Ends(s, j - 1) < b /\ b <= Ends(s, j - 1) + MagicLen
        BY <2>3, MagicPlace
    <2>5. Len(s) \in Nat /\ j - 1 \in 0 .. Len(s) /\ j \in Nat /\ Ends(s, j - 1) \in Nat
        BY <1>10, <2>4
    <2>6. Len(g) <= j - 1
        <3>1. k < Ends(s, j - 1) + MagicLen
            BY <2>2, <2>4, <2>5, Widths
        <3> QED BY <1>1, <2>5, <3>1 DEF Behind
    <2>7. PICK h : h = Append(g, Decode(d).frame)
        OBVIOUS
    <2>8. Len(h) = Len(g) + 1
        BY <2>7, GotGrows
    <2>9. Behind(s, Len(h), l)
        <3>1. SUFFICES ASSUME NEW i \in 0 .. Len(s), l < Ends(s, i) + MagicLen
                       PROVE  Len(h) <= i
            BY DEF Behind
        <3>2. ~ (i <= j - 1)
            <4>1. SUFFICES ASSUME i <= j - 1 PROVE FALSE
                OBVIOUS
            <4>2. Ends(s, i) <= Ends(s, j - 1)
                BY <2>5, <4>1, EndsRise
            <4>3. PICK x, y : x = Ends(s, i) /\ y = Ends(s, j - 1)
                OBVIOUS
            <4>4. x \in Nat /\ y \in Nat /\ x <= y /\ l < x + MagicLen
                BY <1>10, <2>5, <3>1, <4>2, <4>3
            <4>5. y <= k /\ k + HeaderLen <= l
                <5>1. y < k + 1
                    BY <2>2, <2>4, <4>3
                <5> QED BY <1>2, <1>5, <1>6, <2>1, <4>4, <5>1, Widths
            <4> QED BY <1>2, <1>8, <4>4, <4>5, Widths
        <3> QED BY <1>9, <2>5, <2>6, <2>8, <3>2
    <2> QED BY <1>7, <1>8, <2>7, <2>9 DEF Bounded
<1> QED BY <1>5, <1>6, <1>11, <1>12

LEMMA InitBounded == Init => BInv
<1>1. SUFFICES ASSUME Init PROVE BInv
    OBVIOUS
<1>2. IInv /\ sent = <<>> /\ pipe = <<>> /\ buffer = <<>> /\ got = <<>> /\ state = "reading"
    BY <1>1, InitInvariant DEF Init
<1>3. Len(<<>>) = 0 /\ <<>> \in Seq(Int) /\ <<>> \in Seq(Sample)
    OBVIOUS
<1>4. PICK s, p : s = <<>> /\ p = <<>> /\ s \in Seq(Sample) /\ Len(s) = 0 /\ Len(p) = 0
    BY <1>3
<1>5. Ends(s, 0) = 0 /\ Ends(s, Len(s)) = Len(All(s))
    BY <1>4, WireType
<1>6. Received(s, p) = 0
    <2>1. PICK a, b : a = Len(All(s)) /\ b = Len(p) /\ a = 0 /\ b = 0
        BY <1>4, <1>5
    <2>2. a - b = 0
        BY <2>1
    <2> QED BY <2>1, <2>2 DEF Received
<1>7. HoldsFrom(s, p, p, 0) /\ Behind(s, 0, 0)
    BY <1>4, <1>6 DEF HoldsFrom, Behind
<1>8. Bounded(sent, pipe, buffer, got)
    <2>1. p \in Stream /\ sent = s /\ pipe = p /\ buffer = p /\ Len(got) = 0
        BY <1>2, <1>3, <1>4 DEF Stream
    <2> QED BY <1>7, <2>1 DEF Bounded
<1>9. Len(sent) <= MaxSent
    BY <1>2, <1>3, SampleAssumption
<1> QED BY <1>2, <1>8, <1>9 DEF BInv

LEMMA StepBounded == BInv /\ [Next]_vars => BInv'
<1>1. SUFFICES ASSUME BInv, [Next]_vars PROVE BInv'
    OBVIOUS
<1>2. IInv /\ IInv'
    BY <1>1, StepInvariant DEF BInv
<1>3. PICK s, p, d, g : s = sent /\ p = pipe /\ d = buffer /\ g = got
    OBVIOUS
<1>4. /\ s \in Seq(Sample) /\ IsPipe(s, p) /\ Bounded(s, p, d, g) /\ Len(s) <= MaxSent
      /\ state \in {"reading", "ended", "panicked"}
    BY <1>1, <1>3 DEF BInv, IInv
<1>5. PICK S : g \in Seq(S)
    BY <1>2, <1>3 DEF IInv
<1>6. Len(g) \in Nat
    BY <1>5
<1>7. ASSUME NEW f \in Sample, Send(f) PROVE BInv'
    <2>1. /\ sent' = Append(s, f) /\ pipe' = p \o Encode(f) /\ Len(s) < MaxSent
          /\ buffer' = d /\ got' = g /\ state' = state
        BY <1>3, <1>7, EncodedIs DEF Send
    <2>2. PICK t : t = Append(s, f) /\ IsGrown(s, f, t)
        BY <1>4, Grown
    <2>3. Bounded(t, p \o Encode(f), d, g)
        BY <1>4, <1>6, <2>2, BoundedSend
    <2>4. Len(t) <= MaxSent
        <3>1. Len(t) = Len(s) + 1 /\ Len(s) \in Nat
            BY <1>4, <2>2 DEF IsGrown
        <3> QED BY <2>1, <3>1, SampleAssumption
    <2> QED BY <1>2, <1>4, <2>1, <2>2, <2>3, <2>4 DEF BInv
<1>8. ASSUME NEW n \in 1 .. Len(pipe), Read(n) PROVE BInv'
    <2>1. /\ sent' = s /\ pipe' = Skip(p, n) /\ buffer' = d \o SubSeq(p, 1, n)
          /\ got' = g /\ state' = state /\ n \in 1 .. Len(p)
        BY <1>3, <1>8 DEF Read
    <2>2. Bounded(s, Skip(p, n), d \o SubSeq(p, 1, n), g)
        BY <1>4, <2>1, BoundedRead
    <2> QED BY <1>2, <1>4, <2>1, <2>2 DEF BInv
<1>9. CASE PollPeer
    <2>1. /\ sent' = s /\ pipe' = p /\ buffer' = Decode(d).rest
          /\ got' = IF Decode(d).result = "frame" THEN Append(g, Decode(d).frame) ELSE g
          /\ state' \in {"reading", "ended", "panicked"}
        BY <1>3, <1>9 DEF PollPeer
    <2>2. Bounded(s, p, Decode(d).rest, got')
        <3>1. CASE Decode(d).result = "frame"
            <4>1. got' = Append(g, Decode(d).frame)
                BY <2>1, <3>1
            <4> QED BY <1>4, <1>5, <3>1, <4>1, BoundedDecode
        <3>2. CASE Decode(d).result # "frame"
            <4>1. got' = g
                BY <2>1, <3>2
            <4> QED BY <1>4, <1>5, <4>1, BoundedDecode
        <3> QED BY <3>1, <3>2
    <2> QED BY <1>2, <1>4, <2>1, <2>2 DEF BInv
<1>10. CASE UNCHANGED vars
    BY <1>2, <1>3, <1>4, <1>10 DEF BInv, vars
<1> QED BY <1>1, <1>7, <1>8, <1>9, <1>10 DEF Next

LEMMA TypeFromBounded == BInv => TypeOK
<1>1. SUFFICES ASSUME BInv PROVE TypeOK
    OBVIOUS
<1>2. PICK s, p, d, g : s = sent /\ p = pipe /\ d = buffer /\ g = got
    OBVIOUS
<1>3. /\ s \in Seq(Sample) /\ IsPipe(s, p) /\ Bounded(s, p, d, g) /\ Len(s) <= MaxSent
      /\ state \in {"reading", "ended", "panicked"}
      /\ readable \in BOOLEAN /\ torn \in BOOLEAN /\ Len(g) \in Nat
    BY <1>1, <1>2 DEF BInv, IInv
<1>4. PICK k \in Nat : HoldsFrom(s, p, d, k) /\ Behind(s, Len(g), k)
    BY <1>3 DEF Bounded
<1>5. PICK c, a : /\ c = Received(s, p) /\ a = Len(All(s)) /\ c \in Nat /\ c <= a /\ a \in Nat
                  /\ c + Len(p) = a /\ Len(p) \in Nat
    BY <1>3, ReceivedType, WireType
<1>6. Len(d) = c - k /\ Len(d) \in Nat
    <2>1. Len(d) = c - k
        BY <1>4, <1>5 DEF HoldsFrom
    <2>2. d \in Stream
        BY <1>3 DEF Bounded
    <2> QED BY <2>1, <2>2 DEF Stream
<1>7. Len(p) + Len(d) <= a
    BY <1>5, <1>6
<1>8. Len(g) <= Len(s) /\ Len(s) \in Nat
    <2>1. Ends(s, Len(s)) = a /\ Len(s) \in 0 .. Len(s) /\ Len(s) \in Nat
        BY <1>3, <1>5, WireType
    <2>2. k < a + MagicLen
        BY <1>5, <1>6, Widths
    <2> QED BY <1>4, <2>1, <2>2 DEF Behind
<1>9. Len(g) <= MaxSent
    BY <1>3, <1>8, SampleAssumption
<1>10. Len(FlattenSeq([i \in DOMAIN s |-> Encoded[s[i]]])) = a
    <2>1. DOMAIN s = 1 .. Len(s) /\ Len(s) \in 0 .. Len(s) /\ Ends(s, Len(s)) = a
        BY <1>3, <1>5, WireType
    <2> QED BY <1>3, <2>1, WrittenIs
<1> QED BY <1>2, <1>3, <1>7, <1>9, <1>10 DEF TypeOK

(* However the stream is cut, and whatever a frame that the format cannot  *)
(* carry makes of the rest: no byte is decoded twice, and no more frames   *)
(* come out than were sent, as each begins at the magic bytes of one.      *)
THEOREM TypeCorrect == Spec => []TypeOK
BY InitBounded, StepBounded, TypeFromBounded, PTL DEF Spec

=============================================================================
