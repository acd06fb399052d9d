-------------------------- MODULE RouterLocks_proofs --------------------------
(***************************************************************************)
(* Proofs about RouterLocks, for any number of peer tasks and of other     *)
(* tasks: a guard excludes the guards it should, and no circle of waiting  *)
(* tasks closes but through handle_setup_ack.                              *)
(*                                                                         *)
(* The argument is a lock order.  Leads(h, way, K) says that a handler     *)
(* that holds the guards h and goes way takes every lock in that order, or *)
(* is in handle_setup_ack, and holds one of the sets in K at its end.  It  *)
(* composes as the ways do, so that it is proved for each handler step by  *)
(* step, and it is inductive for what the tasks have still to do.          *)
(***************************************************************************)
EXTENDS RouterLocks, SequenceTheorems, WellFoundedInduction, TLAPS

Op == {"read", "write"}
Guard == Lock \X Op
Steps == [op : Op \cup {"send"}, lock : Lock, drops : SUBSET Lock]

(* The order in which the locks are taken.                                 *)
Rank(l) == CASE l = "ascending" -> 1
             [] l = "descending" -> 2
             [] l = "paths" -> 3
             [] l = "candidate" -> 4
             [] l = "upload" -> 5

PathsGuard == <<"paths", "write">>

(* A task with guards h may wait for the lock of a step: it comes after    *)
(* all that it holds, or handle_setup_ack asks for the ascending path.     *)
MayTake(h, step) ==
    step.op # "send" =>
        \A g \in h : \/ Rank(g[1]) < Rank(step.lock)
                     \/ g[1] # "ascending" /\ step.lock = "ascending" /\ PathsGuard \in h

(* The guards after a step.                                                *)
Takes(step) == IF step.op = "send" THEN {} ELSE {<<step.lock, step.op>>}
After(h, step) == {g \in h \cup Takes(step) : g[1] \notin step.drops}

(* hs[i] are the guards before the i-th step of way.                       *)
Runs(hs, way) ==
    /\ hs \in [1 .. Len(way) + 1 -> SUBSET Guard]
    /\ \A i \in 1 .. Len(way) : MayTake(hs[i], way[i]) /\ hs[i + 1] = After(hs[i], way[i])

Leads(h, way, K) == \E hs : Runs(hs, way) /\ hs[1] = h /\ hs[Len(way) + 1] \in K

AllLead(h, ways, K) == \A way \in ways : way \in Seq(Steps) /\ Leads(h, way, K)

-----------------------------------------------------------------------------
(* How Leads composes.                                                     *)

LEMMA LeadsTypes ==
    ASSUME NEW way \in Seq(Steps), NEW h, NEW K, Leads(h, way, K)
    PROVE  h \in SUBSET Guard
BY LenProperties DEF Leads, Runs

LEMMA AfterType ==
    ASSUME NEW h \in SUBSET Guard, NEW step \in Steps
    PROVE  After(h, step) \in SUBSET Guard
BY DEF After, Takes, Steps, Guard, Op

LEMMA LeadsNowhere ==
    ASSUME NEW h \in SUBSET Guard, NEW K, h \in K
    PROVE  <<>> \in Seq(Steps) /\ Leads(h, <<>>, K)
<1> DEFINE hs == [i \in 1 .. 1 |-> h]
<1>1. Len(<<>>) = 0 /\ <<>> \in Seq(Steps)
  BY EmptySeq
<1>2. Runs(hs, <<>>) /\ hs[1] = h
  BY <1>1 DEF Runs
<1>3. QED
  BY <1>1, <1>2 DEF Leads

LEMMA LeadsOneStep ==
    ASSUME NEW h \in SUBSET Guard, NEW step \in Steps, MayTake(h, step),
           NEW K, After(h, step) \in K
    PROVE  <<step>> \in Seq(Steps) /\ Leads(h, <<step>>, K)
<1> DEFINE hs == [i \in 1 .. 2 |-> IF i = 1 THEN h ELSE After(h, step)]
<1>1. Len(<<step>>) = 1 /\ <<step>>[1] = step /\ <<step>> \in Seq(Steps)
  OBVIOUS
<1>2. After(h, step) \in SUBSET Guard
  BY AfterType
<1>3. hs \in [1 .. 2 -> SUBSET Guard] /\ hs[1] = h /\ hs[2] = After(h, step)
  BY <1>2
<1> HIDE DEF hs
<1>4. Runs(hs, <<step>>)
  BY <1>1, <1>3 DEF Runs
<1>5. QED
  BY <1>1, <1>3, <1>4 DEF Leads

LEMMA LeadsThen ==
    ASSUME NEW r \in Seq(Steps), NEW s \in Seq(Steps), NEW h, NEW K, NEW M,
           Leads(h, r, K), \A k \in K : Leads(k, s, M)
    PROVE  r \o s \in Seq(Steps) /\ Leads(h, r \o s, M)
<1>1. PICK hs : Runs(hs, r) /\ hs[1] = h /\ hs[Len(r) + 1] \in K
  BY DEF Leads
<1>2. PICK ks : Runs(ks, s) /\ ks[1] = hs[Len(r) + 1] /\ ks[Len(s) + 1] \in M
  BY <1>1 DEF Leads
<1>3. /\ Len(r) \in Nat /\ Len(s) \in Nat
      /\ r \o s \in Seq(Steps) /\ Len(r \o s) = Len(r) + Len(s)
      /\ \A i \in 1 .. Len(r) : (r \o s)[i] = r[i]
      /\ \A i \in 1 .. Len(s) : (r \o s)[Len(r) + i] = s[i]
  BY LenProperties, ConcatProperties
<1> DEFINE n == Len(r)
           both == [i \in 1 .. n + Len(s) + 1 |-> IF i <= n THEN hs[i] ELSE ks[i - n]]
<1>4. /\ both \in [1 .. n + Len(s) + 1 -> SUBSET Guard]
      /\ \A i \in 1 .. n : both[i] = hs[i]
      /\ \A i \in 1 .. Len(s) + 1 : both[n + i] = ks[i]
  BY <1>1, <1>2, <1>3 DEF Runs
<1>5. both[n + 1] = hs[n + 1]
  BY <1>2, <1>3, <1>4
<1> HIDE DEF both
<1>6. ASSUME NEW i \in 1 .. n
      PROVE  MayTake(both[i], (r \o s)[i]) /\ both[i + 1] = After(both[i], (r \o s)[i])
  <2>1. both[i + 1] = hs[i + 1]
    BY <1>3, <1>4, <1>5
  <2>2. QED
    BY <1>1, <1>3, <1>4, <2>1 DEF Runs
<1>7. ASSUME NEW i \in 1 .. Len(s)
      PROVE  /\ MayTake(both[n + i], (r \o s)[n + i])
             /\ both[(n + i) + 1] = After(both[n + i], (r \o s)[n + i])
  <2>1. both[(n + i) + 1] = ks[i + 1]
    <3>1. PICK j \in 1 .. Len(s) + 1 : j = i + 1 /\ n + j = (n + i) + 1
      BY <1>3
    <3>2. both[n + j] = ks[j]
      BY <1>4
    <3>3. QED
      BY <3>1, <3>2
  <2>2. QED
    BY <1>2, <1>3, <1>4, <2>1 DEF Runs
<1>8. Runs(both, r \o s)
  <2>1. ASSUME NEW i \in 1 .. n + Len(s)
        PROVE  MayTake(both[i], (r \o s)[i]) /\ both[i + 1] = After(both[i], (r \o s)[i])
    <3>1. CASE i <= n
      BY <1>3, <1>6, <3>1
    <3>2. CASE ~ (i <= n)
      <4>1. i - n \in 1 .. Len(s) /\ n + (i - n) = i
        BY <1>3, <3>2
      <4>2. QED
        BY <1>7, <4>1
    <3>3. QED
      BY <3>1, <3>2
  <2>2. QED
    BY <1>3, <1>4, <2>1 DEF Runs
<1>9. both[1] = h /\ both[Len(r \o s) + 1] \in M
  <2>1. both[1] = hs[1]
    BY <1>3, <1>4, <1>5
  <2>2. both[n + (Len(s) + 1)] = ks[Len(s) + 1]
    BY <1>3, <1>4
  <2>3. QED
    BY <1>1, <1>2, <1>3, <2>1, <2>2
<1>10. QED
  BY <1>3, <1>8, <1>9 DEF Leads

(* The rest of a way, with the guards after its first step.                *)
LEMMA LeadsOn ==
    ASSUME NEW way \in Seq(Steps), way # <<>>, NEW h, NEW K, Leads(h, way, K)
    PROVE  /\ MayTake(h, Head(way))
           /\ Tail(way) \in Seq(Steps) /\ Leads(After(h, Head(way)), Tail(way), K)
<1>1. PICK hs : Runs(hs, way) /\ hs[1] = h /\ hs[Len(way) + 1] \in K
  BY DEF Leads
<1>2. /\ Len(way) \in Nat \ {0} /\ Head(way) = way[1]
      /\ Tail(way) \in Seq(Steps) /\ Len(Tail(way)) = Len(way) - 1
      /\ \A i \in 1 .. Len(Tail(way)) : Tail(way)[i] = way[i + 1]
  BY HeadTailProperties, EmptySeq
<1> DEFINE ks == [i \in 1 .. Len(way) |-> hs[i + 1]]
<1>3. /\ ks \in [1 .. Len(way) -> SUBSET Guard]
      /\ \A i \in 1 .. Len(way) : ks[i] = hs[i + 1]
  BY <1>1, <1>2 DEF Runs
<1> HIDE DEF ks
<1>4. Runs(ks, Tail(way))
  <2>1. ASSUME NEW i \in 1 .. Len(Tail(way))
        PROVE  MayTake(ks[i], Tail(way)[i]) /\ ks[i + 1] = After(ks[i], Tail(way)[i])
    <3>1. i + 1 \in 1 .. Len(way) /\ i \in 1 .. Len(way)
      BY <1>2
    <3>2. QED
      BY <1>1, <1>2, <1>3, <3>1 DEF Runs
  <2>2. QED
    BY <1>2, <1>3, <2>1 DEF Runs
<1>5. ks[1] = After(h, Head(way)) /\ MayTake(h, Head(way))
  BY <1>1, <1>2, <1>3 DEF Runs
<1>6. ks[Len(Tail(way)) + 1] \in K
  BY <1>1, <1>2, <1>3
<1>7. QED
  BY <1>2, <1>4, <1>5, <1>6 DEF Leads

-----------------------------------------------------------------------------
(* The same for sets of ways.                                              *)

AnyGuards == SUBSET Guard
NoGuards == {{}}

LEMMA AllLeadThen ==
    ASSUME NEW h, NEW rs, NEW ss, NEW K, NEW M,
           AllLead(h, rs, K), \A k \in K : AllLead(k, ss, M)
    PROVE  AllLead(h, Then(rs, ss), M)
<1>1. ASSUME NEW r \in rs, NEW s \in ss
      PROVE  r \o s \in Seq(Steps) /\ Leads(h, r \o s, M)
  <2>1. r \in Seq(Steps) /\ Leads(h, r, K)
    BY DEF AllLead
  <2>2. K # {}
    BY <2>1 DEF Leads
  <2>3. s \in Seq(Steps) /\ \A k \in K : Leads(k, s, M)
    BY <2>2 DEF AllLead
  <2>4. QED
    BY <2>1, <2>3, LeadsThen
<1>2. \A way \in Then(rs, ss) : \E r \in rs, s \in ss : way = r \o s
  BY DEF Then
<1>3. QED
  BY <1>1, <1>2 DEF AllLead

LEMMA AllLeadMaybe ==
    ASSUME NEW h \in AnyGuards, NEW rs, NEW K, AllLead(h, rs, K), h \in K
    PROVE  AllLead(h, Maybe(rs), K)
BY LeadsNowhere DEF AllLead, Maybe, AnyGuards

LEMMA AllLeadUnion ==
    ASSUME NEW h, NEW rs, NEW ss, NEW K, AllLead(h, rs, K), AllLead(h, ss, K)
    PROVE  AllLead(h, rs \cup ss, K)
BY DEF AllLead

LEMMA AllLeadWeaken ==
    ASSUME NEW h, NEW rs, NEW K, NEW M, AllLead(h, rs, K), K \subseteq M
    PROVE  AllLead(h, rs, M)
BY DEF AllLead, Leads

LEMMA AllLeadOne ==
    ASSUME NEW h \in AnyGuards, NEW a \in Steps, MayTake(h, a), NEW K, After(h, a) \in K
    PROVE  AllLead(h, {<<a>>}, K)
BY LeadsOneStep DEF AllLead, AnyGuards

LEMMA TupleIsConcat ==
    ASSUME NEW a \in Steps, NEW b \in Steps
    PROVE  /\ <<a, b>> = <<a>> \o <<b>>
           /\ \A c \in Steps : <<a, b, c>> = <<a>> \o <<b, c>>
<1>1. ASSUME NEW s \in Seq(Steps), NEW t \in Seq(Steps), Len(t) = Len(s) + 1, t[1] = a,
             \A i \in 1 .. Len(s) : t[i + 1] = s[i]
      PROVE  t = <<a>> \o s
  <2>1. <<a>> \in Seq(Steps) /\ Len(<<a>>) = 1 /\ <<a>>[1] = a /\ Len(s) \in Nat
    BY LenProperties
  <2>2. /\ <<a>> \o s \in Seq(Steps) /\ Len(<<a>> \o s) = 1 + Len(s)
        /\ \A i \in 1 .. 1 + Len(s) : (<<a>> \o s)[i] = IF i <= 1 THEN a ELSE s[i - 1]
    BY <2>1, ConcatProperties
  <2>3. \A i \in 1 .. Len(t) : t[i] = (<<a>> \o s)[i]
    <3>1. ASSUME NEW i \in 1 .. Len(t), i # 1
          PROVE  t[i] = s[i - 1]
      <4>1. i - 1 \in 1 .. Len(s) /\ (i - 1) + 1 = i
        BY <1>1, <2>1, <3>1
      <4>2. QED
        BY <1>1, <4>1
    <3>2. QED
      BY <1>1, <2>1, <2>2, <3>1
  <2>4. QED
    BY <1>1, <2>2, <2>3, SeqEqual
<1>2. <<a, b>> = <<a>> \o <<b>>
  <2> DEFINE s == <<b>>
             t == <<a, b>>
  <2>1. s \in Seq(Steps) /\ Len(s) = 1 /\ s[1] = b
    OBVIOUS
  <2>2. t \in Seq(Steps) /\ Len(t) = 2 /\ t[1] = a /\ t[2] = b
    OBVIOUS
  <2> HIDE DEF s, t
  <2>3. Len(t) = Len(s) + 1 /\ \A i \in 1 .. Len(s) : t[i + 1] = s[i]
    BY <2>1, <2>2
  <2>4. t = <<a>> \o s
    BY <1>1, <2>1, <2>2, <2>3, Zenon
  <2>5. QED
    BY <2>4 DEF s, t
<1>3. ASSUME NEW c \in Steps
      PROVE  <<a, b, c>> = <<a>> \o <<b, c>>
  <2> DEFINE s == <<b, c>>
             t == <<a, b, c>>
  <2>1. s \in Seq(Steps) /\ Len(s) = 2 /\ s[1] = b /\ s[2] = c
    OBVIOUS
  <2>2. t \in Seq(Steps) /\ Len(t) = 3 /\ t[1] = a /\ t[2] = b /\ t[3] = c
    OBVIOUS
  <2> HIDE DEF s, t
  <2>3. Len(t) = Len(s) + 1 /\ \A i \in 1 .. Len(s) : t[i + 1] = s[i]
    BY <2>1, <2>2
  <2>4. t = <<a>> \o s
    BY <1>1, <2>1, <2>2, <2>3, Zenon
  <2>5. QED
    BY <2>4 DEF s, t
<1>4. QED
  BY <1>2, <1>3

LEMMA AllLeadTwo ==
    ASSUME NEW h \in AnyGuards, NEW a \in Steps, NEW b \in Steps, MayTake(h, a),
           MayTake(After(h, a), b), NEW K, After(After(h, a), b) \in K
    PROVE  AllLead(h, {<<a, b>>}, K)
<1>1. AllLead(h, {<<a>>}, {After(h, a)})
  BY AllLeadOne
<1>2. After(h, a) \in AnyGuards
  BY AfterType DEF AnyGuards
<1>3. \A k \in {After(h, a)} : AllLead(k, {<<b>>}, K)
  BY <1>2, AllLeadOne
<1>4. AllLead(h, Then({<<a>>}, {<<b>>}), K)
  BY <1>1, <1>3, AllLeadThen
<1>5. <<a, b>> = <<a>> \o <<b>>
  BY TupleIsConcat
<1>6. QED
  BY <1>4, <1>5 DEF AllLead, Then

LEMMA AllLeadThree ==
    ASSUME NEW h \in AnyGuards, NEW a \in Steps, NEW b \in Steps, NEW c \in Steps,
           MayTake(h, a), MayTake(After(h, a), b), MayTake(After(After(h, a), b), c),
           NEW K, After(After(After(h, a), b), c) \in K
    PROVE  AllLead(h, {<<a, b, c>>}, K)
<1>1. AllLead(h, {<<a>>}, {After(h, a)})
  BY AllLeadOne
<1>2. After(h, a) \in AnyGuards
  BY AfterType DEF AnyGuards
<1>3. \A k \in {After(h, a)} : AllLead(k, {<<b, c>>}, K)
  BY <1>2, AllLeadTwo
<1>4. AllLead(h, Then({<<a>>}, {<<b, c>>}), K)
  BY <1>1, <1>3, AllLeadThen
<1>5. <<a, b, c>> = <<a>> \o <<b, c>>
  BY TupleIsConcat
<1>6. QED
  BY <1>4, <1>5 DEF AllLead, Then

-----------------------------------------------------------------------------
(* The steps of the handlers.                                              *)

Below(h, l) == \A g \in h : Rank(g[1]) < Rank(l)

LEMMA StepTypes ==
    ASSUME NEW l \in Lock
    PROVE  /\ R(l) \in Steps /\ W(l) \in Steps /\ Look(l) \in Steps /\ Change(l) \in Steps
           /\ \A drops \in SUBSET Lock, op \in Op \cup {"send"} : Step(op, l, drops) \in Steps
BY DEF R, W, Look, Change, Step, Steps, Op

LEMMA InOrder ==
    ASSUME NEW h \in AnyGuards, NEW l \in Lock, Below(h, l)
    PROVE  /\ MayTake(h, R(l)) /\ After(h, R(l)) = h \cup {<<l, "read">>}
           /\ MayTake(h, W(l)) /\ After(h, W(l)) = h \cup {<<l, "write">>}
           /\ MayTake(h, Look(l)) /\ After(h, Look(l)) = h
           /\ MayTake(h, Change(l)) /\ After(h, Change(l)) = h
<1>1. \A g \in h : g[1] # l
  BY DEF Below, Rank, Lock
<1>2. MayTake(h, R(l)) /\ MayTake(h, W(l)) /\ MayTake(h, Look(l)) /\ MayTake(h, Change(l))
  BY DEF MayTake, Below, R, W, Look, Change, Step
<1>3. After(h, R(l)) = h \cup {<<l, "read">>} /\ After(h, W(l)) = h \cup {<<l, "write">>}
  BY DEF After, Takes, R, W, Step
<1>4. After(h, Look(l)) = h /\ After(h, Change(l)) = h
  BY <1>1 DEF After, Takes, Look, Change, Step
<1>5. QED
  BY <1>2, <1>3, <1>4

LEMMA LookPasses ==
    ASSUME NEW h \in AnyGuards, NEW l \in Lock, Below(h, l)
    PROVE  AllLead(h, {<<Look(l)>>}, {h}) /\ AllLead(h, {<<Change(l)>>}, {h})
BY InOrder, StepTypes, AllLeadOne

LEMMA SendPasses ==
    ASSUME NEW h \in AnyGuards, Below(h, "upload")
    PROVE  AllLead(h, Send, {h})
<1> DEFINE put == Step("send", "upload", {"upload"})
<1>1. "upload" \in Lock
  BY DEF Lock
<1>2. R("upload") \in Steps /\ put \in Steps
  BY <1>1, StepTypes
<1>3. MayTake(h, R("upload")) /\ After(h, R("upload")) = h \cup {<<"upload", "read">>}
  BY <1>1, InOrder
<1>4. \A k : MayTake(k, put)
  BY DEF MayTake, Step
<1>5. \A g \in h : g[1] # "upload"
  BY DEF Below, Rank
<1>6. After(h \cup {<<"upload", "read">>}, put) = h
  BY <1>5 DEF After, Takes, Step
<1> HIDE DEF put
<1>7. AllLead(h, {<<R("upload"), put>>}, {h})
  BY <1>2, <1>3, <1>4, <1>6, AllLeadTwo
<1>8. QED
  BY <1>7 DEF Send, put

-----------------------------------------------------------------------------
(* The handlers, each from no guards.                                      *)

LEMMA Locks ==
    /\ {"ascending", "descending", "paths", "candidate", "upload"} \subseteq Lock
    /\ {} \in AnyGuards /\ \A l \in Lock : Below({}, l)
    /\ \A h \in AnyGuards, l \in Lock, op \in Op : h \cup {<<l, op>>} \in AnyGuards
BY DEF Lock, AnyGuards, Guard, Below, Op

LEMMA GuardSets ==
    ASSUME NEW l \in Lock, NEW k \in Lock, NEW op \in Op, NEW p \in Op
    PROVE  {<<l, op>>} \in AnyGuards /\ {<<l, op>>} \cup {<<k, p>>} \in AnyGuards
BY DEF AnyGuards, Guard

LEMMA SendLeads == AllLead({}, Send, NoGuards)
BY Locks, SendPasses DEF NoGuards

(* After ways that end without guards, ways that begin without.            *)
LEMMA NoneThen ==
    ASSUME NEW rs, NEW ss, NEW K, AllLead({}, rs, NoGuards), AllLead({}, ss, K)
    PROVE  AllLead({}, Then(rs, ss), K)
BY AllLeadThen DEF NoGuards

LEMMA NoneMaybe ==
    ASSUME NEW rs, AllLead({}, rs, NoGuards)
    PROVE  AllLead({}, Maybe(rs), NoGuards)
BY Locks, AllLeadMaybe DEF NoGuards

LEMMA LookLeads ==
    ASSUME NEW l \in Lock
    PROVE  AllLead({}, {<<Look(l)>>}, NoGuards) /\ AllLead({}, {<<Change(l)>>}, NoGuards)
BY Locks, LookPasses DEF NoGuards

LEMMA TeardownLeads ==
    AllLead({}, TeardownPath, NoGuards) /\ AllLead({}, TeardownTask, NoGuards)
<1> DEFINE last == Step("write", "paths", {"ascending", "descending", "paths"})
           one == {<<"ascending", "write">>}
           two == one \cup {<<"descending", "write">>}
<1>1. one \in AnyGuards /\ two \in AnyGuards
  BY Locks, GuardSets DEF Op
<1>2. W("ascending") \in Steps /\ W("descending") \in Steps /\ last \in Steps
  BY Locks, StepTypes DEF Op
<1>3. MayTake({}, W("ascending")) /\ After({}, W("ascending")) = one
  BY Locks, InOrder
<1>4. Below(one, "descending") /\ Below(two, "paths")
  BY DEF Below, Rank
<1>5. MayTake(one, W("descending")) /\ After(one, W("descending")) = two
  BY Locks, <1>1, <1>4, InOrder
<1>6. MayTake(two, last) /\ After(two, last) = {}
  BY <1>4 DEF MayTake, Below, After, Takes, Step
<1> HIDE DEF last, one, two
<1>7. AllLead({}, {<<W("ascending"), W("descending"), last>>}, NoGuards)
  BY Locks, <1>2, <1>3, <1>5, <1>6, AllLeadThree DEF NoGuards
<1>8. AllLead({}, TeardownPath, NoGuards)
  BY <1>7 DEF TeardownPath, last
<1>9. QED
  BY <1>8, SendLeads, NoneThen, NoneMaybe DEF TeardownTask

LEMMA BootstrapNowLeads == AllLead({}, BootstrapNow, NoGuards) /\ AllLead({}, NextSnekHop, NoGuards)
<1>1. AllLead({}, NextSnekHop, NoGuards)
  BY Locks, LookLeads DEF NextSnekHop
<1>2. AllLead({}, Maybe(Then(NextSnekHop, Maybe(Send))), NoGuards)
  BY <1>1, SendLeads, NoneThen, NoneMaybe
<1>3. QED
  BY <1>1, <1>2, Locks, LookLeads, NoneThen DEF BootstrapNow

LEMMA MaintainSnekLeads == AllLead({}, MaintainSnek, NoGuards)
<1>1. AllLead({}, {<<Look("ascending"), Look("descending"), Look("paths")>>}, NoGuards)
  <2>1. /\ Look("ascending") \in Steps /\ Look("descending") \in Steps
        /\ Look("paths") \in Steps
    BY Locks, StepTypes
  <2>2. \A l \in {"ascending", "descending", "paths"} :
            MayTake({}, Look(l)) /\ After({}, Look(l)) = {}
    BY Locks, InOrder
  <2>3. QED
    BY Locks, <2>1, <2>2, AllLeadThree DEF NoGuards
<1>2. QED
  BY <1>1, BootstrapNowLeads, NoneThen, NoneMaybe DEF MaintainSnek

LEMMA HandleOtherLeads == AllLead({}, HandleOther, NoGuards)
BY SendLeads, BootstrapNowLeads, NoneThen, AllLeadUnion DEF HandleOther

LEMMA HandleBootstrapAckLeads == AllLead({}, HandleBootstrapAck, AnyGuards)
<1> DEFINE one == {<<"ascending", "read">>}
           two == one \cup {PathsGuard}
<1>1. one \in AnyGuards /\ two \in AnyGuards
  BY Locks, GuardSets DEF Op, PathsGuard
<1>2. R("ascending") \in Steps /\ W("paths") \in Steps /\ W("candidate") \in Steps
  BY Locks, StepTypes
<1>3. Below(one, "paths") /\ Below(two, "candidate") /\ Below(two, "upload")
  BY DEF Below, Rank, PathsGuard
<1>4. MayTake({}, R("ascending")) /\ After({}, R("ascending")) = one
  BY Locks, InOrder
<1>5. MayTake(one, W("paths")) /\ After(one, W("paths")) = two
  BY Locks, <1>1, <1>3, InOrder DEF PathsGuard
<1> HIDE DEF one, two
<1>6. MayTake(two, W("candidate")) /\ After(two, W("candidate")) \in AnyGuards
  BY Locks, <1>1, <1>2, <1>3, InOrder, AfterType DEF AnyGuards
<1>7. AllLead({}, {<<R("ascending"), W("paths")>>}, {two})
  BY Locks, <1>2, <1>4, <1>5, AllLeadTwo
<1>8. AllLead(two, Then(Send, {<<W("candidate")>>}), AnyGuards)
  <2>1. AllLead(two, Send, {two})
    BY <1>1, <1>3, SendPasses
  <2>2. AllLead(two, {<<W("candidate")>>}, AnyGuards)
    BY <1>1, <1>2, <1>6, AllLeadOne
  <2>3. QED
    BY <2>1, <2>2, AllLeadThen
<1>9. AllLead(two, Maybe(Then(Send, {<<W("candidate")>>})), AnyGuards)
  BY <1>1, <1>8, AllLeadMaybe
<1>10. QED
  BY <1>7, <1>9, AllLeadThen DEF HandleBootstrapAck

LEMMA HandleSetupLeads == AllLead({}, HandleSetup, AnyGuards)
<1> DEFINE one == {<<"descending", "write">>}
           two == one \cup {PathsGuard}
<1>1. one \in AnyGuards /\ two \in AnyGuards
  BY Locks, GuardSets DEF Op, PathsGuard
<1>2. W("descending") \in Steps /\ W("paths") \in Steps
  BY Locks, StepTypes
<1>3. Below(one, "paths") /\ Below(two, "upload")
  BY DEF Below, Rank, PathsGuard
<1>4. MayTake({}, W("descending")) /\ After({}, W("descending")) = one
  BY Locks, InOrder
<1>5. MayTake(one, W("paths")) /\ After(one, W("paths")) = two
  BY Locks, <1>1, <1>3, InOrder DEF PathsGuard
<1> HIDE DEF one, two
<1>6. AllLead({}, {<<W("descending"), W("paths")>>}, {two})
  BY Locks, <1>2, <1>4, <1>5, AllLeadTwo
<1>7. AllLead(two, Send, AnyGuards)
  BY <1>1, <1>3, SendPasses, AllLeadWeaken
<1>8. QED
  BY <1>6, <1>7, AllLeadThen DEF HandleSetup

(* Here the exception in MayTake is used, and nowhere else.                *)
LEMMA HandleSetupAckLeads == AllLead({}, HandleSetupAck, AnyGuards)
<1> DEFINE one == {PathsGuard}
           two == one \cup {<<"candidate", "write">>}
<1>1. one \in AnyGuards /\ two \in AnyGuards
  <2>1. one = {} \cup {<<"paths", "write">>}
    BY DEF PathsGuard
  <2>2. QED
    BY Locks, <2>1 DEF Op
<1>2. W("paths") \in Steps /\ W("candidate") \in Steps /\ W("ascending") \in Steps
  BY Locks, StepTypes
<1>3. Below(one, "candidate") /\ Below(one, "upload")
  BY DEF Below, Rank, PathsGuard
<1>4. MayTake({}, W("paths")) /\ After({}, W("paths")) = one
  BY Locks, InOrder DEF PathsGuard
<1>5. MayTake(one, W("candidate")) /\ After(one, W("candidate")) = two
  BY Locks, <1>1, <1>3, InOrder
<1>6. MayTake(two, W("ascending"))
  BY DEF MayTake, W, Step, PathsGuard
<1> HIDE DEF one, two
<1>7. After(two, W("ascending")) \in AnyGuards
  BY <1>1, <1>2, AfterType DEF AnyGuards
<1>8. AllLead({}, {<<W("paths")>>}, {one})
  BY Locks, <1>2, <1>4, AllLeadOne
<1>9. AllLead(one, {<<>>, <<W("candidate"), W("ascending")>>}, AnyGuards)
  <2>1. AllLead(one, {<<W("candidate"), W("ascending")>>}, AnyGuards)
    BY <1>1, <1>2, <1>5, <1>6, <1>7, AllLeadTwo
  <2>2. AllLead(one, {<<>>}, AnyGuards)
    BY <1>1, LeadsNowhere DEF AllLead, AnyGuards
  <2>3. QED
    BY <2>1, <2>2 DEF AllLead
<1>10. AllLead(one, Then(Maybe(Send), {<<W("candidate")>>}), AnyGuards)
  <2>1. AllLead(one, Maybe(Send), {one})
    BY <1>1, <1>3, SendPasses, AllLeadMaybe
  <2>2. AllLead(one, {<<W("candidate")>>}, AnyGuards)
    BY <1>1, <1>2, <1>5, AllLeadOne
  <2>3. QED
    BY <2>1, <2>2, AllLeadThen
<1>11. PICK on : /\ on = {<<>>, <<W("candidate"), W("ascending")>>}
                         \cup Then(Maybe(Send), {<<W("candidate")>>})
                 /\ AllLead(one, on, AnyGuards)
  BY <1>9, <1>10, AllLeadUnion
<1>12. AllLead({}, Then({<<W("paths")>>}, on), AnyGuards)
  BY <1>8, <1>11, AllLeadThen
<1>13. QED
  BY <1>11, <1>12 DEF HandleSetupAck

LEMMA DisconnectPeerLeads == AllLead({}, DisconnectPeer, NoGuards)
<1> DEFINE one == {<<"ascending", "read">>}
           last == Step("read", "descending", {"ascending", "descending"})
<1>1. AllLead({}, {<<R("ascending"), last>>}, NoGuards)
  <2>1. R("ascending") \in Steps /\ last \in Steps
    BY Locks, StepTypes DEF Op
  <2>2. MayTake({}, R("ascending")) /\ After({}, R("ascending")) = one
    BY Locks, InOrder
  <2>3. MayTake(one, last) /\ After(one, last) = {}
    BY DEF MayTake, Rank, After, Takes, Step
  <2> HIDE DEF one, last
  <2>4. QED
    BY Locks, <2>1, <2>2, <2>3, AllLeadTwo DEF NoGuards
<1>2. AllLead({}, TearDownOver, NoGuards)
  <2>1. AllLead({}, Then(Maybe(TeardownPath), {<<Look("descending")>>}), NoGuards)
    BY Locks, LookLeads, TeardownLeads, NoneMaybe, NoneThen
  <2>2. AllLead({}, Then({<<Look("ascending")>>},
                         Then(Maybe(TeardownPath), {<<Look("descending")>>})), NoGuards)
    BY <2>1, Locks, LookLeads, NoneThen
  <2>3. QED
    BY <1>1, <2>2, AllLeadUnion DEF TearDownOver
<1>3. AllLead({}, Maybe(Then({<<Look("paths")>>}, TearDownOver)), NoGuards)
  BY <1>2, Locks, LookLeads, NoneThen, NoneMaybe
<1>4. AllLead({}, Then({<<Change("upload")>>}, Maybe(BootstrapNow)), NoGuards)
  BY Locks, LookLeads, BootstrapNowLeads, NoneThen, NoneMaybe
<1>5. QED
  BY <1>3, <1>4, NoneThen DEF DisconnectPeer

LEMMA WaysLead ==
    ASSUME NEW t \in Task
    PROVE  AllLead({}, Ways(t), AnyGuards)
<1>1. NoGuards \subseteq AnyGuards
  BY DEF NoGuards, AnyGuards
<1>2. AllLead({}, AddPeer, NoGuards)
  BY Locks, LookLeads, SendLeads, NoneThen DEF AddPeer
<1>3. /\ AllLead({}, TeardownPath, AnyGuards) /\ AllLead({}, HandleOther, AnyGuards)
      /\ AllLead({}, MaintainSnek, AnyGuards) /\ AllLead({}, TeardownTask, AnyGuards)
      /\ AllLead({}, DisconnectPeer, AnyGuards) /\ AllLead({}, AddPeer, AnyGuards)
  BY <1>1, <1>2, TeardownLeads, HandleOtherLeads, MaintainSnekLeads, DisconnectPeerLeads,
     AllLeadWeaken
<1>4. QED
  BY <1>3, HandleBootstrapAckLeads, HandleSetupLeads, HandleSetupAckLeads, AllLeadUnion
     DEF Ways

-----------------------------------------------------------------------------
(* The inductive invariant.                                                *)

(* What a task may still do, it may do with the guards that it holds.      *)
WaysOK ==
    /\ todo \in [Task -> SUBSET Seq(Steps)] /\ held \in [Task -> AnyGuards]
    /\ \A t \in Task : \A way \in todo[t] : Leads(held[t], way, AnyGuards)
    /\ \A t \in Task : todo[t] = Idle => held[t] = {}

Exclusive ==
    \A t, u \in Task, l \in Lock, op \in Op :
        t # u /\ <<l, op>> \in held[t] => ~ Conflicts(u, l, op)

(* A task is in one queue, once, and knows what it waits for.              *)
QueuesOK ==
    /\ queue \in [Lock -> Seq(Task)]
    /\ \A l, k \in Lock : \A i \in 1 .. Len(queue[l]), j \in 1 .. Len(queue[k]) :
           queue[l][i] = queue[k][j] => l = k /\ i = j

WaitsToTake(t, l) ==
    \E step \in Steps :
        /\ step.op # "send" /\ step.lock = l
        /\ \A way \in todo[t] : way # <<>> /\ Head(way) = step

WaitersOK == \A t \in Task, l \in Lock : Waits(t, l) => WaitsToTake(t, l)

IInv == WaysOK /\ Exclusive /\ QueuesOK /\ WaitersOK

LEMMA NextStepTypes ==
    ASSUME WaysOK, NEW t \in Task, NEW step \in NextSteps(t)
    PROVE  step \in Steps
BY HeadTailProperties DEF WaysOK, NextSteps

LEMMA QueueTypes ==
    ASSUME QueuesOK, NEW l \in Lock
    PROVE  /\ queue[l] \in Seq(Task) /\ Len(queue[l]) \in Nat
           /\ DOMAIN queue[l] = 1 .. Len(queue[l])
           /\ \A i \in 1 .. Len(queue[l]) : queue[l][i] \in Task
BY LenProperties, ElementOfSeq DEF QueuesOK

(* The end of a step: what the task then holds and may do.                 *)
LEMMA StepDoneKeepsWays ==
    ASSUME WaysOK, NEW t \in Task, NEW step \in NextSteps(t), StepDone(t, step)
    PROVE  WaysOK' /\ held'[t] \subseteq held[t] \cup Takes(step)
           /\ \A u \in Task \ {t} : held'[u] = held[u] /\ todo'[u] = todo[u]
<1> DEFINE rest == {Tail(way) : way \in GoesOnWith(t, step)}
           left == After(held[t], step)
<1>1. step \in Steps /\ held[t] \in AnyGuards
  BY NextStepTypes DEF WaysOK
<1>2. todo' = [todo EXCEPT ![t] = rest]
      /\ held' = [held EXCEPT ![t] = IF rest = Idle THEN {} ELSE left]
  BY DEF StepDone, After, Takes
<1>3. \A way \in GoesOnWith(t, step) :
         /\ way \in Seq(Steps) /\ way # <<>> /\ Head(way) = step
         /\ Leads(held[t], way, AnyGuards)
  BY DEF GoesOnWith, WaysOK
<1>4. \A way \in rest : way \in Seq(Steps) /\ Leads(left, way, AnyGuards)
  BY <1>3, LeadsOn
<1>5. left \in AnyGuards /\ left \subseteq held[t] \cup Takes(step)
  BY <1>1, AfterType DEF AnyGuards, After
<1> HIDE DEF rest, left
<1>6. rest = Idle => \A way \in rest : Leads({}, way, AnyGuards)
  BY Locks, LeadsNowhere DEF Idle, AnyGuards
<1>7. todo' \in [Task -> SUBSET Seq(Steps)] /\ held' \in [Task -> AnyGuards]
  BY <1>2, <1>4, <1>5, Locks DEF WaysOK
<1>8. ASSUME NEW u \in Task, NEW way \in todo'[u]
      PROVE  Leads(held'[u], way, AnyGuards)
  BY <1>2, <1>4, <1>6, <1>8 DEF WaysOK
<1>9. ASSUME NEW u \in Task, todo'[u] = Idle
      PROVE  held'[u] = {}
  BY <1>2, <1>9 DEF WaysOK
<1>10. WaysOK'
  BY <1>7, <1>8, <1>9 DEF WaysOK, Idle
<1>11. held'[t] \subseteq held[t] \cup Takes(step)
  BY <1>2, <1>5 DEF WaysOK
<1>12. \A u \in Task \ {t} : held'[u] = held[u] /\ todo'[u] = todo[u]
  BY <1>2 DEF WaysOK
<1>13. QED
  BY <1>10, <1>11, <1>12

LEMMA StepDoneKeepsExclusive ==
    ASSUME WaysOK, Exclusive, NEW t \in Task, NEW step \in NextSteps(t), StepDone(t, step),
           step.op # "send" => Fits(step.lock, step.op)
    PROVE  Exclusive'
<1>1. held'[t] \subseteq held[t] \cup Takes(step) /\ \A u \in Task \ {t} : held'[u] = held[u]
  BY StepDoneKeepsWays
<1>2. ASSUME NEW u \in Task, u # t, NEW l \in Lock, NEW op \in Op, <<l, op>> \in held'[t]
      PROVE  ~ Conflicts(u, l, op)'
  <2>1. CASE <<l, op>> \in held[t]
    BY <1>1, <1>2, <2>1 DEF Exclusive, Conflicts
  <2>2. CASE step.op # "send" /\ l = step.lock /\ op = step.op
    BY <1>1, <1>2, <2>2 DEF Fits, Conflicts
  <2>3. QED
    BY <1>1, <1>2, <2>1, <2>2 DEF Takes
<1>3. ASSUME NEW u \in Task, u # t, NEW l \in Lock, NEW op \in Op, <<l, op>> \in held'[u],
             Conflicts(t, l, op)'
      PROVE  FALSE
  <2>1. PICK op2 \in Op : <<l, op2>> \in held'[t] /\ (op2 = "write" \/ op = "write")
    BY <1>3 DEF Conflicts, Op
  <2>2. Conflicts(u, l, op2)'
    BY <1>3, <2>1 DEF Conflicts, Op
  <2>3. QED
    BY <1>2, <1>3, <2>1, <2>2
<1>4. ASSUME NEW u \in Task, NEW v \in Task, u # t, v # t, u # v, NEW l \in Lock, NEW op \in Op,
             <<l, op>> \in held'[u]
      PROVE  ~ Conflicts(v, l, op)'
  BY <1>1, <1>4 DEF Exclusive, Conflicts
<1>5. QED
  BY <1>2, <1>3, <1>4 DEF Exclusive

LEMMA InitIInv == Init => IInv
<1> SUFFICES ASSUME Init PROVE IInv
  OBVIOUS
<1>1. Idle \in SUBSET Seq(Steps) /\ {} \in AnyGuards /\ Leads({}, <<>>, AnyGuards)
  BY Locks, LeadsNowhere DEF Idle, AnyGuards
<1>2. WaysOK
  BY <1>1 DEF Init, WaysOK, Idle
<1>3. Exclusive
  BY DEF Init, Exclusive
<1>4. QueuesOK /\ WaitersOK
  <2>1. \A l \in Lock : queue[l] = <<>>
    BY DEF Init
  <2>2. Len(<<>>) = 0 /\ DOMAIN <<>> = {} /\ <<>> \in Seq(Task)
    OBVIOUS
  <2>3. queue \in [Lock -> Seq(Task)]
    BY <2>2 DEF Init
  <2>4. QED
    BY <2>1, <2>2, <2>3 DEF QueuesOK, WaitersOK, Waits
<1>5. QED
  BY <1>2, <1>3, <1>4 DEF IInv

(* What waits in the queues after one has queued, or has been let through. *)
LEMMA AppendKeepsQueues ==
    ASSUME QueuesOK, NEW t \in Task, ~ Waiting(t), NEW l \in Lock,
           queue' = [queue EXCEPT ![l] = Append(@, t)]
    PROVE  /\ QueuesOK'
           /\ \A u \in Task, k \in Lock : Waits(u, k)' => Waits(u, k) \/ (u = t /\ k = l)
<1> DEFINE q == Append(queue[l], t)
<1>1. /\ q \in Seq(Task) /\ Len(q) = Len(queue[l]) + 1 /\ DOMAIN q = 1 .. Len(q)
      /\ \A i \in 1 .. Len(queue[l]) : q[i] = queue[l][i]
      /\ q[Len(queue[l]) + 1] = t
  BY QueueTypes, AppendProperties, LenProperties
<1>2. \A k \in Lock : \A i \in 1 .. Len(queue[k]) : queue[k][i] # t
  BY QueueTypes DEF Waiting, Waits
<1> HIDE DEF q
<1>3. queue' \in [Lock -> Seq(Task)] /\ \A k \in Lock : queue'[k] = IF k = l THEN q ELSE queue[k]
  BY <1>1 DEF QueuesOK, q
<1>4. \A i \in 1 .. Len(q) : \/ i \in 1 .. Len(queue[l]) /\ q[i] = queue[l][i]
                             \/ i = Len(queue[l]) + 1 /\ q[i] = t
  BY <1>1, QueueTypes
<1>5. ASSUME NEW j \in Lock, NEW k \in Lock, NEW i \in 1 .. Len(queue'[j]),
             NEW m \in 1 .. Len(queue'[k]), queue'[j][i] = queue'[k][m]
      PROVE  j = k /\ i = m
  BY <1>2, <1>3, <1>4, <1>5 DEF QueuesOK
<1>6. QueuesOK'
  BY <1>3, <1>5 DEF QueuesOK
<1>7. ASSUME NEW u \in Task, NEW k \in Lock, Waits(u, k)'
      PROVE  Waits(u, k) \/ (u = t /\ k = l)
  BY <1>1, <1>3, <1>4, <1>7, QueueTypes DEF Waits
<1>8. QED
  BY <1>6, <1>7

LEMMA TailKeepsQueues ==
    ASSUME QueuesOK, NEW l \in Lock, queue[l] # <<>>,
           queue' = [queue EXCEPT ![l] = Tail(@)]
    PROVE  /\ QueuesOK'
           /\ \A u \in Task, k \in Lock :
                  Waits(u, k)' => Waits(u, k) /\ u # Head(queue[l])
<1> DEFINE q == Tail(queue[l])
<1>1. /\ q \in Seq(Task) /\ Len(q) = Len(queue[l]) - 1 /\ DOMAIN q = 1 .. Len(q)
      /\ \A i \in 1 .. Len(q) : q[i] = queue[l][i + 1]
      /\ Head(queue[l]) = queue[l][1] /\ Len(queue[l]) \in Nat \ {0}
  BY QueueTypes, HeadTailProperties, LenProperties, EmptySeq
<1> HIDE DEF q
<1>2. queue' \in [Lock -> Seq(Task)] /\ \A k \in Lock : queue'[k] = IF k = l THEN q ELSE queue[k]
  BY <1>1 DEF QueuesOK, q
<1>3. \A i \in 1 .. Len(q) : i + 1 \in 1 .. Len(queue[l]) /\ i + 1 # 1 /\ q[i] = queue[l][i + 1]
  BY <1>1
<1>4. ASSUME NEW j \in Lock, NEW k \in Lock, NEW i \in 1 .. Len(queue'[j]),
             NEW m \in 1 .. Len(queue'[k]), queue'[j][i] = queue'[k][m]
      PROVE  j = k /\ i = m
  <2>1. CASE j = l /\ k = l
    BY <1>2, <1>3, <1>4, <2>1 DEF QueuesOK
  <2>2. CASE j = l /\ k # l
    BY <1>2, <1>3, <1>4, <2>2 DEF QueuesOK
  <2>3. CASE j # l /\ k = l
    BY <1>2, <1>3, <1>4, <2>3 DEF QueuesOK
  <2>4. CASE j # l /\ k # l
    BY <1>2, <1>4, <2>4 DEF QueuesOK
  <2>5. QED
    BY <2>1, <2>2, <2>3, <2>4
<1>5. QueuesOK'
  BY <1>2, <1>4 DEF QueuesOK
<1>6. ASSUME NEW u \in Task, NEW k \in Lock, Waits(u, k)'
      PROVE  Waits(u, k) /\ u # Head(queue[l])
  <2>1. 1 \in 1 .. Len(queue[l])
    BY <1>1
  <2>2. CASE k = l
    <3>1. PICK i \in 1 .. Len(q) : q[i] = u
      BY <1>1, <1>2, <1>6, <2>2 DEF Waits
    <3>2. queue[l][i + 1] = u /\ i + 1 \in 1 .. Len(queue[l]) /\ i + 1 # 1
      BY <1>3, <3>1
    <3>3. u # queue[l][1]
      BY <2>1, <3>2 DEF QueuesOK
    <3>4. QED
      BY <1>1, <2>2, <3>2, <3>3, QueueTypes DEF Waits
  <2>3. CASE k # l
    <3>1. Waits(u, k)
      BY <1>2, <1>6, <2>3 DEF Waits
    <3>2. PICK i \in 1 .. Len(queue[k]) : queue[k][i] = u
      BY <3>1, QueueTypes DEF Waits
    <3>3. u # queue[l][1]
      BY <2>1, <2>3, <3>2 DEF QueuesOK
    <3>4. QED
      BY <1>1, <3>1, <3>3
  <2>4. QED
    BY <2>2, <2>3
<1>7. QED
  BY <1>5, <1>6

LEMMA SameQueues ==
    ASSUME UNCHANGED queue
    PROVE  /\ QueuesOK => QueuesOK'
           /\ \A u \in Task, k \in Lock : Waits(u, k)' <=> Waits(u, k)
BY DEF QueuesOK, Waits

(* A task whose next steps are these waits for none but their lock.        *)
LEMMA WaiterSteps ==
    ASSUME IInv, NEW t \in Task, NEW l \in Lock, Waits(t, l), NEW step \in NextSteps(t)
    PROVE  step.lock = l /\ step.op # "send" /\ step \in Steps /\ MayTake(held[t], step)
<1>1. PICK way \in todo[t] : way # <<>> /\ Head(way) = step
  BY DEF NextSteps
<1>2. WaitsToTake(t, l)
  BY DEF IInv, WaitersOK
<1>3. step.lock = l /\ step.op # "send"
  BY <1>1, <1>2 DEF WaitsToTake
<1>4. way \in Seq(Steps) /\ Leads(held[t], way, AnyGuards)
  BY DEF IInv, WaysOK
<1>5. QED
  BY <1>1, <1>3, <1>4, LeadsOn, NextStepTypes DEF IInv

LEMMA AcquireKeeps ==
    ASSUME IInv, NEW t \in Task, Acquire(t)
    PROVE  IInv'
<1>1. PICK step \in NextSteps(t) :
         /\ step.op # "send"
         /\ IF queue[step.lock] = <<>> /\ Fits(step.lock, step.op)
            THEN StepDone(t, step) /\ UNCHANGED queue
            ELSE /\ queue' = [queue EXCEPT ![step.lock] = Append(@, t)]
                 /\ todo' = [todo EXCEPT ![t] = GoesOnWith(t, step)]
                 /\ UNCHANGED held
  BY DEF Acquire
<1>2. step \in Steps /\ step.lock \in Lock
  BY NextStepTypes DEF IInv, Steps
<1>3. ~ Waiting(t)
  BY DEF Acquire
<1>4. CASE StepDone(t, step) /\ Fits(step.lock, step.op) /\ UNCHANGED queue
  <2>1. WaysOK' /\ Exclusive' /\ \A u \in Task \ {t} : todo'[u] = todo[u]
    BY <1>1, <1>4, StepDoneKeepsWays, StepDoneKeepsExclusive DEF IInv
  <2>2. WaitersOK'
    BY <1>3, <1>4, <2>1, SameQueues DEF IInv, WaitersOK, WaitsToTake, Waiting
  <2>3. QED
    BY <1>4, <2>1, <2>2, SameQueues DEF IInv
<1>5. CASE /\ queue' = [queue EXCEPT ![step.lock] = Append(@, t)]
           /\ todo' = [todo EXCEPT ![t] = GoesOnWith(t, step)]
           /\ UNCHANGED held
  <2>1. /\ QueuesOK'
        /\ \A u \in Task, k \in Lock :
              Waits(u, k)' => Waits(u, k) \/ (u = t /\ k = step.lock)
    BY <1>2, <1>3, <1>5, AppendKeepsQueues DEF IInv
  <2>2. GoesOnWith(t, step) \subseteq todo[t] /\ GoesOnWith(t, step) # Idle
    BY DEF GoesOnWith, Idle
  <2>3. WaysOK'
    BY <1>5, <2>2 DEF IInv, WaysOK
  <2>4. WaitsToTake(t, step.lock)'
    BY <1>1, <1>2, <1>5 DEF WaitsToTake, GoesOnWith, IInv, WaysOK
  <2>5. \A u \in Task \ {t} : todo'[u] = todo[u]
    BY <1>5 DEF IInv, WaysOK
  <2>6. WaitersOK'
    BY <1>3, <2>1, <2>4, <2>5 DEF IInv, WaitersOK, WaitsToTake, Waiting
  <2>7. Exclusive'
    BY <1>5 DEF IInv, Exclusive, Conflicts
  <2>8. QED
    BY <2>1, <2>3, <2>6, <2>7 DEF IInv
<1>6. QED
  BY <1>1, <1>4, <1>5

LEMMA GrantedKeeps ==
    ASSUME IInv, NEW t \in Task, Granted(t)
    PROVE  IInv'
<1>1. PICK step \in NextSteps(t) :
         /\ Waits(t, step.lock) /\ Head(queue[step.lock]) = t
         /\ Fits(step.lock, step.op)
         /\ StepDone(t, step)
         /\ queue' = [queue EXCEPT ![step.lock] = Tail(@)]
  BY DEF Granted
<1>2. step \in Steps /\ step.lock \in Lock
  BY NextStepTypes DEF IInv, Steps
<1>3. queue[step.lock] # <<>>
  BY <1>1 DEF Waits
<1>4. /\ QueuesOK'
      /\ \A u \in Task, k \in Lock : Waits(u, k)' => Waits(u, k) /\ u # t
  BY <1>1, <1>2, <1>3, TailKeepsQueues DEF IInv
<1>5. WaysOK' /\ Exclusive' /\ \A u \in Task \ {t} : todo'[u] = todo[u]
  BY <1>1, StepDoneKeepsWays, StepDoneKeepsExclusive DEF IInv
<1>6. WaitersOK'
  BY <1>4, <1>5 DEF IInv, WaitersOK, WaitsToTake
<1>7. QED
  BY <1>4, <1>5, <1>6 DEF IInv

LEMMA SendFrameKeeps ==
    ASSUME IInv, NEW t \in Task, SendFrame(t)
    PROVE  IInv'
<1>1. PICK step \in NextSteps(t) : step.op = "send" /\ StepDone(t, step) /\ UNCHANGED queue
  BY DEF SendFrame
<1>2. \A l \in Lock : ~ Waits(t, l)
  BY <1>1, WaiterSteps
<1>3. WaysOK' /\ Exclusive' /\ \A u \in Task \ {t} : todo'[u] = todo[u]
  BY <1>1, StepDoneKeepsWays, StepDoneKeepsExclusive DEF IInv
<1>4. WaitersOK'
  BY <1>1, <1>2, <1>3, SameQueues DEF IInv, WaitersOK, WaitsToTake
<1>5. QED
  BY <1>1, <1>3, <1>4, SameQueues DEF IInv

(* A handler begins, or returns.                                           *)
LEMMA StartReturnKeep ==
    ASSUME IInv, NEW t \in Task, Start(t) \/ Return(t)
    PROVE  IInv'
<1>1. UNCHANGED queue /\ \A u \in Task \ {t} : todo'[u] = todo[u] /\ held'[u] = held[u]
  BY DEF IInv, WaysOK, Start, Return
<1>2. \A l \in Lock : ~ Waits(t, l)
  <2>1. <<>> \in todo[t]
    BY DEF Start, Return, Busy, Idle
  <2>2. QED
    BY <2>1 DEF IInv, WaitersOK, WaitsToTake
<1>3. WaysOK'
  <2>1. CASE Start(t)
    <3>1. held[t] = {} /\ AllLead({}, Ways(t), AnyGuards)
      BY <2>1, WaysLead DEF Start, Busy, IInv, WaysOK
    <3>2. QED
      BY <2>1, <3>1 DEF Start, AllLead, IInv, WaysOK
  <2>2. CASE Return(t)
    <3>1. Idle \in SUBSET Seq(Steps) /\ {} \in AnyGuards /\ Leads({}, <<>>, AnyGuards)
      BY Locks, LeadsNowhere DEF Idle, AnyGuards
    <3>2. QED
      BY <2>2, <3>1 DEF Return, Idle, IInv, WaysOK
  <2>3. QED
    BY <2>1, <2>2
<1>4. Exclusive'
  BY DEF Start, Return, IInv, WaysOK, Exclusive, Conflicts
<1>5. WaitersOK'
  BY <1>1, <1>2, SameQueues DEF IInv, WaitersOK, WaitsToTake
<1>6. QED
  BY <1>1, <1>3, <1>4, <1>5, SameQueues DEF IInv

LEMMA NextIInv == IInv /\ [Next]_vars => IInv'
<1>1. ASSUME IInv, UNCHANGED vars
      PROVE  IInv'
  BY <1>1 DEF vars, IInv, WaysOK, Exclusive, Conflicts, QueuesOK, WaitersOK, Waits, WaitsToTake
<1>2. QED
  BY <1>1, AcquireKeeps, GrantedKeeps, SendFrameKeeps, StartReturnKeep DEF Next, Goes

LEMMA IInvHolds == Spec => []IInv
BY InitIInv, NextIInv, PTL DEF Spec

-----------------------------------------------------------------------------
(* From the lock order to the absence of circles.                          *)

LEMMA LeastNat ==
    ASSUME NEW T, T \subseteq Nat, T # {}
    PROVE  \E m \in T : \A k \in T : m <= k
<1> DEFINE Less == {ij \in Nat \X Nat : ij[1] < ij[2]}
<1>1. Less = OpToRel(<, Nat)
  BY DEF OpToRel
<1>2. IsWellFoundedOn(Less, Nat)
  BY <1>1, NatLessThanWellFounded
<1>3. \A i, j \in Nat : i < j => <<i, j>> \in Less
  OBVIOUS
<1> HIDE DEF Less
<1>4. PICK m \in T : \A k \in T : <<k, m>> \notin Less
  BY <1>2, WFMin
<1>5. \A k \in T : k \in Nat /\ m \in Nat /\ ~ (k < m)
  BY <1>3, <1>4
<1>6. QED
  BY <1>5

LEMMA RankType ==
    ASSUME NEW l \in Lock
    PROVE  Rank(l) \in 1 .. 5
<1>1. \/ l = "ascending" \/ l = "descending" \/ l = "paths" \/ l = "candidate"
      \/ l = "upload"
  BY DEF Lock
<1>2. QED
  BY <1>1 DEF Rank

LEMMA LastOfSome ==
    ASSUME NEW L, L \subseteq Lock, L # {}
    PROVE  \E l \in L : \A k \in L : Rank(k) <= Rank(l)
<1>1. \A k \in L : \/ k = "ascending" \/ k = "descending" \/ k = "paths"
                  \/ k = "candidate" \/ k = "upload"
  BY DEF Lock
<1>2. CASE "upload" \in L
  BY <1>1, <1>2 DEF Rank
<1>3. CASE "upload" \notin L /\ "candidate" \in L
  BY <1>1, <1>3 DEF Rank
<1>4. CASE "upload" \notin L /\ "candidate" \notin L /\ "paths" \in L
  BY <1>1, <1>4 DEF Rank
<1>5. CASE "upload" \notin L /\ "candidate" \notin L /\ "paths" \notin L /\ "descending" \in L
  BY <1>1, <1>5 DEF Rank
<1>6. CASE L = {"ascending"}
  BY <1>6 DEF Rank
<1>7. QED
  BY <1>1, <1>2, <1>3, <1>4, <1>5, <1>6

(* A task that is kept from a lock waits for one that holds it, or for one *)
(* that stands before it.                                                  *)
WaitsOver(t, u, l) ==
    /\ Waits(t, l)
    /\ \/ \E op \in Op : <<l, op>> \in held[u]
       \/ \E i, j \in 1 .. Len(queue[l]) : i < j /\ queue[l][i] = u /\ queue[l][j] = t

LEMMA WaitsForWhom ==
    ASSUME IInv, NEW t \in Task, NEW u \in Task, WaitsFor(t, u)
    PROVE  \E l \in Lock : WaitsOver(t, u, l)
<1>1. PICK step \in NextSteps(t) :
         /\ Waits(t, step.lock)
         /\ \/ Conflicts(u, step.lock, step.op)
            \/ \E i, j \in DOMAIN queue[step.lock] :
                 i < j /\ queue[step.lock][i] = u /\ queue[step.lock][j] = t
  BY DEF WaitsFor
<1>2. step.lock \in Lock
  BY NextStepTypes DEF IInv, Steps
<1>3. DOMAIN queue[step.lock] = 1 .. Len(queue[step.lock])
  BY <1>2, QueueTypes DEF IInv
<1>4. QED
  BY <1>1, <1>2, <1>3 DEF Conflicts, Op, WaitsOver

(* A task that waits holds only guards of locks before that lock, but for  *)
(* the ascending path in handle_setup_ack, of which it holds no guard.     *)
LEMMA WaiterHolds ==
    ASSUME IInv, NEW u \in Task, NEW k \in Lock, Waits(u, k), NextSteps(u) # {},
           NEW l \in Lock, NEW op \in Op, <<l, op>> \in held[u]
    PROVE  \/ Rank(l) < Rank(k)
           \/ ClosesCircle(u) /\ l # k
<1>1. PICK step \in NextSteps(u) : TRUE
  OBVIOUS
<1>2. step.lock = k /\ step.op # "send" /\ MayTake(held[u], step)
  BY WaiterSteps
<1>3. QED
  BY <1>2 DEF MayTake, ClosesCircle, PathsGuard

(* No handler takes a lock twice: no task waits for itself, not even in    *)
(* handle_setup_ack.  Tokio's locks are not reentrant.                     *)
THEOREM NoneWaitsForItself == Spec => [](\A t \in Task : ~ WaitsFor(t, t))
<1>1. ASSUME IInv, NEW t \in Task, WaitsFor(t, t)
      PROVE  FALSE
  <2>0. PICK l \in Lock : WaitsOver(t, t, l)
    BY <1>1, WaitsForWhom
  <2>1. /\ Waits(t, l)
        /\ \/ \E op \in Op : <<l, op>> \in held[t]
           \/ \E i, j \in 1 .. Len(queue[l]) :
                  i < j /\ queue[l][i] = t /\ queue[l][j] = t
    BY <2>0 DEF WaitsOver
  <2>2. NextSteps(t) # {}
    BY <1>1 DEF WaitsFor
  <2>3. ~ \E op \in Op : <<l, op>> \in held[t]
    <3>1. ASSUME NEW op \in Op, <<l, op>> \in held[t]
          PROVE  Rank(l) < Rank(l)
      <4>1. Waits(t, l)
        BY <2>1
      <4>2. Rank(l) < Rank(l) \/ (ClosesCircle(t) /\ l # l)
        BY <1>1, <2>2, <3>1, <4>1, WaiterHolds, Zenon
      <4>3. QED
        BY <4>2
    <3>2. ~ (Rank(l) < Rank(l))
      BY RankType
    <3>3. QED
      BY <3>1, <3>2, Zenon
  <2>4. ~ \E i, j \in 1 .. Len(queue[l]) : i < j /\ queue[l][i] = t /\ queue[l][j] = t
    BY <1>1, QueueTypes DEF IInv, QueuesOK
  <2>5. QED
    BY <2>1, <2>3, <2>4
<1>2. IInv => \A t \in Task : ~ WaitsFor(t, t)
  BY <1>1
<1>3. QED
  BY <1>2, IInvHolds, PTL

(* tokio's RwLock as the tasks use it: a write guard excludes every other  *)
(* guard of its lock, and a task in a queue is there for its next step.    *)
THEOREM TypeCorrect == Spec => []TypeOK
<1>1. ASSUME IInv
      PROVE  TypeOK
  <2>1. held \in [Task -> SUBSET (Lock \X {"read", "write"})]
    BY <1>1 DEF IInv, WaysOK, AnyGuards, Guard, Op
  <2>2. \A t \in Task, l \in Lock : Waits(t, l) => \A step \in NextSteps(t) : step.lock = l
    BY <1>1, WaiterSteps
  <2>3. \A t \in Task, l \in Lock : \A u \in Task \ {t}, op \in {"read", "write"} :
           <<l, op>> \in held[t] => ~ Conflicts(u, l, op)
    BY <1>1 DEF IInv, Exclusive, Op
  <2>4. QED
    BY <2>1, <2>2, <2>3 DEF TypeOK
<1>2. QED
  BY <1>1, IInvHolds, PTL

(* Of tasks each of which waits for another of them, one is in             *)
(* handle_setup_ack, where it asks for the ascending path with the paths   *)
(* locked.  Otherwise look at those that wait for the lock that comes last *)
(* in the order, and at the first of them in its queue: whom it waits for  *)
(* would wait for a later lock, or stand before it.                        *)
THEOREM SetupAcksDeadlock == Spec => []OnlySetupAcksDeadlock
<1>1. ASSUME IInv, NEW ts \in SUBSET Task, Deadlocked(ts), \A t \in ts : ~ ClosesCircle(t)
      PROVE  FALSE
  <2> DEFINE wanted == {l \in Lock : \E t \in ts : Waits(t, l)}
  <2>1. ts # {} /\ \A t \in ts : t \in Task /\ NextSteps(t) # {} /\ \E u \in ts : WaitsFor(t, u)
    BY <1>1 DEF Deadlocked, WaitsFor
  <2>2. wanted # {}
    BY <1>1, <2>1, WaitsForWhom DEF WaitsOver
  <2>3. PICK l \in wanted : \A k \in wanted : Rank(k) <= Rank(l)
    BY <2>2, LastOfSome
  <2> DEFINE places == {i \in 1 .. Len(queue[l]) : queue[l][i] \in ts}
  <2>4. places # {} /\ places \subseteq Nat
    BY <1>1, <2>3, QueueTypes DEF Waits, IInv
  <2>5. PICK i \in places : \A j \in places : i <= j
    BY <2>4, LeastNat
  <2>6. PICK t \in ts : queue[l][i] = t
    BY <2>5
  <2>7. Waits(t, l)
    BY <1>1, <2>3, <2>5, <2>6, QueueTypes DEF Waits, IInv
  <2>8. PICK u \in ts : WaitsFor(t, u)
    BY <2>1
  <2>9. PICK k \in Lock : WaitsOver(t, u, k)
    BY <1>1, <2>1, <2>8, WaitsForWhom
  <2>10. k = l
    BY <1>1, <2>1, <2>3, <2>7, <2>9, WaiterSteps DEF WaitsOver
  <2>11. CASE \E op \in Op : <<l, op>> \in held[u]
    <3>1. PICK k2 \in Lock : Waits(u, k2)
      BY <1>1, <2>1, WaitsForWhom DEF WaitsOver
    <3>2. k2 \in wanted
      BY <3>1
    <3>3. Rank(l) < Rank(k2)
      BY <1>1, <2>1, <2>3, <2>11, <3>1, WaiterHolds
    <3>4. QED
      BY <2>3, <3>2, <3>3, RankType
  <2>12. CASE \E m, j \in 1 .. Len(queue[l]) : m < j /\ queue[l][m] = u /\ queue[l][j] = t
    <3>1. PICK m \in 1 .. Len(queue[l]), j \in 1 .. Len(queue[l]) :
             m < j /\ queue[l][m] = u /\ queue[l][j] = t
      BY <2>12
    <3>2. j = i
      BY <1>1, <2>3, <2>5, <2>6, <3>1 DEF IInv, QueuesOK
    <3>3. m \in places
      BY <3>1
    <3>4. QED
      BY <1>1, <2>3, <2>5, <3>1, <3>2, <3>3, QueueTypes DEF IInv
  <2>13. QED
    BY <2>9, <2>10, <2>11, <2>12 DEF WaitsOver
<1>2. IInv => OnlySetupAcksDeadlock
  BY <1>1 DEF OnlySetupAcksDeadlock
<1>3. QED
  BY <1>2, IInvHolds, PTL

=============================================================================
