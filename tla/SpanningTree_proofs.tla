------------------------ MODULE SpanningTree_proofs ------------------------
(***************************************************************************)
(* Proofs about SpanningTree, for any set of routers, any links and bounds *)
(* and both values of the timing constants; then that it implements        *)
(* RootElection, and what remains true when routers crash and restart.     *)
(***************************************************************************)
EXTENDS TreeElection, TreeRestart, TLAPS

Row == [Node -> Announcement \cup {None}]
Net == [Node -> [Node -> Seq(Announcement)]]

(* The part of TypeOK about the state of the routers themselves.           *)
RouterOK ==
    /\ parent \in [Node -> Node]
    /\ ann \in [Node -> Row]
    /\ older \in [Node -> SUBSET (Node \X Node)]
    /\ expired \in [Node -> SUBSET Node]
    /\ sequence \in [Node -> Nat]
    /\ timer \in [Node -> BOOLEAN]
    /\ tasks \in [Node -> TaskCount]

LinksOK ==
    /\ conn \in [Node -> [Node -> ConnState]]
    /\ first \in [Node -> Row]

LEMMA TypeParts == TypeOK <=> RouterOK /\ LinksOK /\ net \in Net
BY DEF TypeOK, RouterOK, LinksOK, Row, Net

-----------------------------------------------------------------------------
(* What the operators of the model return.                                 *)

LEMMA OwnType ==
    ASSUME NEW n \in Node, NEW s \in Nat
    PROVE  Own(n, s) \in Announcement
BY DEF Own, Announcement, Root

LEMMA SignedType ==
    ASSUME NEW a \in Announcement, NEW n \in Node
    PROVE  /\ Signed(a, n) \in Announcement
           /\ Signed(a, n).root = a.root
BY DEF Signed, Announcement

LEMMA CurrentInType ==
    ASSUME NEW n \in Node, NEW row \in Row, NEW p \in Node, RouterOK
    PROVE  CurrentIn(n, row, p) \in Announcement
BY OwnType, NoneAssumption DEF CurrentIn, Row, RouterOK

LEMMA SendToType ==
    ASSUME NEW q \in Net, NEW n \in Node, NEW T, NEW a \in Announcement
    PROVE  SendTo(q, n, T, a) \in Net
<1> DEFINE sent == [m \in Node |->
               IF m \in T /\ conn[m][n] \notin {"ending", "closed"}
               THEN Append(q[n][m], Signed(a, n)) ELSE q[n][m]]
<1>1. sent \in [Node -> Seq(Announcement)]
  BY SignedType DEF Net
<1>2. QED
  BY <1>1 DEF SendTo, Net

LEMMA ParentSelectionType ==
    ASSUME RouterOK, NEW n \in Node, NEW row \in Row,
           NEW peers \in SUBSET Node, NEW q \in Net,
           ParentSelection(n, row, peers, q)
    PROVE  parent' \in [Node -> Node] /\ net' \in Net
<1>1. CASE Eligible(n, row, peers) = {} /\ parent' = [parent EXCEPT ![n] = n]
           /\ net' = q
  BY <1>1 DEF RouterOK
<1>2. ASSUME NEW m \in Best(n, row, peers),
             parent' = [parent EXCEPT ![n] = m],
             net' = IF m = StartParent(n, row) THEN q
                    ELSE SendTo(q, n, peers, row[m])
      PROVE  parent' \in [Node -> Node] /\ net' \in Net
  <2>1. m \in Node /\ row[m] \in Announcement
    BY DEF Best, Eligible, Row
  <2>2. SendTo(q, n, peers, row[m]) \in Net
    BY <2>1, SendToType
  <2>3. QED
    BY <1>2, <2>1, <2>2 DEF RouterOK
<1>3. QED
  BY <1>1, <1>2 DEF ParentSelection

LEMMA StoreType ==
    ASSUME RouterOK, NEW n \in Node, NEW m \in Node, NEW f \in Announcement,
           Store(n, m, f)
    PROVE  /\ ann' = [ann EXCEPT ![n][m] = f]
           /\ ann' \in [Node -> Row]
           /\ older' \in [Node -> SUBSET (Node \X Node)]
           /\ expired' \in [Node -> SUBSET Node]
           /\ sequence' = sequence /\ timer' = timer
<1>1. ann' = [ann EXCEPT ![n][m] = f]
  BY DEF Store
<1>2. ann' \in [Node -> Row]
  BY <1>1 DEF RouterOK, Row
<1>3. older' \in [Node -> SUBSET (Node \X Node)]
  BY DEF Store, RouterOK
<1>4. expired' \in [Node -> SUBSET Node]
  BY DEF Store, RouterOK
<1>5. QED
  BY <1>1, <1>2, <1>3, <1>4 DEF Store

LEMMA SpawnType ==
    ASSUME RouterOK, NEW n \in Node, NEW kind \in {"wait", "sleep", "now"},
           Spawn(n, kind)
    PROVE  tasks' \in [Node -> TaskCount]
BY DEF Spawn, RouterOK, TaskCount

LEMMA HandleAnnouncementType ==
    ASSUME RouterOK, NEW n \in Node, NEW m \in Node, NEW f \in Announcement,
           NEW q \in Net, HandleAnnouncement(n, m, f, q)
    PROVE  RouterOK' /\ net' \in Net
<1>1. CASE Discard(n, m, f, q)
  BY <1>1 DEF Discard, router, RouterOK
<1>2. ASSUME Store(n, m, f), parent' \in [Node -> Node],
             tasks' \in [Node -> TaskCount], net' \in Net
      PROVE  RouterOK' /\ net' \in Net
  BY <1>2, StoreType DEF RouterOK
<1>3. CASE Store(n, m, f) /\ WaitingToReparent(n, m, f, q)
  BY <1>2, <1>3 DEF WaitingToReparent, RouterOK
<1> DEFINE cur == CurrentIn(n, [ann[n] EXCEPT ![m] = f], parent[n])
<1>4. cur \in Announcement
  <2>1. [ann[n] EXCEPT ![m] = f] \in Row
    BY DEF RouterOK, Row
  <2>2. QED
    BY <2>1, CurrentInType DEF RouterOK
<1>5. \A T : SendTo(q, n, T, cur) \in Net /\ SendTo(q, n, T, f) \in Net
  BY <1>4, SendToType
<1>6. CASE Store(n, m, f) /\ FromParent(n, m, f, cur, q)
  <2>1. net' \in Net
    BY <1>5, <1>6 DEF FromParent
  <2>2. parent' \in [Node -> Node]
    BY <1>6 DEF FromParent, RouterOK
  <2>3. tasks' \in [Node -> TaskCount]
    BY <1>6, SpawnType DEF FromParent, RouterOK
  <2>4. QED
    BY <1>2, <1>6, <2>1, <2>2, <2>3
<1>7. CASE Store(n, m, f) /\ LoopFromOther(n, m, f, q)
  BY <1>2, <1>7 DEF LoopFromOther, RouterOK
<1>8. CASE Store(n, m, f) /\ AcceptNewParent(n, m, f, cur, q)
  <2>1. net' \in Net
    BY <1>5, <1>8 DEF AcceptNewParent
  <2>2. parent' \in [Node -> Node] /\ tasks' \in [Node -> TaskCount]
    BY <1>8 DEF AcceptNewParent, RouterOK
  <2>3. QED
    BY <1>2, <1>8, <2>1, <2>2
<1>9. CASE Store(n, m, f) /\ InformPeerOfStrongerRoot(n, m, f, cur, q)
  <2>1. net' \in Net
    BY <1>5, <1>9 DEF InformPeerOfStrongerRoot
  <2>2. parent' \in [Node -> Node] /\ tasks' \in [Node -> TaskCount]
    BY <1>9 DEF InformPeerOfStrongerRoot, RouterOK
  <2>3. QED
    BY <1>2, <1>9, <2>1, <2>2
<1>10. CASE Store(n, m, f) /\ SelectNewParent(n, m, f, cur, q)
  <2>1. tasks' \in [Node -> TaskCount]
    BY <1>10, SpawnType DEF SelectNewParent
  <2>2. parent' \in [Node -> Node] /\ net' \in Net
    BY <1>10 DEF SelectNewParent, RouterOK
  <2>3. QED
    BY <1>2, <1>10, <2>1, <2>2
<1>11. QED
  BY <1>1, <1>3, <1>6, <1>7, <1>8, <1>9, <1>10 DEF HandleAnnouncement

LEMMA DisconnectPeerType ==
    ASSUME RouterOK, LinksOK, net \in Net, NEW n \in Node, NEW m \in Node,
           NEW lost \in BOOLEAN, NEW state \in ConnState,
           DisconnectPeer(n, m, lost, state)
    PROVE  RouterOK' /\ LinksOK' /\ net' \in Net
<1> DEFINE q == IF state = "closed" THEN [net EXCEPT ![m][n] = <<>>] ELSE net
           row == [ann[n] EXCEPT ![m] = None]
<1>1. q \in Net
  BY DEF Net
<1>2. row \in Row
  BY DEF RouterOK, Row
<1>3. Peers(n) \ {m} \in SUBSET Node
  BY DEF Peers
<1>4. parent' \in [Node -> Node] /\ net' \in Net
  <2>1. CASE parent[n] = m /\ ~ lost
    <3>1. ParentSelection(n, row, Peers(n) \ {m}, q)
      BY <2>1 DEF DisconnectPeer
    <3>2. QED
      BY <1>1, <1>2, <1>3, <3>1, ParentSelectionType
  <2>2. CASE ~ (parent[n] = m /\ ~ lost)
    <3>1. parent' = parent /\ net' = q
      BY <2>2 DEF DisconnectPeer
    <3>2. QED
      BY <1>1, <3>1 DEF RouterOK
  <2>3. QED
    BY <2>1, <2>2
<1>5. /\ ann' \in [Node -> Row]
      /\ older' \in [Node -> SUBSET (Node \X Node)]
      /\ expired' \in [Node -> SUBSET Node]
      /\ conn' \in [Node -> [Node -> ConnState]]
  <2>1. ann' \in [Node -> Row]
    BY DEF DisconnectPeer, RouterOK, Row
  <2>2. older' \in [Node -> SUBSET (Node \X Node)]
    BY DEF DisconnectPeer, RouterOK
  <2>3. expired' \in [Node -> SUBSET Node]
    BY DEF DisconnectPeer, RouterOK
  <2>4. conn' \in [Node -> [Node -> ConnState]]
    BY DEF DisconnectPeer, LinksOK
  <2>5. QED
    BY <2>1, <2>2, <2>3, <2>4
<1>6. sequence' = sequence /\ timer' = timer /\ tasks' = tasks /\ first' = first
  BY DEF DisconnectPeer
<1>7. QED
  BY <1>4, <1>5, <1>6 DEF RouterOK, LinksOK

-----------------------------------------------------------------------------
(* Type correctness.                                                       *)

LEMMA InitType == Init => TypeOK
BY NodeAssumption
DEF Init, TypeOK, TaskCount, ConnState

LEMMA PeerStepType ==
    ASSUME TypeOK, NEW n \in Node, NEW m \in Node, PeerStep(n, m)
    PROVE  TypeOK'
<1>0. RouterOK /\ LinksOK /\ net \in Net
  BY TypeParts
<1> SUFFICES RouterOK' /\ LinksOK' /\ net' \in Net
  BY DEF TypeOK, RouterOK, LinksOK, Row, Net
<1> USE <1>0
<1>1. CASE Connect(n, m)
  <2>1. Current(n) \in Announcement
    BY CurrentInType DEF Current, RouterOK
  <2>2. net' \in Net
    BY <1>1, <2>1, SendToType DEF Connect
  <2>3. conn' \in [Node -> [Node -> ConnState]]
    BY <1>1 DEF Connect, LinksOK, ConnState
  <2>4. QED
    BY <1>1, <2>2, <2>3 DEF Connect, router, RouterOK, LinksOK
<1>2. CASE AddPeer(n, m)
  <2>1. /\ net[m][n] \in Seq(Announcement) /\ net[m][n] # <<>>
        /\ Head(net[m][n]) \in Announcement
        /\ Tail(net[m][n]) \in Seq(Announcement)
    BY <1>2 DEF AddPeer, Net
  <2>2. net' \in Net
    BY <1>2, <2>1 DEF AddPeer, Net
  <2>3. conn' \in [Node -> [Node -> ConnState]] /\ first' \in [Node -> Row]
    BY <1>2, <2>1 DEF AddPeer, LinksOK, ConnState, Row
  <2>4. QED
    BY <1>2, <2>2, <2>3 DEF AddPeer, router, RouterOK, LinksOK
<1>3. CASE HandleFirst(n, m)
  <2>1. first[n][m] \in Announcement
    BY <1>3 DEF HandleFirst, LinksOK, Row
  <2>2. RouterOK' /\ net' \in Net
    BY <1>3, <2>1, HandleAnnouncementType DEF HandleFirst
  <2>3. LinksOK'
    BY <1>3 DEF HandleFirst, LinksOK, Row
  <2>4. QED
    BY <2>2, <2>3
<1>4. CASE PollPeer(n, m)
  <2> DEFINE q == [net EXCEPT ![m][n] = Tail(@)]
  <2>1. /\ net[m][n] \in Seq(Announcement) /\ net[m][n] # <<>>
        /\ Head(net[m][n]) \in Announcement
        /\ Tail(net[m][n]) \in Seq(Announcement)
    BY <1>4 DEF PollPeer, Net
  <2>2. q \in Net
    BY <2>1 DEF Net
  <2>3. RouterOK' /\ net' \in Net
    BY <1>4, <2>1, <2>2, HandleAnnouncementType DEF PollPeer
  <2>4. LinksOK'
    BY <1>4 DEF PollPeer, LinksOK, ConnState
  <2>5. QED
    BY <2>3, <2>4
<1>5. CASE UserDisconnect(n, m)
  <2>1. PICK lost \in BOOLEAN : DisconnectPeer(n, m, lost, "lingering")
    BY <1>5 DEF UserDisconnect
  <2>2. QED
    BY <2>1, DisconnectPeerType DEF ConnState
<1>6. CASE ConnectionClosed(n, m)
  <2>1. PICK lost \in BOOLEAN : DisconnectPeer(n, m, lost, "closed")
    BY <1>6 DEF ConnectionClosed
  <2>2. QED
    BY <2>1, DisconnectPeerType DEF ConnState
<1>7. CASE PeerTaskEnds(n, m)
  <2>1. DisconnectPeer(n, m, FALSE, "closed")
    BY <1>7 DEF PeerTaskEnds
  <2>2. QED
    BY <2>1, DisconnectPeerType DEF ConnState
<1>8. CASE AnnouncementTimesOut(n, m)
  BY <1>8 DEF AnnouncementTimesOut, RouterOK, LinksOK
<1>9. QED
  BY <1>1, <1>2, <1>3, <1>4, <1>5, <1>6, <1>7, <1>8 DEF PeerStep

LEMMA TaskStepType ==
    ASSUME TypeOK, NEW n \in Node, TaskStep(n)
    PROVE  TypeOK'
<1>0. RouterOK /\ LinksOK /\ net \in Net
  BY TypeParts
<1> SUFFICES RouterOK' /\ LinksOK' /\ net' \in Net
  BY DEF TypeOK, RouterOK, LinksOK, Row, Net
<1> USE <1>0
<1>1. CASE MaintainTree(n)
  <2>1. tasks' \in [Node -> TaskCount]
    BY <1>1, SpawnType DEF MaintainTree
  <2>2. sequence' \in [Node -> Nat]
    BY <1>1 DEF MaintainTree, RouterOK
  <2>3. net' \in Net
    <3>1. Own(n, sequence[n] + 1) \in Announcement
      BY OwnType DEF RouterOK
    <3>2. QED
      BY <1>1, <3>1, SendToType DEF MaintainTree
  <2>4. QED
    BY <1>1, <2>1, <2>2, <2>3 DEF MaintainTree, RouterOK, LinksOK
<1>2. CASE SetReparentTimer(n)
  <2>1. tasks' \in [Node -> TaskCount]
    <3>1. PICK t : t = [tasks[n] EXCEPT !.wait = @ - 1, !.sleep = @ + 1]
                   /\ tasks' = [tasks EXCEPT ![n] = t]
      BY <1>2 DEF SetReparentTimer
    <3>2. tasks[n] \in TaskCount /\ tasks[n].wait > 0
      BY <1>2 DEF SetReparentTimer, RouterOK
    <3>3. t \in TaskCount
      <4>1. PICK r \in TaskCount : r = tasks[n]
        BY <3>2
      <4>2. r.wait - 1 \in Nat /\ r.sleep + 1 \in Nat
        BY <3>2, <4>1 DEF TaskCount
      <4>3. t = [r EXCEPT !.wait = r.wait - 1, !.sleep = r.sleep + 1]
        BY <3>1, <4>1
      <4>4. QED
        BY <4>2, <4>3 DEF TaskCount
    <3>4. QED
      BY <3>1, <3>3 DEF RouterOK
  <2>2. timer' \in [Node -> BOOLEAN]
    BY <1>2 DEF SetReparentTimer, RouterOK
  <2>3. QED
    BY <1>2, <2>1, <2>2 DEF SetReparentTimer, RouterOK, LinksOK
<1>3. CASE TimerExpires(n)
  <2>1. timer' \in [Node -> BOOLEAN]
    BY <1>3 DEF TimerExpires, RouterOK
  <2>2. QED
    BY <1>3, <2>1 DEF TimerExpires, RouterOK, LinksOK
<1>4. ASSUME NEW kind \in {"sleep", "now"}, Reparent(n, kind)
      PROVE  RouterOK' /\ LinksOK' /\ net' \in Net
  <2>1. parent' \in [Node -> Node] /\ net' \in Net
    <3>1. ann[n] \in Row /\ Peers(n) \in SUBSET Node
      BY DEF RouterOK, Peers
    <3>2. ParentSelection(n, ann[n], Peers(n), net)
      BY <1>4 DEF Reparent
    <3>3. QED
      BY <3>1, <3>2, ParentSelectionType
  <2>2. tasks' \in [Node -> TaskCount]
    <3>1. PICK t : t = [tasks[n] EXCEPT ![kind] = @ - 1] /\ tasks' = [tasks EXCEPT ![n] = t]
      BY <1>4 DEF Reparent
    <3>2. PICK r \in TaskCount : r = tasks[n] /\ r[kind] > 0
      BY <1>4 DEF Reparent, RouterOK
    <3>3. t \in TaskCount
      <4>1. CASE kind = "sleep"
        BY <3>1, <3>2, <4>1 DEF TaskCount
      <4>2. CASE kind = "now"
        BY <3>1, <3>2, <4>2 DEF TaskCount
      <4>3. QED
        BY <4>1, <4>2
    <3>4. QED
      BY <3>1, <3>3 DEF RouterOK
  <2>3. QED
    BY <1>4, <2>1, <2>2 DEF Reparent, RouterOK, LinksOK
<1>5. QED
  BY <1>1, <1>2, <1>3, <1>4 DEF TaskStep

LEMMA NextType == TypeOK /\ [Next]_vars => TypeOK'
<1> SUFFICES ASSUME TypeOK, [Next]_vars
             PROVE  TypeOK'
  OBVIOUS
<1>1. CASE Next
  BY <1>1, PeerStepType, TaskStepType DEF Next
<1>2. CASE UNCHANGED vars
  BY <1>2 DEF vars, TypeOK
<1>3. QED
  BY <1>1, <1>2

(* Whatever the handlers, tickers and tasks interleave to: parents, tables *)
(* and queues keep their types, and no task is counted below zero.         *)
THEOREM TypeCorrect == Spec => []TypeOK
<1>1. QED
  BY InitType, NextType, PTL DEF Spec

-----------------------------------------------------------------------------
(* A parent that turned unfit is reconsidered.  By itself the invariant is *)
(* not inductive: that a handler stores without looking is harmless        *)
(* because the timer that makes it do so was set by a task that is still   *)
(* asleep (TimerIsCovered), and the root a router falls back to is its own *)
(* because it never stores an announcement of itself (NoSelfPeering).      *)

TimerIsCovered == \A n \in Node : timer[n] => tasks[n].sleep > 0

NoSelfPeering ==
    \A n \in Node : ann[n][n] = None /\ first[n][n] = None /\ conn[n][n] = "idle"

ReconsideredInv ==
    TypeOK /\ NoSelfPeering /\ TimerIsCovered /\ UnfitParentIsReconsidered

(* What ParentSelection leaves is no unfit parent.                         *)
LEMMA ParentSelectionFits ==
    ASSUME RouterOK, NEW n \in Node, NEW row \in Row, row[n] = None,
           NEW peers \in SUBSET Node, NEW q,
           ParentSelection(n, row, peers, q)
    PROVE  /\ \A k \in Node \ {n} : parent'[k] = parent[k]
           /\ parent'[n] \in Node
           /\ \/ parent'[n] = n
              \/ /\ ~ IsLoopOfChild(row[parent'[n]], n)
                 /\ ~ (row[parent'[n]].root.key < n)
<1>1. CASE parent' = [parent EXCEPT ![n] = n]
  BY <1>1 DEF RouterOK
<1>2. ASSUME NEW m \in Best(n, row, peers), parent' = [parent EXCEPT ![n] = m]
      PROVE  /\ \A k \in Node \ {n} : parent'[k] = parent[k]
             /\ parent'[n] = m /\ m \in Node
             /\ ~ IsLoopOfChild(row[m], n)
             /\ ~ (row[m].root.key < n)
  <2> DEFINE cur == CurrentIn(n, row, StartParent(n, row))
  <2>1. /\ m \in Node /\ row[m] \in Announcement
        /\ ~ IsLoopOfChild(row[m], n)
        /\ ~ Stronger(cur.root, row[m].root)
    BY DEF Best, Eligible, Row
  <2>2. StartParent(n, row) \in Node
    BY DEF StartParent, RouterOK
  <2>3. cur \in Announcement
    BY <2>2, CurrentInType
  <2>4. ~ (cur.root.key < n)
    <3>1. CASE n > CurrentIn(n, row, parent[n]).root.key
      <4>1. cur = Own(n, sequence[n])
        BY <3>1 DEF StartParent, CurrentIn
      <4>2. QED
        BY <4>1, NodeAssumption DEF Own
    <3>2. CASE ~ (n > CurrentIn(n, row, parent[n]).root.key)
      <4>1. cur = CurrentIn(n, row, parent[n])
        BY <3>2 DEF StartParent
      <4>2. QED
        BY <3>2, <4>1
    <3>3. QED
      BY <3>1, <3>2
  <2>5. cur.root.key \in Nat /\ row[m].root.key \in Nat /\ n \in Nat
    BY <2>1, <2>3, NodeAssumption DEF Announcement, Root
  <2>6. ~ (cur.root.key > row[m].root.key)
    BY <2>1 DEF Stronger
  <2>7. ~ (row[m].root.key < n)
    BY <2>4, <2>5, <2>6
  <2>8. parent'[n] = m /\ \A k \in Node \ {n} : parent'[k] = parent[k]
    BY <1>2, <2>1 DEF RouterOK
  <2>9. QED
    BY <2>1, <2>7, <2>8
<1>3. QED
  BY <1>1, <1>2 DEF ParentSelection, RouterOK

(* A router whose tables a step leaves alone is as it was.                 *)
LEMMA OtherRouter ==
    ASSUME NEW k \in Node, parent'[k] = parent[k], ann'[k] = ann[k],
           Unfit(k)'
    PROVE  Unfit(k)
BY DEF Unfit, IsLoopOfChild

LEMMA HandleAnnouncementReconsiders ==
    ASSUME ReconsideredInv, NEW n \in Node, NEW m \in Node, m # n,
           NEW f \in Announcement, NEW q, HandleAnnouncement(n, m, f, q)
    PROVE  /\ \A k \in Node : ann'[k][k] = None
           /\ TimerIsCovered' /\ UnfitParentIsReconsidered'
<1>0. RouterOK /\ NoSelfPeering /\ TimerIsCovered /\ UnfitParentIsReconsidered
  BY TypeParts DEF ReconsideredInv
<1> USE <1>0
<1>1. CASE Discard(n, m, f, q)
  <2>1. UNCHANGED router
    BY <1>1 DEF Discard
  <2>2. QED
    BY <2>1, OtherRouter
    DEF router, NoSelfPeering, TimerIsCovered, UnfitParentIsReconsidered
<1> SUFFICES ASSUME Store(n, m, f)
             PROVE  /\ \A k \in Node : ann'[k][k] = None
                    /\ TimerIsCovered' /\ UnfitParentIsReconsidered'
  BY <1>1 DEF HandleAnnouncement
<1>2. /\ ann' = [ann EXCEPT ![n][m] = f] /\ timer' = timer
      /\ ann'[n] = [ann[n] EXCEPT ![m] = f]
      /\ \A k \in Node \ {n} : ann'[k] = ann[k]
  <2>1. ann' = [ann EXCEPT ![n][m] = f] /\ timer' = timer
    BY StoreType
  <2>2. QED
    BY <2>1 DEF RouterOK
<1>3. ann'[n][m] = f /\ f # None /\ \A p \in Node \ {m} : ann'[n][p] = ann[n][p]
  BY <1>2, NoneAssumption DEF RouterOK, Row
<1>4. \A k \in Node : ann'[k][k] = None
  BY <1>2, <1>3 DEF NoSelfPeering
<1> DEFINE cur == CurrentIn(n, ann'[n], parent[n])
<1>5. ASSUME \A k \in Node \ {n} : parent'[k] = parent[k] /\ tasks'[k] = tasks[k],
             tasks'[n].sleep = tasks[n].sleep,
             Unfit(n)' => tasks[n].sleep > 0
      PROVE  TimerIsCovered' /\ UnfitParentIsReconsidered'
  <2>1. TimerIsCovered'
    BY <1>2, <1>5 DEF TimerIsCovered
  <2>2. ASSUME NEW k \in Node, Unfit(k)'
        PROVE  tasks'[k].sleep > 0
    <3>1. CASE k = n
      BY <1>5, <2>2, <3>1
    <3>2. CASE k # n
      BY <1>2, <1>5, <2>2, <3>2, OtherRouter DEF UnfitParentIsReconsidered
    <3>3. QED
      BY <3>1, <3>2
  <2>3. QED
    BY <2>1, <2>2 DEF UnfitParentIsReconsidered
<1>6. ASSUME m # parent[n], parent' = parent, Unfit(n)'
      PROVE  tasks[n].sleep > 0
  <2>1. ann'[n][parent[n]] = ann[n][parent[n]]
    BY <1>3, <1>6 DEF RouterOK
  <2>2. Unfit(n)
    BY <1>6, <2>1 DEF Unfit, IsLoopOfChild
  <2>3. QED
    BY <2>2 DEF UnfitParentIsReconsidered
<1>7. CASE WaitingToReparent(n, m, f, q)
  BY <1>4, <1>5, <1>7 DEF WaitingToReparent, TimerIsCovered
<1>8. CASE FromParent(n, m, f, cur, q)
  <2>1. cur = f
    BY <1>3, <1>8 DEF CurrentIn, FromParent
  <2>2. ~ ParentAcceptsUpdate(n, f, cur)
    <3>1. f.root.key \in Nat /\ f.root.seq \in Nat
      BY NodeAssumption DEF Announcement, Root
    <3>2. QED
      BY <2>1, <3>1 DEF ParentAcceptsUpdate, Stronger
  <2>3. parent' = [parent EXCEPT ![n] = n] /\ Spawn(n, "wait")
    BY <1>8, <2>2 DEF FromParent
  <2>4. parent'[n] = n /\ \A k \in Node \ {n} : parent'[k] = parent[k]
    BY <2>3 DEF RouterOK
  <2>5. /\ tasks'[n].sleep = tasks[n].sleep
        /\ \A k \in Node \ {n} : tasks'[k] = tasks[k]
    BY <2>3 DEF Spawn, RouterOK, TaskCount
  <2>6. ~ Unfit(n)'
    BY <2>4 DEF Unfit
  <2>7. QED
    BY <1>4, <1>5, <2>4, <2>5, <2>6
<1>9. CASE LoopFromOther(n, m, f, q)
  BY <1>4, <1>5, <1>6, <1>9 DEF LoopFromOther
<1>10. CASE AcceptNewParent(n, m, f, cur, q)
  <2>1. /\ parent' = [parent EXCEPT ![n] = m] /\ tasks' = tasks
        /\ m # parent[n] /\ ~ IsLoopOfChild(f, n) /\ f.root.key > cur.root.key
    BY <1>10 DEF AcceptNewParent
  <2>2. parent'[n] = m /\ \A k \in Node \ {n} : parent'[k] = parent[k]
    BY <2>1 DEF RouterOK
  <2>3. ASSUME ~ (tasks[n].sleep > 0), f.root.key < n
        PROVE  FALSE
    <3>1. ~ Unfit(n)
      BY <2>3 DEF UnfitParentIsReconsidered
    <3>2. ann'[n][parent[n]] = ann[n][parent[n]] /\ parent[n] \in Node
      BY <1>3, <2>1 DEF RouterOK
    <3>3. \/ cur = Own(n, sequence[n])
          \/ cur = ann[n][parent[n]] /\ cur # None
      BY <3>2 DEF CurrentIn
    <3>4. cur.root.key \in Nat
      <4>1. ann'[n] \in Row
        BY StoreType
      <4>2. cur \in Announcement
        BY <3>2, <4>1, CurrentInType
      <4>3. QED
        BY <4>2, NodeAssumption DEF Announcement, Root
    <3>5. ~ (cur.root.key < n)
      <4>1. CASE cur = Own(n, sequence[n])
        BY <4>1, NodeAssumption DEF Own
      <4>2. CASE cur = ann[n][parent[n]] /\ cur # None
        BY <3>1, <4>2 DEF Unfit, NoSelfPeering
      <4>3. QED
        BY <3>3, <4>1, <4>2
    <3>6. f.root.key \in Nat /\ n \in Nat
      BY NodeAssumption DEF Announcement, Root
    <3>7. QED
      BY <2>1, <2>3, <3>4, <3>5, <3>6
  <2>4. Unfit(n)' => f.root.key < n
    BY <1>3, <2>1, <2>2 DEF Unfit, IsLoopOfChild
  <2>5. QED
    BY <1>4, <1>5, <2>1, <2>2, <2>3, <2>4
<1>11. CASE InformPeerOfStrongerRoot(n, m, f, cur, q)
  BY <1>4, <1>5, <1>6, <1>11 DEF InformPeerOfStrongerRoot
<1>12. CASE SelectNewParent(n, m, f, cur, q)
  <2>1. parent' = parent /\ m # parent[n] /\ Spawn(n, "now")
    BY <1>12 DEF SelectNewParent
  <2>2. /\ tasks'[n].sleep = tasks[n].sleep
        /\ \A k \in Node \ {n} : tasks'[k] = tasks[k]
    BY <2>1 DEF Spawn, RouterOK, TaskCount
  <2>3. QED
    BY <1>4, <1>5, <1>6, <2>1, <2>2
<1>13. QED
  BY <1>1, <1>2, <1>7, <1>8, <1>9, <1>10, <1>11, <1>12 DEF HandleAnnouncement

LEMMA DisconnectPeerReconsiders ==
    ASSUME ReconsideredInv, NEW n \in Node, NEW m \in Node, m # n,
           NEW lost \in BOOLEAN, NEW state, DisconnectPeer(n, m, lost, state)
    PROVE  /\ NoSelfPeering'
           /\ TimerIsCovered' /\ UnfitParentIsReconsidered'
<1>0. /\ RouterOK /\ LinksOK /\ NoSelfPeering
      /\ TimerIsCovered /\ UnfitParentIsReconsidered
  BY TypeParts DEF ReconsideredInv
<1> USE <1>0
<1> DEFINE row == [ann[n] EXCEPT ![m] = None]
<1>1. /\ timer' = timer /\ tasks' = tasks /\ first' = first
      /\ ann' = [ann EXCEPT ![n][m] = None]
      /\ conn' = [conn EXCEPT ![n][m] = state]
  BY DEF DisconnectPeer
<1>2. ann'[n] = row /\ \A k \in Node \ {n} : ann'[k] = ann[k]
  BY <1>1 DEF RouterOK
<1>3. row \in Row /\ row[m] = None /\ \A k \in Node \ {m} : row[k] = ann[n][k]
  BY DEF RouterOK, Row
<1>4. NoSelfPeering'
  BY <1>1, <1>2, <1>3 DEF NoSelfPeering, LinksOK
<1>5. /\ \A k \in Node \ {n} : parent'[k] = parent[k]
      /\ Unfit(n)' => Unfit(n)
  <2>1. CASE parent[n] = m /\ ~ lost
    <3>1. PICK q : ParentSelection(n, row, Peers(n) \ {m}, q)
      BY <2>1 DEF DisconnectPeer
    <3>2. row[n] = None /\ Peers(n) \ {m} \in SUBSET Node
      BY <1>3 DEF NoSelfPeering, Peers
    <3>3. /\ \A k \in Node \ {n} : parent'[k] = parent[k]
          /\ \/ parent'[n] = n
             \/ /\ ~ IsLoopOfChild(row[parent'[n]], n)
                /\ ~ (row[parent'[n]].root.key < n)
      BY <1>3, <3>1, <3>2, ParentSelectionFits
    <3>4. ~ Unfit(n)'
      BY <1>2, <3>3 DEF Unfit, IsLoopOfChild
    <3>5. QED
      BY <3>3, <3>4
  <2>2. CASE ~ (parent[n] = m /\ ~ lost)
    <3>1. parent' = parent
      BY <2>2 DEF DisconnectPeer
    <3>2. CASE parent[n] = m
      BY <1>2, <1>3, <3>1, <3>2 DEF Unfit
    <3>3. CASE parent[n] # m
      <4>1. ann'[n][parent[n]] = ann[n][parent[n]]
        BY <1>2, <1>3, <3>3 DEF RouterOK
      <4>2. QED
        BY <3>1, <4>1 DEF Unfit, IsLoopOfChild
    <3>4. QED
      BY <3>1, <3>2, <3>3
  <2>3. QED
    BY <2>1, <2>2
<1>6. TimerIsCovered'
  BY <1>1 DEF TimerIsCovered
<1>7. ASSUME NEW k \in Node, Unfit(k)'
      PROVE  tasks'[k].sleep > 0
  <2>1. Unfit(k)
    BY <1>2, <1>5, <1>7, OtherRouter
  <2>2. QED
    BY <1>1, <2>1 DEF UnfitParentIsReconsidered
<1>8. QED
  BY <1>4, <1>6, <1>7 DEF UnfitParentIsReconsidered

(* A step that leaves parents, tables, timers and sleeping tasks alone.    *)
LEMMA UndisturbedReconsiders ==
    ASSUME TimerIsCovered, UnfitParentIsReconsidered,
           parent' = parent, ann' = ann, timer' = timer,
           \A k \in Node : tasks'[k].sleep = tasks[k].sleep
    PROVE  TimerIsCovered' /\ UnfitParentIsReconsidered'
BY OtherRouter DEF TimerIsCovered, UnfitParentIsReconsidered

LEMMA PeerStepReconsiders ==
    ASSUME ReconsideredInv, NEW n \in Node, NEW m \in Node, PeerStep(n, m)
    PROVE  NoSelfPeering' /\ TimerIsCovered' /\ UnfitParentIsReconsidered'
<1>0. /\ RouterOK /\ LinksOK /\ net \in Net /\ NoSelfPeering
      /\ TimerIsCovered /\ UnfitParentIsReconsidered
  BY TypeParts DEF ReconsideredInv
<1> USE <1>0
<1>1. CASE Connect(n, m)
  <2>1. m # n
    BY <1>1, LinkAssumption DEF Connect
  <2>2. NoSelfPeering'
    BY <1>1, <2>1 DEF Connect, router, NoSelfPeering, LinksOK
  <2>3. QED
    BY <1>1, <2>2, UndisturbedReconsiders DEF Connect, router
<1>2. CASE AddPeer(n, m)
  <2>1. m # n
    BY <1>2 DEF AddPeer, NoSelfPeering
  <2>2. NoSelfPeering'
    BY <1>2, <2>1 DEF AddPeer, router, NoSelfPeering, LinksOK
  <2>3. QED
    BY <1>2, <2>2, UndisturbedReconsiders DEF AddPeer, router
<1>3. CASE HandleFirst(n, m)
  <2>1. m # n /\ first[n][m] \in Announcement
    BY <1>3 DEF HandleFirst, NoSelfPeering, LinksOK, Row
  <2>2. /\ \A k \in Node : ann'[k][k] = None
        /\ TimerIsCovered' /\ UnfitParentIsReconsidered'
    BY <1>3, <2>1, HandleAnnouncementReconsiders DEF HandleFirst
  <2>3. NoSelfPeering'
    BY <1>3, <2>1, <2>2 DEF HandleFirst, NoSelfPeering, LinksOK
  <2>4. QED
    BY <2>2, <2>3
<1>4. CASE PollPeer(n, m)
  <2>1. m # n
    BY <1>4 DEF PollPeer, NoSelfPeering
  <2>2. Head(net[m][n]) \in Announcement
    BY <1>4 DEF PollPeer, Net
  <2>3. /\ \A k \in Node : ann'[k][k] = None
        /\ TimerIsCovered' /\ UnfitParentIsReconsidered'
    BY <1>4, <2>1, <2>2, HandleAnnouncementReconsiders DEF PollPeer
  <2>4. NoSelfPeering'
    BY <1>4, <2>1, <2>3 DEF PollPeer, NoSelfPeering, LinksOK
  <2>5. QED
    BY <2>3, <2>4
<1>5. CASE UserDisconnect(n, m)
  <2>1. m # n
    BY <1>5 DEF UserDisconnect, NoSelfPeering
  <2>2. QED
    BY <1>5, <2>1, DisconnectPeerReconsiders DEF UserDisconnect
<1>6. CASE ConnectionClosed(n, m)
  <2>1. m # n
    BY <1>6 DEF ConnectionClosed, NoSelfPeering
  <2>2. QED
    BY <1>6, <2>1, DisconnectPeerReconsiders DEF ConnectionClosed
<1>7. CASE PeerTaskEnds(n, m)
  <2>1. m # n
    BY <1>7 DEF PeerTaskEnds, NoSelfPeering
  <2>2. QED
    BY <1>7, <2>1, DisconnectPeerReconsiders DEF PeerTaskEnds
<1>8. CASE AnnouncementTimesOut(n, m)
  <2>1. NoSelfPeering'
    BY <1>8 DEF AnnouncementTimesOut, NoSelfPeering
  <2>2. QED
    BY <1>8, <2>1, UndisturbedReconsiders DEF AnnouncementTimesOut
<1>9. QED
  BY <1>1, <1>2, <1>3, <1>4, <1>5, <1>6, <1>7, <1>8 DEF PeerStep

LEMMA TaskStepReconsiders ==
    ASSUME ReconsideredInv, NEW n \in Node, TaskStep(n)
    PROVE  NoSelfPeering' /\ TimerIsCovered' /\ UnfitParentIsReconsidered'
<1>0. /\ RouterOK /\ LinksOK /\ NoSelfPeering
      /\ TimerIsCovered /\ UnfitParentIsReconsidered
  BY TypeParts DEF ReconsideredInv
<1> USE <1>0
<1>1. CASE MaintainTree(n)
  <2>1. \A k \in Node : tasks'[k].sleep = tasks[k].sleep
    BY <1>1 DEF MaintainTree, Spawn, RouterOK, TaskCount
  <2>2. NoSelfPeering'
    BY <1>1 DEF MaintainTree, NoSelfPeering
  <2>3. QED
    BY <1>1, <2>1, <2>2, UndisturbedReconsiders DEF MaintainTree
<1>2. CASE SetReparentTimer(n)
  <2>1. /\ tasks'[n].sleep > 0
        /\ \A k \in Node \ {n} : tasks'[k] = tasks[k] /\ timer'[k] = timer[k]
    BY <1>2 DEF SetReparentTimer, RouterOK, TaskCount
  <2>2. NoSelfPeering'
    BY <1>2 DEF SetReparentTimer, NoSelfPeering
  <2>3. TimerIsCovered'
    BY <2>1 DEF TimerIsCovered
  <2>4. UnfitParentIsReconsidered'
    BY <1>2, <2>1, OtherRouter DEF SetReparentTimer, UnfitParentIsReconsidered
  <2>5. QED
    BY <2>2, <2>3, <2>4
<1>3. CASE TimerExpires(n)
  <2>1. NoSelfPeering'
    BY <1>3 DEF TimerExpires, NoSelfPeering
  <2>2. TimerIsCovered'
    BY <1>3 DEF TimerExpires, TimerIsCovered, RouterOK
  <2>3. UnfitParentIsReconsidered'
    BY <1>3, OtherRouter DEF TimerExpires, UnfitParentIsReconsidered
  <2>4. QED
    BY <2>1, <2>2, <2>3
<1>4. ASSUME NEW kind \in {"sleep", "now"}, Reparent(n, kind)
      PROVE  NoSelfPeering' /\ TimerIsCovered' /\ UnfitParentIsReconsidered'
  <2>1. ann' = ann /\ timer' = timer /\ conn' = conn /\ first' = first
    BY <1>4 DEF Reparent
  <2>2. NoSelfPeering'
    BY <2>1 DEF NoSelfPeering
  <2>3. /\ \A k \in Node \ {n} : parent'[k] = parent[k]
        /\ \/ parent'[n] = n
           \/ /\ ~ IsLoopOfChild(ann[n][parent'[n]], n)
              /\ ~ (ann[n][parent'[n]].root.key < n)
    <3>1. ann[n] \in Row /\ ann[n][n] = None /\ Peers(n) \in SUBSET Node
      BY DEF RouterOK, NoSelfPeering, Peers
    <3>2. ParentSelection(n, ann[n], Peers(n), net)
      BY <1>4 DEF Reparent
    <3>3. QED
      BY <3>1, <3>2, ParentSelectionFits
  <2>4. ~ Unfit(n)'
    BY <2>1, <2>3 DEF Unfit, IsLoopOfChild
  <2>5. /\ \A k \in Node \ {n} : tasks'[k] = tasks[k]
        /\ timer[n] => tasks'[n].sleep > 0
    <3>1. \A k \in Node \ {n} : tasks'[k] = tasks[k]
      BY <1>4 DEF Reparent, RouterOK
    <3>2. CASE kind = "sleep"
      BY <1>4, <3>1, <3>2 DEF Reparent, RouterOK, TaskCount
    <3>3. CASE kind = "now"
      BY <1>4, <3>1, <3>3 DEF Reparent, RouterOK, TaskCount, TimerIsCovered
    <3>4. QED
      BY <3>1, <3>2, <3>3
  <2>6. TimerIsCovered'
    BY <2>1, <2>5 DEF TimerIsCovered
  <2>7. UnfitParentIsReconsidered'
    BY <2>1, <2>3, <2>4, <2>5, OtherRouter DEF UnfitParentIsReconsidered
  <2>8. QED
    BY <2>2, <2>6, <2>7
<1>5. QED
  BY <1>1, <1>2, <1>3, <1>4 DEF TaskStep

LEMMA ReconsideredStep == ReconsideredInv /\ [Next]_vars => ReconsideredInv'
<1> SUFFICES ASSUME ReconsideredInv, [Next]_vars
             PROVE  ReconsideredInv'
  OBVIOUS
<1>1. TypeOK'
  BY NextType DEF ReconsideredInv
<1>2. CASE Next
  BY <1>1, <1>2, PeerStepReconsiders, TaskStepReconsiders
  DEF Next, ReconsideredInv
<1>3. CASE UNCHANGED vars
  <2>1. NoSelfPeering'
    BY <1>3 DEF vars, ReconsideredInv, NoSelfPeering
  <2>2. TimerIsCovered' /\ UnfitParentIsReconsidered'
    BY <1>3, UndisturbedReconsiders DEF vars, ReconsideredInv
  <2>3. QED
    BY <1>1, <2>1, <2>2 DEF ReconsideredInv
<1>4. QED
  BY <1>2, <1>3

(* A router whose parent's stored announcement loops back through it or is *)
(* weaker than its own key always has a reparent task asleep, which will   *)
(* run parent_selection: no such parent is kept for longer than the timer. *)
THEOREM UnfitReconsidered == Spec => []UnfitParentIsReconsidered
<1>1. Init => ReconsideredInv
  <2>1. Init => NoSelfPeering /\ TimerIsCovered /\ UnfitParentIsReconsidered
    BY DEF Init, NoSelfPeering, TimerIsCovered, UnfitParentIsReconsidered, Unfit
  <2>2. QED
    BY <2>1, InitType DEF ReconsideredInv
<1>2. ReconsideredInv => UnfitParentIsReconsidered
  BY DEF ReconsideredInv
<1>3. QED
  BY <1>1, <1>2, ReconsideredStep, PTL DEF Spec

-----------------------------------------------------------------------------
(* Sequence numbers.                                                       *)

(* What a step makes of the row of m at n: the same, nothing, or a frame   *)
(* that passed the replay check.                                           *)
RowStep(n, m) ==
    \/ ann'[n][m] = ann[n][m]
    \/ ann'[n][m] = None
    \/ \E f \in Announcement : ann'[n][m] = f /\ ~ Replayed(n, m, f)

LEMMA HandleAnnouncementRow ==
    ASSUME RouterOK, NEW n \in Node, NEW m \in Node, NEW f \in Announcement,
           NEW q, HandleAnnouncement(n, m, f, q), NEW k \in Node, NEW p \in Node
    PROVE  RowStep(k, p)
<1>1. CASE Discard(n, m, f, q)
  BY <1>1 DEF Discard, router, RowStep
<1>2. CASE Store(n, m, f)
  <2>1. ann' = [ann EXCEPT ![n][m] = f] /\ ~ Replayed(n, m, f)
    BY <1>2 DEF Store, Accepted
  <2>2. CASE k = n /\ p = m
    BY <2>1, <2>2 DEF RowStep, RouterOK, Row
  <2>3. CASE ~ (k = n /\ p = m)
    BY <2>1, <2>3 DEF RowStep, RouterOK, Row
  <2>4. QED
    BY <2>2, <2>3
<1>3. QED
  BY <1>1, <1>2 DEF HandleAnnouncement

LEMMA DisconnectPeerRow ==
    ASSUME RouterOK, NEW n \in Node, NEW m \in Node, NEW lost, NEW state,
           DisconnectPeer(n, m, lost, state), NEW k \in Node, NEW p \in Node
    PROVE  RowStep(k, p)
<1>1. ann' = [ann EXCEPT ![n][m] = None]
  BY DEF DisconnectPeer
<1>2. QED
  BY <1>1 DEF RowStep, RouterOK, Row

LEMMA NextRow ==
    ASSUME TypeOK, [Next]_vars, NEW k \in Node, NEW p \in Node
    PROVE  RowStep(k, p)
<1>0. RouterOK /\ LinksOK /\ net \in Net
  BY TypeParts
<1> USE <1>0
<1>1. ASSUME ann' = ann
      PROVE  RowStep(k, p)
  BY <1>1 DEF RowStep
<1>2. ASSUME NEW n \in Node, NEW m \in Node, PeerStep(n, m)
      PROVE  RowStep(k, p)
  <2>1. CASE Connect(n, m) \/ AddPeer(n, m) \/ AnnouncementTimesOut(n, m)
    BY <1>1, <2>1 DEF Connect, AddPeer, AnnouncementTimesOut, router
  <2>2. CASE HandleFirst(n, m)
    <3>1. first[n][m] \in Announcement
      BY <2>2 DEF HandleFirst, LinksOK, Row
    <3>2. QED
      BY <2>2, <3>1, HandleAnnouncementRow DEF HandleFirst
  <2>3. CASE PollPeer(n, m)
    <3>1. Head(net[m][n]) \in Announcement
      <4>1. PICK q \in Seq(Announcement) : q = net[m][n] /\ q # <<>>
        BY <2>3 DEF PollPeer, Net
      <4>2. QED
        BY <4>1
    <3>2. QED
      BY <2>3, <3>1, HandleAnnouncementRow DEF PollPeer
  <2>4. CASE UserDisconnect(n, m) \/ ConnectionClosed(n, m) \/ PeerTaskEnds(n, m)
    BY <2>4, DisconnectPeerRow DEF UserDisconnect, ConnectionClosed, PeerTaskEnds
  <2>5. QED
    BY <1>2, <2>1, <2>2, <2>3, <2>4 DEF PeerStep
<1>3. ASSUME NEW n \in Node, TaskStep(n)
      PROVE  RowStep(k, p)
  <2>1. ann' = ann
    BY <1>3 DEF TaskStep, MaintainTree, SetReparentTimer, TimerExpires, Reparent
  <2>2. QED
    BY <1>1, <2>1
<1>4. CASE UNCHANGED vars
  BY <1>1, <1>4 DEF vars
<1>5. QED
  BY <1>2, <1>3, <1>4 DEF Next

LEMMA RowKeepsOrder ==
    ASSUME TypeOK, NEW n \in Node, NEW m \in Node, RowStep(n, m),
           ann[n][m] # None, ann'[n][m] # None,
           ann'[n][m].root.key = ann[n][m].root.key
    PROVE  ann'[n][m].root.seq >= ann[n][m].root.seq
<1>1. ann[n][m] \in Announcement
  BY TypeParts DEF RouterOK, Row
<1>2. ann[n][m].root.seq \in Nat
  BY <1>1 DEF Announcement, Root
<1>3. CASE ann'[n][m] = ann[n][m]
  BY <1>2, <1>3
<1>4. ASSUME NEW f \in Announcement, ann'[n][m] = f, ~ Replayed(n, m, f)
      PROVE  ann'[n][m].root.seq >= ann[n][m].root.seq
  <2>1. f.root.seq \in Nat
    BY DEF Announcement, Root
  <2>2. ~ (f.root.seq < ann[n][m].root.seq)
    BY <1>4 DEF Replayed
  <2>3. QED
    BY <1>2, <1>4, <2>1, <2>2
<1>5. QED
  BY <1>3, <1>4 DEF RowStep

(* What a router stores of a peer never returns to an earlier sequence     *)
(* number of the same root, in whatever order connect() and the peer task  *)
(* handle the frames.                                                      *)
THEOREM NeverRegresses == Spec => SequenceNeverRegresses
<1>1. TypeOK /\ [Next]_vars =>
        [\A n, m \in Node :
            /\ ann[n][m] # None /\ ann'[n][m] # None
            /\ ann'[n][m].root.key = ann[n][m].root.key
            => ann'[n][m].root.seq >= ann[n][m].root.seq]_vars
  BY NextRow, RowKeepsOrder
<1>2. QED
  BY <1>1, TypeCorrect, PTL DEF Spec, SequenceNeverRegresses

(* SequenceIsIssued, in its parts.                                         *)
RowIssued(row) == \A m \in Node : row[m] # None => Issued(row[m])
NetIssued(q) == \A n, m \in Node : \A i \in DOMAIN q[n][m] : Issued(q[n][m][i])
TablesIssued(tables) == \A n \in Node : RowIssued(tables[n])

LEMMA IssuedParts ==
    SequenceIsIssued <=> TablesIssued(ann) /\ TablesIssued(first) /\ NetIssued(net)
BY DEF SequenceIsIssued, TablesIssued, RowIssued, NetIssued

(* An element of a queue with one frame more.                              *)
LEMMA AppendElement ==
    ASSUME NEW S, NEW s \in Seq(S), NEW e \in S, NEW i \in DOMAIN Append(s, e)
    PROVE  /\ i = Len(s) + 1 => Append(s, e)[i] = e
           /\ i # Len(s) + 1 => i \in DOMAIN s /\ Append(s, e)[i] = s[i]
<1>1. Len(s) \in Nat /\ DOMAIN s = 1 .. Len(s)
  OBVIOUS
<1>2. DOMAIN Append(s, e) = 1 .. Len(s) + 1
  BY <1>1
<1>3. CASE i = Len(s) + 1
  BY <1>1, <1>3
<1>4. CASE i # Len(s) + 1
  <2>1. i \in 1 .. Len(s)
    BY <1>1, <1>2, <1>4
  <2>2. QED
    BY <1>1, <1>4, <2>1
<1>5. QED
  BY <1>3, <1>4

LEMMA SendToIssued ==
    ASSUME NEW q \in Net, NetIssued(q), NEW n \in Node, NEW T,
           NEW a \in Announcement, Issued(a)
    PROVE  NetIssued(SendTo(q, n, T, a))
<1> DEFINE r == SendTo(q, n, T, a)
<1>1. ASSUME NEW k \in Node, NEW m \in Node, NEW i \in DOMAIN r[k][m]
      PROVE  Issued(r[k][m][i])
  <2>1. CASE r[k][m] = q[k][m]
    BY <1>1, <2>1 DEF NetIssued
  <2>2. CASE k = n /\ r[n][m] = Append(q[n][m], Signed(a, n))
    <3> HIDE DEF r
    <3>1. q[n][m] \in Seq(Announcement) /\ Signed(a, n) \in Announcement
      BY SignedType DEF Net
    <3>2. /\ i = Len(q[n][m]) + 1 => r[k][m][i] = Signed(a, n)
          /\ i # Len(q[n][m]) + 1
             => i \in DOMAIN q[n][m] /\ r[k][m][i] = q[n][m][i]
      BY <1>1, <2>2, <3>1, AppendElement
    <3>3. Issued(Signed(a, n))
      BY SignedType DEF Issued
    <3>4. QED
      BY <3>2, <3>3 DEF NetIssued
  <2>3. QED
    BY <2>1, <2>2 DEF SendTo, Net
<1>2. QED
  BY <1>1 DEF NetIssued

LEMMA TailElement ==
    ASSUME NEW S, NEW s \in Seq(S), s # <<>>, NEW i \in DOMAIN Tail(s)
    PROVE  i + 1 \in DOMAIN s /\ Tail(s)[i] = s[i + 1]
<1>1. Len(Tail(s)) = Len(s) - 1 /\ Len(s) \in Nat /\ Tail(s) \in Seq(S)
  OBVIOUS
<1>2. i \in 1 .. Len(s) - 1
  BY <1>1
<1>3. QED
  BY <1>1, <1>2

(* Reading a queue leaves the rest of it.                                  *)
LEMMA ReadIssued ==
    ASSUME NEW q \in Net, NetIssued(q), NEW n \in Node, NEW m \in Node,
           q[m][n] # <<>>
    PROVE  /\ Head(q[m][n]) \in Announcement
           /\ Issued(Head(q[m][n]))
           /\ [q EXCEPT ![m][n] = Tail(@)] \in Net
           /\ NetIssued([q EXCEPT ![m][n] = Tail(@)])
<1> DEFINE s == q[m][n]
           r == [q EXCEPT ![m][n] = Tail(@)]
<1>1. s \in Seq(Announcement) /\ s # <<>>
  BY DEF Net
<1>2. 1 \in DOMAIN s /\ Head(s) = s[1]
  BY <1>1
<1>3. Issued(Head(s))
  BY <1>2 DEF NetIssued
<1>4. r \in Net
  BY <1>1 DEF Net
<1>5. ASSUME NEW k \in Node, NEW p \in Node, NEW i \in DOMAIN r[k][p]
      PROVE  Issued(r[k][p][i])
  <2>1. CASE k = m /\ p = n
    <3>1. r[k][p] = Tail(s)
      BY <2>1 DEF Net
    <3>2. i + 1 \in DOMAIN s /\ r[k][p][i] = s[i + 1]
      BY <1>1, <1>5, <3>1, TailElement
    <3>3. QED
      BY <3>2 DEF NetIssued
  <2>2. CASE ~ (k = m /\ p = n)
    <3>1. r[k][p] = q[k][p]
      BY <2>2 DEF Net
    <3>2. QED
      BY <1>5, <3>1 DEF NetIssued
  <2>3. QED
    BY <2>1, <2>2
<1>6. NetIssued(r)
  BY <1>5 DEF NetIssued
<1>7. QED
  BY <1>1, <1>3, <1>4, <1>6

LEMMA CurrentInIssued ==
    ASSUME RouterOK, NEW n \in Node, NEW row \in Row, RowIssued(row),
           NEW p \in Node
    PROVE  Issued(CurrentIn(n, row, p))
<1>1. CASE row[p] # None
  BY <1>1 DEF CurrentIn, RowIssued
<1>2. CASE row[p] = None
  BY <1>2 DEF CurrentIn, Own, Issued, RouterOK
<1>3. QED
  BY <1>1, <1>2

LEMMA ParentSelectionIssued ==
    ASSUME RouterOK, NEW n \in Node, NEW row \in Row, RowIssued(row),
           NEW peers \in SUBSET Node, NEW q \in Net, NetIssued(q),
           ParentSelection(n, row, peers, q)
    PROVE  NetIssued(net')
<1>1. CASE net' = q
  BY <1>1
<1>2. ASSUME NEW m \in Best(n, row, peers), net' = SendTo(q, n, peers, row[m])
      PROVE  NetIssued(net')
  <2>1. m \in Node /\ row[m] \in Announcement /\ Issued(row[m])
    BY DEF Best, Eligible, Row, RowIssued
  <2>2. QED
    BY <1>2, <2>1, SendToIssued
<1>3. QED
  BY <1>1, <1>2 DEF ParentSelection

LEMMA HandleAnnouncementIssued ==
    ASSUME RouterOK, TablesIssued(ann), NEW n \in Node, NEW m \in Node,
           NEW f \in Announcement, Issued(f), NEW q \in Net, NetIssued(q),
           HandleAnnouncement(n, m, f, q)
    PROVE  TablesIssued(ann') /\ NetIssued(net') /\ sequence' = sequence
<1>1. CASE Discard(n, m, f, q)
  BY <1>1 DEF Discard, router
<1>2. CASE Store(n, m, f)
  <2> DEFINE row == [ann[n] EXCEPT ![m] = f]
             cur == CurrentIn(n, row, parent[n])
  <2>1. sequence' = sequence /\ ann' = [ann EXCEPT ![n][m] = f]
    BY <1>2, StoreType
  <2>2. TablesIssued(ann')
    BY <2>1 DEF TablesIssued, RowIssued, RouterOK, Row
  <2>3. row \in Row /\ RowIssued(row)
    BY DEF RouterOK, Row, TablesIssued, RowIssued
  <2>4. cur \in Announcement /\ Issued(cur)
    BY <2>3, CurrentInType, CurrentInIssued DEF RouterOK
  <2>5. \A T : /\ NetIssued(SendTo(q, n, T, cur))
               /\ NetIssued(SendTo(q, n, T, f))
    BY <2>4, SendToIssued
  <2>6. NetIssued(net')
    <3>1. CASE WaitingToReparent(n, m, f, q)
      BY <3>1 DEF WaitingToReparent
    <3>2. CASE FromParent(n, m, f, cur, q)
      BY <2>5, <3>2 DEF FromParent
    <3>3. CASE LoopFromOther(n, m, f, q)
      BY <3>3 DEF LoopFromOther
    <3>4. CASE AcceptNewParent(n, m, f, cur, q)
      BY <2>5, <3>4 DEF AcceptNewParent
    <3>5. CASE InformPeerOfStrongerRoot(n, m, f, cur, q)
      BY <2>5, <3>5 DEF InformPeerOfStrongerRoot
    <3>6. CASE SelectNewParent(n, m, f, cur, q)
      BY <3>6 DEF SelectNewParent
    <3>7. CASE Discard(n, m, f, q)
      BY <3>7 DEF Discard
    <3>8. QED
      BY <3>1, <3>2, <3>3, <3>4, <3>5, <3>6, <3>7 DEF HandleAnnouncement
  <2>7. QED
    BY <2>1, <2>2, <2>6
<1>3. QED
  BY <1>1, <1>2 DEF HandleAnnouncement

LEMMA DisconnectPeerIssued ==
    ASSUME RouterOK, TablesIssued(ann), net \in Net, NetIssued(net),
           NEW n \in Node, NEW m \in Node, NEW lost, NEW state,
           DisconnectPeer(n, m, lost, state)
    PROVE  TablesIssued(ann') /\ NetIssued(net') /\ sequence' = sequence
<1> DEFINE q == IF state = "closed" THEN [net EXCEPT ![m][n] = <<>>] ELSE net
           row == [ann[n] EXCEPT ![m] = None]
<1>1. ann' = [ann EXCEPT ![n][m] = None] /\ sequence' = sequence
  BY DEF DisconnectPeer
<1>2. TablesIssued(ann')
  BY <1>1 DEF TablesIssued, RowIssued, RouterOK, Row
<1>3. row \in Row /\ RowIssued(row)
  BY DEF RouterOK, Row, TablesIssued, RowIssued
<1>4. q \in Net /\ NetIssued(q)
  <2>1. q \in Net
    BY DEF Net
  <2>2. ASSUME NEW k \in Node, NEW p \in Node
        PROVE  q[k][p] = net[k][p] \/ q[k][p] = <<>>
    BY DEF Net
  <2> HIDE DEF q
  <2>3. QED
    BY <2>1, <2>2 DEF NetIssued
<1>5. NetIssued(net')
  <2>1. CASE parent[n] = m /\ ~ lost
    <3>1. /\ ParentSelection(n, row, Peers(n) \ {m}, q)
          /\ Peers(n) \ {m} \in SUBSET Node
      BY <2>1 DEF DisconnectPeer, Peers
    <3>2. QED
      BY <1>3, <1>4, <3>1, ParentSelectionIssued
  <2>2. CASE ~ (parent[n] = m /\ ~ lost)
    <3>1. net' = q
      BY <2>2 DEF DisconnectPeer
    <3>2. QED
      BY <1>4, <3>1
  <2>3. QED
    BY <2>1, <2>2
<1>6. QED
  BY <1>1, <1>2, <1>5

LEMMA PeerStepIssued ==
    ASSUME TypeOK, SequenceIsIssued, NEW n \in Node, NEW m \in Node,
           PeerStep(n, m)
    PROVE  /\ TablesIssued(ann') /\ TablesIssued(first') /\ NetIssued(net')
           /\ sequence' = sequence
<1>0. /\ RouterOK /\ LinksOK /\ net \in Net
      /\ TablesIssued(ann) /\ TablesIssued(first) /\ NetIssued(net)
  BY TypeParts, IssuedParts
<1> USE <1>0
<1>1. CASE Connect(n, m)
  <2>1. Current(n) \in Announcement /\ Issued(Current(n))
    BY CurrentInType, CurrentInIssued DEF Current, RouterOK, TablesIssued
  <2>2. NetIssued(net')
    BY <1>1, <2>1, SendToIssued DEF Connect
  <2>3. QED
    BY <1>1, <2>2 DEF Connect, router
<1>2. CASE AddPeer(n, m)
  <2>1. net[m][n] # <<>>
    BY <1>2 DEF AddPeer
  <2>2. /\ Issued(Head(net[m][n]))
        /\ NetIssued([net EXCEPT ![m][n] = Tail(@)])
    BY <2>1, ReadIssued
  <2>3. TablesIssued(first')
    BY <1>2, <2>2 DEF AddPeer, TablesIssued, RowIssued, LinksOK, Row
  <2>4. QED
    BY <1>2, <2>2, <2>3 DEF AddPeer, router
<1>3. CASE HandleFirst(n, m)
  <2>1. first[n][m] \in Announcement /\ Issued(first[n][m])
    BY <1>3 DEF HandleFirst, LinksOK, Row, TablesIssued, RowIssued
  <2>2. TablesIssued(ann') /\ NetIssued(net') /\ sequence' = sequence
    BY <1>3, <2>1, HandleAnnouncementIssued DEF HandleFirst
  <2>3. TablesIssued(first')
    BY <1>3 DEF HandleFirst, TablesIssued, RowIssued, LinksOK, Row
  <2>4. QED
    BY <2>2, <2>3
<1>4. CASE PollPeer(n, m)
  <2>1. net[m][n] # <<>>
    BY <1>4 DEF PollPeer
  <2>2. /\ Head(net[m][n]) \in Announcement /\ Issued(Head(net[m][n]))
        /\ [net EXCEPT ![m][n] = Tail(@)] \in Net
        /\ NetIssued([net EXCEPT ![m][n] = Tail(@)])
    BY <2>1, ReadIssued
  <2>3. TablesIssued(ann') /\ NetIssued(net') /\ sequence' = sequence
    BY <1>4, <2>2, HandleAnnouncementIssued DEF PollPeer
  <2>4. QED
    BY <1>4, <2>3 DEF PollPeer
<1>5. CASE UserDisconnect(n, m) \/ ConnectionClosed(n, m) \/ PeerTaskEnds(n, m)
  <2>1. PICK lost, state : DisconnectPeer(n, m, lost, state)
    BY <1>5 DEF UserDisconnect, ConnectionClosed, PeerTaskEnds
  <2>2. TablesIssued(ann') /\ NetIssued(net') /\ sequence' = sequence
    BY <2>1, DisconnectPeerIssued
  <2>3. first' = first
    BY <2>1 DEF DisconnectPeer
  <2>4. QED
    BY <2>2, <2>3
<1>6. CASE AnnouncementTimesOut(n, m)
  BY <1>6 DEF AnnouncementTimesOut
<1>7. QED
  BY <1>1, <1>2, <1>3, <1>4, <1>5, <1>6 DEF PeerStep

(* A sequence number that was handed out stays so.                         *)
IssuedNext(a) == a.root.seq <= sequence'[a.root.key]

LEMMA SequenceGrows ==
    ASSUME RouterOK, NEW n \in Node,
           sequence' = [sequence EXCEPT ![n] = @ + 1],
           NEW a \in Announcement, Issued(a)
    PROVE  IssuedNext(a)
<1>1. a.root.key \in Node /\ a.root.seq \in Nat
  BY DEF Announcement, Root
<1>2. QED
  BY <1>1 DEF Issued, IssuedNext, RouterOK

LEMMA TaskStepIssued ==
    ASSUME TypeOK, SequenceIsIssued, NEW n \in Node, TaskStep(n)
    PROVE  SequenceIsIssued'
<1>0. /\ RouterOK /\ LinksOK /\ net \in Net
      /\ TablesIssued(ann) /\ TablesIssued(first) /\ NetIssued(net)
  BY TypeParts, IssuedParts
<1> USE <1>0
<1>1. ASSUME ann' = ann, first' = first, sequence' = sequence, NetIssued(net')
      PROVE  SequenceIsIssued'
  BY <1>1 DEF SequenceIsIssued, TablesIssued, RowIssued, NetIssued, Issued
<1>2. CASE MaintainTree(n) /\ parent[n] # n
  BY <1>1, <1>2 DEF MaintainTree
<1>3. CASE MaintainTree(n) /\ parent[n] = n
  <2> DEFINE a == Own(n, sequence[n] + 1)
             r == SendTo(net, n, Peers(n), a)
  <2>1. /\ sequence' = [sequence EXCEPT ![n] = @ + 1] /\ net' = r
        /\ ann' = ann /\ first' = first
    BY <1>3 DEF MaintainTree
  <2>2. a \in Announcement /\ Signed(a, n) \in Announcement
    BY OwnType, SignedType DEF RouterOK
  <2>3. IssuedNext(Signed(a, n))
    <3>1. Signed(a, n).root = a.root /\ a.root = [key |-> n, seq |-> sequence[n] + 1]
      BY <2>2, SignedType DEF Own
    <3>2. sequence'[n] = sequence[n] + 1 /\ sequence[n] \in Nat
      BY <2>1 DEF RouterOK
    <3>3. QED
      BY <3>1, <3>2 DEF IssuedNext
  <2>4. ASSUME NEW k \in Node, NEW m \in Node, NEW i \in DOMAIN r[k][m]
        PROVE  IssuedNext(r[k][m][i])
    <3>1. net[k][m] \in Seq(Announcement)
      BY DEF Net
    <3>2. CASE r[k][m] = net[k][m]
      <4>1. Issued(net[k][m][i]) /\ net[k][m][i] \in Announcement
        BY <2>4, <3>1, <3>2 DEF NetIssued
      <4>2. QED
        BY <2>1, <3>2, <4>1, SequenceGrows
    <3>3. CASE k = n /\ r[k][m] = Append(net[k][m], Signed(a, n))
      <4> HIDE DEF r
      <4>1. /\ i = Len(net[k][m]) + 1 => r[k][m][i] = Signed(a, n)
            /\ i # Len(net[k][m]) + 1
               => i \in DOMAIN net[k][m] /\ r[k][m][i] = net[k][m][i]
        BY <2>2, <2>4, <3>1, <3>3, AppendElement
      <4>2. CASE i = Len(net[k][m]) + 1
        BY <2>3, <4>1, <4>2
      <4>3. CASE i # Len(net[k][m]) + 1
        <5>1. Issued(net[k][m][i]) /\ net[k][m][i] \in Announcement
          BY <3>1, <4>1, <4>3 DEF NetIssued
        <5>2. QED
          BY <2>1, <4>1, <4>3, <5>1, SequenceGrows
      <4>4. QED
        BY <4>2, <4>3
    <3>4. QED
      BY <3>2, <3>3 DEF SendTo, Net
  <2>5. ASSUME NEW a1 \in Announcement, Issued(a1)
        PROVE  IssuedNext(a1)
    BY <2>1, <2>5, SequenceGrows
  <2>6. ASSUME NEW k \in Node, NEW m \in Node
        PROVE  /\ ann[k][m] # None => IssuedNext(ann[k][m])
               /\ first[k][m] # None => IssuedNext(first[k][m])
    BY <2>5 DEF TablesIssued, RowIssued, RouterOK, LinksOK, Row
  <2>7. QED
    BY <2>1, <2>4, <2>6 DEF SequenceIsIssued, Issued, IssuedNext
<1>4. CASE SetReparentTimer(n) \/ TimerExpires(n)
  BY <1>1, <1>4 DEF SetReparentTimer, TimerExpires
<1>5. ASSUME NEW kind \in {"sleep", "now"}, Reparent(n, kind)
      PROVE  SequenceIsIssued'
  <2>1. ann[n] \in Row /\ RowIssued(ann[n]) /\ Peers(n) \in SUBSET Node
    BY DEF RouterOK, TablesIssued, Peers
  <2>2. NetIssued(net')
    BY <1>5, <2>1, ParentSelectionIssued DEF Reparent
  <2>3. QED
    BY <1>1, <1>5, <2>2 DEF Reparent
<1>6. QED
  BY <1>2, <1>3, <1>4, <1>5 DEF TaskStep

LEMMA IssuedStep ==
    TypeOK /\ SequenceIsIssued /\ [Next]_vars => SequenceIsIssued'
<1> SUFFICES ASSUME TypeOK, SequenceIsIssued, [Next]_vars
             PROVE  SequenceIsIssued'
  OBVIOUS
<1>1. ASSUME NEW n \in Node, NEW m \in Node, PeerStep(n, m)
      PROVE  SequenceIsIssued'
  <2>1. /\ TablesIssued(ann') /\ TablesIssued(first') /\ NetIssued(net')
        /\ sequence' = sequence
    BY <1>1, PeerStepIssued
  <2>2. QED
    BY <2>1 DEF SequenceIsIssued, TablesIssued, RowIssued, NetIssued, Issued
<1>2. CASE UNCHANGED vars
  BY <1>2 DEF vars, router, SequenceIsIssued, Issued
<1>3. QED
  BY <1>1, <1>2, TaskStepIssued DEF Next

(* No announcement, stored, queued or held by connect(), is newer than     *)
(* what its root has announced: what a router follows was once announced.  *)
THEOREM SequencesAreIssued == Spec => []SequenceIsIssued
<1>1. Init => SequenceIsIssued
  BY DEF Init, SequenceIsIssued
<1>2. QED
  BY <1>1, IssuedStep, TypeCorrect, PTL DEF Spec

-----------------------------------------------------------------------------
(* SpanningTree implements RootElection: every step of a router's tasks is *)
(* a step of the election or leaves it as it is.                           *)

RootIn(a) == IF a = None THEN None ELSE a.root

(* What the election sees of a row of the table.                           *)
LEMMA HeardRootsValue ==
    ASSUME NEW n \in Node, NEW m \in Node
    PROVE  /\ HeardRoots[n][m] = RootIn(ann[n][m])
           /\ HeardRoots'[n][m] = RootIn(ann'[n][m])
BY DEF HeardRoots, RootIn

LEMMA RootInIsNone ==
    ASSUME NEW a \in Announcement \cup {None}
    PROVE  RootIn(a) = None <=> a = None
BY NoneAssumption, NoRootAssumption DEF RootIn, Announcement

LEMMA HeardRootsChange ==
    ASSUME RouterOK, NEW n \in Node, NEW m \in Node,
           NEW a, ann' = [ann EXCEPT ![n][m] = a]
    PROVE  HeardRoots' = [HeardRoots EXCEPT ![n][m] = RootIn(a)]
<1>1. \A k, p \in Node :
         ann'[k][p] = IF k = n /\ p = m THEN a ELSE ann[k][p]
  BY DEF RouterOK, Row
<1>2. HeardRoots' = [k \in Node |-> [p \in Node |->
         IF k = n /\ p = m THEN RootIn(a) ELSE HeardRoots[k][p]]]
  BY <1>1 DEF HeardRoots, RootIn
<1>3. /\ HeardRoots = [k \in Node |-> HeardRoots[k]]
      /\ \A k \in Node : HeardRoots[k] = [p \in Node |-> HeardRoots[k][p]]
  BY DEF HeardRoots
<1>4. [HeardRoots[n] EXCEPT ![m] = RootIn(a)]
      = [p \in Node |-> IF p = m THEN RootIn(a) ELSE HeardRoots[n][p]]
  BY <1>3
<1>5. [HeardRoots EXCEPT ![n][m] = RootIn(a)]
      = [k \in Node |-> IF k = n THEN [HeardRoots[n] EXCEPT ![m] = RootIn(a)]
                         ELSE HeardRoots[k]]
  BY <1>3
<1>6. QED
  BY <1>2, <1>3, <1>4, <1>5

(* A root is its key and its sequence number.                              *)
LEMMA RootParts ==
    ASSUME NEW r \in Root
    PROVE  r = [key |-> r.key, seq |-> r.seq] /\ r.key \in Node /\ r.seq \in Nat
BY DEF Root

LEMMA HeardRootsSame == ann' = ann => HeardRoots' = HeardRoots
BY DEF HeardRoots

(* The root a router follows is that of its current announcement.          *)
LEMMA FollowedIsCurrent ==
    ASSUME RouterOK, NEW n \in Node, NEW p \in Node, NEW row \in Row, NEW roots,
           \A k \in Node : roots[k] = RootIn(row[k])
    PROVE  Election!Followed(n, roots, p) = CurrentIn(n, row, p).root
<1>1. row[p] \in Announcement \cup {None}
  BY DEF Row
<1>2. roots[p] = None <=> row[p] = None
  BY <1>1, RootInIsNone
<1>3. QED
  BY <1>2 DEF Election!Followed, CurrentIn, Own, RootIn

(* Parent selection falls back to the router itself or adopts a parent     *)
(* whose root is not weaker than the one it followed.                      *)
LEMMA ParentSelectionAdopts ==
    ASSUME RouterOK, NEW n \in Node, NEW row \in Row, row[n] = None,
           NEW peers \in SUBSET Node, NEW q, NEW roots,
           \A k \in Node : roots[k] = RootIn(row[k]),
           ParentSelection(n, row, peers, q)
    PROVE  \/ Election!FallBack(n)
           \/ Election!Adopt(n, roots, CurrentIn(n, row, parent[n]).root)
<1> DEFINE cur == CurrentIn(n, row, parent[n])
           start == CurrentIn(n, row, StartParent(n, row))
<1>0. parent[n] \in Node /\ StartParent(n, row) \in Node
  BY DEF RouterOK, StartParent
<1>1. cur \in Announcement /\ start \in Announcement
  BY <1>0, CurrentInType
<1>2. CASE parent' = [parent EXCEPT ![n] = n]
  BY <1>2 DEF Election!FallBack
<1>3. ASSUME NEW m \in Best(n, row, peers), parent' = [parent EXCEPT ![n] = m]
      PROVE  Election!Adopt(n, roots, cur.root)
  <2>1. /\ m \in Node /\ row[m] \in Announcement
        /\ ~ Stronger(start.root, row[m].root)
    BY DEF Best, Eligible, Row
  <2>2. roots[m] = row[m].root /\ roots[m] # None
    BY <2>1, NoneAssumption, RootInIsNone DEF RootIn
  <2>3. /\ cur.root \in Root /\ start.root \in Root /\ row[m].root \in Root
    BY <1>1, <2>1 DEF Announcement
  <2>4. start.root = cur.root \/ start.root.key > cur.root.key
    <3>1. CASE n > cur.root.key
      <4>1. start = Own(n, sequence[n])
        BY <3>1 DEF StartParent, CurrentIn
      <4>2. QED
        BY <3>1, <4>1 DEF Own
    <3>2. CASE ~ (n > cur.root.key)
      BY <3>2 DEF StartParent
    <3>3. QED
      BY <3>1, <3>2
  <2> HIDE DEF cur, start
  <2>5. ~ Election!Weaker(row[m].root, cur.root)
    <3>1. /\ cur.root.key \in Nat /\ start.root.key \in Nat
          /\ row[m].root.key \in Nat
          /\ cur.root.seq \in Nat /\ start.root.seq \in Nat
          /\ row[m].root.seq \in Nat
      BY <2>3, NodeAssumption DEF Root
    <3>2. /\ ~ (start.root.key > row[m].root.key)
          /\ start.root.key = row[m].root.key
             => ~ (start.root.seq > row[m].root.seq)
      BY <2>1 DEF Stronger
    <3>3. CASE start.root = cur.root
      BY <3>1, <3>2, <3>3 DEF Election!Weaker
    <3>4. CASE start.root.key > cur.root.key
      BY <3>1, <3>2, <3>4 DEF Election!Weaker
    <3>5. QED
      BY <2>4, <3>3, <3>4
  <2>6. QED
    BY <1>3, <2>1, <2>2, <2>5 DEF Election!Adopt
<1>4. QED
  BY <1>2, <1>3 DEF ParentSelection

(* An announcement that is handled is heard, whatever branch it takes.     *)
LEMMA HandleAnnouncementHears ==
    ASSUME RouterOK, NEW n \in Node, NEW m \in Node,
           NEW f \in Announcement, Issued(f), NEW q,
           HandleAnnouncement(n, m, f, q)
    PROVE  Election!Hear(n, m) \/ UNCHANGED Election!vars
<1>1. CASE Discard(n, m, f, q)
  BY <1>1, HeardRootsSame DEF Discard, router, Election!vars
<1>2. CASE Store(n, m, f)
  <2> DEFINE row == [ann[n] EXCEPT ![m] = f]
             cur == CurrentIn(n, row, parent[n])
  <2>1. /\ ann' = [ann EXCEPT ![n][m] = f] /\ sequence' = sequence
        /\ ~ Replayed(n, m, f)
    BY <1>2, StoreType DEF Store, Accepted
  <2>2. /\ f # None /\ f.root \in Root
        /\ f.root = [key |-> f.root.key, seq |-> f.root.seq]
        /\ f.root.key \in Node /\ f.root.seq \in Nat
    <3>1. f # None /\ f.root \in Root
      BY NoneAssumption DEF Announcement
    <3>2. QED
      BY <3>1, RootParts
  <2>3. /\ HeardRoots' = [HeardRoots EXCEPT ![n][m] = f.root]
        /\ HeardRoots[n][m] = RootIn(ann[n][m])
    <3>1. RootIn(f) = f.root
      BY <2>2 DEF RootIn
    <3>2. ann' = [ann EXCEPT ![n][m] = f]
      BY <2>1
    <3>3. HeardRoots' = [HeardRoots EXCEPT ![n][m] = RootIn(f)]
      BY <3>2, HeardRootsChange
    <3>4. QED
      BY <3>1, <3>3, HeardRootsValue
  <2>4. HeardRoots[n][m] # None /\ HeardRoots[n][m].key = f.root.key
        => HeardRoots[n][m].seq <= f.root.seq
    <3>1. ann[n][m] \in Announcement \cup {None}
      BY DEF RouterOK, Row
    <3>2. CASE ann[n][m] = None
      BY <2>3, <3>2 DEF RootIn
    <3>3. CASE ann[n][m] # None
      <4>1. ann[n][m].root.seq \in Nat
        BY <3>1, <3>3 DEF Announcement, Root
      <4>2. QED
        BY <2>1, <2>2, <2>3, <3>3, <4>1 DEF Replayed, RootIn
    <3>4. QED
      BY <3>2, <3>3
  <2>5. f.root.seq \in 0 .. sequence[f.root.key]
    BY <2>2 DEF Issued, RouterOK
  <2>6. \/ UNCHANGED parent
        \/ m = parent[n] /\ Election!FallBack(n)
        \/ /\ m # parent[n] /\ f.root.key > cur.root.key
           /\ parent' = [parent EXCEPT ![n] = m]
    <3>1. CASE WaitingToReparent(n, m, f, q)
      BY <3>1 DEF WaitingToReparent
    <3>2. CASE FromParent(n, m, f, cur, q)
      BY <3>2 DEF FromParent, Election!FallBack
    <3>3. CASE LoopFromOther(n, m, f, q)
      BY <3>3 DEF LoopFromOther
    <3>4. CASE AcceptNewParent(n, m, f, cur, q)
      BY <3>4 DEF AcceptNewParent
    <3>5. CASE InformPeerOfStrongerRoot(n, m, f, cur, q)
      BY <3>5 DEF InformPeerOfStrongerRoot
    <3>6. CASE SelectNewParent(n, m, f, cur, q)
      BY <3>6 DEF SelectNewParent
    <3>7. CASE Discard(n, m, f, q)
      BY <3>7 DEF Discard, router
    <3>8. QED
      BY <3>1, <3>2, <3>3, <3>4, <3>5, <3>6, <3>7 DEF HandleAnnouncement
  <2>7. Election!Followed(n, HeardRoots'[n], parent[n]) = cur.root
    <3>1. row \in Row /\ parent[n] \in Node /\ ann'[n] = row
      BY <2>1 DEF RouterOK, Row
    <3> DEFINE roots == HeardRoots'[n]
    <3>2. \A k \in Node : roots[k] = RootIn(row[k])
      <4> TAKE k \in Node
      <4>1. HeardRoots'[n][k] = RootIn(ann'[n][k])
        BY HeardRootsValue
      <4> HIDE DEF row
      <4>2. QED
        BY <3>1, <4>1
    <3>3. cur = CurrentIn(n, row, parent[n])
      OBVIOUS
    <3> HIDE DEF row, cur, roots
    <3>4. Election!Followed(n, roots, parent[n]) = cur.root
      BY <3>1, <3>2, <3>3, FollowedIsCurrent
    <3>5. QED
      BY <3>4 DEF roots
  <2> HIDE DEF row, cur
  <2>8. QED
    BY <2>1, <2>2, <2>3, <2>4, <2>5, <2>6, <2>7 DEF Election!Hear
<1>3. QED
  BY <1>1, <1>2 DEF HandleAnnouncement

LEMMA DisconnectPeerLoses ==
    ASSUME RouterOK, NEW n \in Node, NEW m \in Node, ann[n][n] = None,
           NEW lost, NEW state, DisconnectPeer(n, m, lost, state)
    PROVE  Election!Lose(n, m)
<1> DEFINE row == [ann[n] EXCEPT ![m] = None]
<1>1. /\ HeardRoots' = [HeardRoots EXCEPT ![n][m] = None]
      /\ ann'[n] = row /\ sequence' = sequence
  BY HeardRootsChange DEF DisconnectPeer, RootIn, RouterOK, Row
<1>2. CASE parent' = parent
  BY <1>1, <1>2 DEF Election!Lose
<1>3. CASE parent[n] = m /\ ~ lost
  <2>1. PICK q : ParentSelection(n, row, Peers(n) \ {m}, q)
    BY <1>3 DEF DisconnectPeer
  <2>2. /\ row \in Row /\ row[n] = None /\ row[m] = None
        /\ Peers(n) \ {m} \in SUBSET Node
    BY DEF RouterOK, Row, Peers
  <2>3. \A k \in Node : HeardRoots'[n][k] = RootIn(row[k])
    <3>1. ann'[n] = row
      BY <1>1
    <3> HIDE DEF row
    <3>2. QED
      BY <3>1, HeardRootsValue
  <2>4. CurrentIn(n, row, parent[n]).root = [key |-> n, seq |-> sequence[n]]
    BY <1>3, <2>2 DEF CurrentIn, Own
  <2>5. \/ Election!FallBack(n)
        \/ Election!Adopt(n, HeardRoots'[n], [key |-> n, seq |-> sequence[n]])
    BY <2>1, <2>2, <2>3, <2>4, ParentSelectionAdopts
  <2>6. QED
    BY <1>1, <1>3, <2>5 DEF Election!Lose
<1>4. QED
  BY <1>2, <1>3 DEF DisconnectPeer

LEMMA ReparentChooses ==
    ASSUME RouterOK, NEW n \in Node, ann[n][n] = None,
           NEW kind \in {"sleep", "now"}, Reparent(n, kind)
    PROVE  Election!Choose(n)
<1>1. ann' = ann /\ sequence' = sequence /\ HeardRoots' = HeardRoots
  BY HeardRootsSame DEF Reparent
<1>2. /\ ann[n] \in Row /\ parent[n] \in Node /\ Peers(n) \in SUBSET Node
  BY DEF RouterOK, Peers
<1>3. \A k \in Node : HeardRoots[n][k] = RootIn(ann[n][k])
  BY HeardRootsValue
<1>4. Election!Followed(n, HeardRoots[n], parent[n])
      = CurrentIn(n, ann[n], parent[n]).root
  BY <1>2, <1>3, FollowedIsCurrent
<1>5. ParentSelection(n, ann[n], Peers(n), net)
  BY DEF Reparent
<1>6. \/ Election!FallBack(n)
      \/ Election!Adopt(n, HeardRoots[n], CurrentIn(n, ann[n], parent[n]).root)
  BY <1>2, <1>3, <1>5, ParentSelectionAdopts
<1>7. QED
  BY <1>1, <1>4, <1>6 DEF Election!Choose

LEMMA MaintainTreeBegins ==
    ASSUME NEW n \in Node, MaintainTree(n)
    PROVE  Election!Begin(n) \/ UNCHANGED Election!vars
BY HeardRootsSame DEF MaintainTree, Election!Begin, Election!vars

(* Every step is a step of the election or leaves it as it is.             *)
LEMMA StepElects ==
    ReconsideredInv /\ SequenceIsIssued /\ [Next]_vars
    => [Election!Next]_(Election!vars)
<1> SUFFICES ASSUME ReconsideredInv, SequenceIsIssued, [Next]_vars
             PROVE  Election!Next \/ UNCHANGED Election!vars
  OBVIOUS
<1>0. /\ RouterOK /\ LinksOK /\ net \in Net
      /\ \A n \in Node : ann[n][n] = None
  BY TypeParts DEF ReconsideredInv, NoSelfPeering
<1>1. CASE UNCHANGED vars
  BY <1>1, HeardRootsSame DEF vars, Election!vars
<1>2. ASSUME NEW n \in Node, NEW m \in Node, PeerStep(n, m)
      PROVE  Election!Next \/ UNCHANGED Election!vars
  <2>1. CASE Connect(n, m) \/ AddPeer(n, m) \/ AnnouncementTimesOut(n, m)
    BY <2>1, HeardRootsSame
    DEF Connect, AddPeer, AnnouncementTimesOut, router, Election!vars
  <2>2. CASE HandleFirst(n, m)
    <3>1. first[n][m] \in Announcement /\ Issued(first[n][m])
      BY <1>0, <2>2 DEF HandleFirst, SequenceIsIssued, LinksOK, Row
    <3>2. HandleAnnouncement(n, m, first[n][m], net)
      BY <2>2 DEF HandleFirst
    <3>3. QED
      BY <1>0, <3>1, <3>2, HandleAnnouncementHears DEF Election!Next
  <2>3. CASE PollPeer(n, m)
    <3>1. net[m][n] # <<>> /\ NetIssued(net)
      BY <2>3 DEF PollPeer, SequenceIsIssued, NetIssued
    <3>2. Head(net[m][n]) \in Announcement /\ Issued(Head(net[m][n]))
      BY <1>0, <3>1, ReadIssued
    <3>3. HandleAnnouncement(n, m, Head(net[m][n]), [net EXCEPT ![m][n] = Tail(@)])
      BY <2>3 DEF PollPeer
    <3>4. QED
      BY <1>0, <3>2, <3>3, HandleAnnouncementHears DEF Election!Next
  <2>4. CASE UserDisconnect(n, m) \/ ConnectionClosed(n, m) \/ PeerTaskEnds(n, m)
    <3>1. PICK lost, state : DisconnectPeer(n, m, lost, state)
      BY <2>4 DEF UserDisconnect, ConnectionClosed, PeerTaskEnds
    <3>2. QED
      BY <1>0, <3>1, DisconnectPeerLoses DEF Election!Next
  <2>5. QED
    BY <1>2, <2>1, <2>2, <2>3, <2>4 DEF PeerStep
<1>3. ASSUME NEW n \in Node, TaskStep(n)
      PROVE  Election!Next \/ UNCHANGED Election!vars
  <2>1. CASE MaintainTree(n)
    BY <2>1, MaintainTreeBegins DEF Election!Next
  <2>2. CASE SetReparentTimer(n) \/ TimerExpires(n)
    BY <2>2, HeardRootsSame DEF SetReparentTimer, TimerExpires, Election!vars
  <2>3. CASE \E kind \in {"sleep", "now"} : Reparent(n, kind)
    BY <1>0, <2>3, ReparentChooses DEF Election!Next
  <2>4. QED
    BY <1>3, <2>1, <2>2, <2>3 DEF TaskStep
<1>4. QED
  BY <1>1, <1>2, <1>3 DEF Next

(* The handlers, tasks and connections of SpanningTree implement the       *)
(* election: routers only hear of rounds their root announced, in order,   *)
(* and change parents without weakening the root they follow.              *)
THEOREM TreeElects == Spec => ElectsRoot
<1>1. Init => Election!Init
  BY DEF Init, HeardRoots, Election!Init
<1>2. Init => ReconsideredInv
  BY InitType DEF Init, ReconsideredInv, NoSelfPeering, TimerIsCovered,
                  UnfitParentIsReconsidered, Unfit
<1>3. Spec => []SequenceIsIssued
  BY SequencesAreIssued
<1>4. QED
  BY <1>1, <1>2, <1>3, ReconsideredStep, StepElects, PTL
  DEF Spec, ElectsRoot, Election!Spec

-----------------------------------------------------------------------------
(* Routers that crash and restart (TreeRestart).  What the invariants need *)
(* of Restart is that it forgets the parent, the table, the timer and the  *)
(* tasks together, and touches no other router's; the sequence numbers     *)
(* need that a restarted peer is met with the row that its announcements   *)
(* left, or with an empty one after a disconnection, and with the same     *)
(* replay check either way.                                                *)

LEMMA RestartType ==
    ASSUME TypeOK, NEW n \in Node, Restart(n)
    PROVE  TypeOK'
<1>1. RouterOK /\ LinksOK /\ net \in Net
  BY TypeParts
<1>2. RouterOK'
  <2>1. parent' \in [Node -> Node] /\ sequence' \in [Node -> Nat]
        /\ timer' \in [Node -> BOOLEAN]
    BY <1>1 DEF Restart, RouterOK
  <2>2. older' \in [Node -> SUBSET (Node \X Node)] /\ expired' \in [Node -> SUBSET Node]
    BY <1>1 DEF Restart, RouterOK
  <2>3. ann' \in [Node -> Row]
    BY <1>1 DEF Restart, RouterOK, Row
  <2>4. tasks' \in [Node -> TaskCount]
    BY <1>1 DEF Restart, RouterOK, TaskCount
  <2>5. QED
    BY <2>1, <2>2, <2>3, <2>4 DEF RouterOK
<1>3. LinksOK'
  <2>1. conn' \in [Node -> [Node -> ConnState]]
    BY <1>1 DEF Restart, LinksOK, ConnState
  <2>2. first' \in [Node -> Row]
    BY <1>1 DEF Restart, LinksOK, Row
  <2>3. QED
    BY <2>1, <2>2 DEF LinksOK
<1>4. net' \in Net
  <2>1. ASSUME NEW m \in Node
        PROVE  [net[m] EXCEPT ![n] = <<>>] \in [Node -> Seq(Announcement)]
    BY <1>1 DEF Net
  <2>2. QED
    BY <2>1 DEF Restart, Net
<1>5. QED
  BY <1>2, <1>3, <1>4 DEF TypeOK, RouterOK, LinksOK, Row, Net

LEMMA RedialType ==
    ASSUME TypeOK, NEW n \in Node, NEW m \in Node, Redial(n, m)
    PROVE  TypeOK'
<1>1. RouterOK /\ LinksOK /\ net \in Net
  BY TypeParts
<1>2. conn' \in [Node -> [Node -> ConnState]]
  BY <1>1 DEF Redial, LinksOK, ConnState
<1>3. RouterOK' /\ LinksOK' /\ net' \in Net
  BY <1>1, <1>2 DEF Redial, router, RouterOK, LinksOK
<1>4. QED
  BY <1>3 DEF TypeOK, RouterOK, LinksOK, Row, Net

(* A router that restarts follows nobody; the others are as they were.     *)
LEMMA RestartReconsiders ==
    ASSUME ReconsideredInv, NEW n \in Node, Restart(n)
    PROVE  NoSelfPeering' /\ TimerIsCovered' /\ UnfitParentIsReconsidered'
<1>1. /\ RouterOK /\ LinksOK /\ NoSelfPeering
      /\ TimerIsCovered /\ UnfitParentIsReconsidered
  BY TypeParts DEF ReconsideredInv
<1>2. NoSelfPeering'
  <2>1. ASSUME NEW k \in Node
        PROVE  ann'[k][k] = None /\ first'[k][k] = None
    BY <1>1 DEF Restart, NoSelfPeering, RouterOK, LinksOK, Row
  <2>2. ASSUME NEW k \in Node
        PROVE  conn'[k][k] = "idle"
    BY <1>1 DEF Restart, NoSelfPeering, LinksOK
  <2>3. QED
    BY <2>1, <2>2 DEF NoSelfPeering
<1>3. parent'[n] = n /\ timer'[n] = FALSE
  BY <1>1 DEF Restart, RouterOK
<1>4. ASSUME NEW k \in Node, k # n
      PROVE  /\ parent'[k] = parent[k] /\ ann'[k] = ann[k]
             /\ timer'[k] = timer[k] /\ tasks'[k] = tasks[k]
  BY <1>1, <1>4 DEF Restart, RouterOK
<1>5. TimerIsCovered'
  BY <1>1, <1>3, <1>4 DEF TimerIsCovered
<1>6. ASSUME NEW k \in Node, Unfit(k)'
      PROVE  tasks'[k].sleep > 0
  <2>1. k # n
    BY <1>3, <1>6 DEF Unfit
  <2>2. Unfit(k)
    BY <1>4, <1>6, <2>1, OtherRouter
  <2>3. QED
    BY <1>1, <1>4, <2>1, <2>2 DEF UnfitParentIsReconsidered
<1>7. QED
  BY <1>2, <1>5, <1>6 DEF UnfitParentIsReconsidered

LEMMA RedialReconsiders ==
    ASSUME ReconsideredInv, NEW n \in Node, NEW m \in Node, Redial(n, m)
    PROVE  NoSelfPeering' /\ TimerIsCovered' /\ UnfitParentIsReconsidered'
<1>1. /\ RouterOK /\ LinksOK /\ NoSelfPeering
      /\ TimerIsCovered /\ UnfitParentIsReconsidered
  BY TypeParts DEF ReconsideredInv
<1>2. NoSelfPeering'
  <2>1. ASSUME NEW k \in Node
        PROVE  conn'[k][k] = "idle"
    BY <1>1 DEF Redial, NoSelfPeering, LinksOK
  <2>2. QED
    BY <1>1, <2>1 DEF Redial, router, NoSelfPeering
<1>3. QED
  BY <1>1, <1>2, UndisturbedReconsiders DEF Redial, router

LEMMA RestartStep == ReconsideredInv /\ [RestartNext]_restartVars => ReconsideredInv'
<1> SUFFICES ASSUME ReconsideredInv, [RestartNext]_restartVars
             PROVE  ReconsideredInv'
  OBVIOUS
<1>1. CASE [Next]_vars
  BY <1>1, ReconsideredStep
<1>2. ASSUME NEW n \in Node, Restart(n)
      PROVE  ReconsideredInv'
  BY <1>2, RestartType, RestartReconsiders DEF ReconsideredInv
<1>3. ASSUME NEW n \in Node, NEW m \in Node, Redial(n, m)
      PROVE  ReconsideredInv'
  BY <1>3, RedialType, RedialReconsiders DEF ReconsideredInv
<1>4. QED
  BY <1>1, <1>2, <1>3 DEF RestartNext, restartVars

LEMMA RestartInvariant == RestartSpec => []ReconsideredInv
<1>1. RestartInit => ReconsideredInv
  BY InitType DEF RestartInit, Init, ReconsideredInv, NoSelfPeering, TimerIsCovered,
                  UnfitParentIsReconsidered, Unfit
<1>2. QED
  BY <1>1, RestartStep, PTL DEF RestartSpec

(* Crashes, lost tables and redialled peerings included, a router never    *)
(* keeps a parent that loops back or is weaker than its own key without a  *)
(* reparent task asleep that will look for another.                        *)
THEOREM UnfitReconsideredAfterCrash == RestartSpec => []UnfitParentIsReconsidered
<1>1. ReconsideredInv => UnfitParentIsReconsidered
  BY DEF ReconsideredInv
<1>2. QED
  BY <1>1, RestartInvariant, PTL

(* A root that restarts counts from 0 again; no router, however its peers  *)
(* crash and are dialled again, replaces what it stored of that root from  *)
(* a peer by an earlier number.  That is why routers that did not lose the *)
(* root's announcements drop its new ones until it has caught up.          *)
THEOREM NeverRegressesAfterCrash == RestartSpec => SequenceNeverRegresses
<1>1. ASSUME TypeOK, [RestartNext]_restartVars, NEW k \in Node, NEW p \in Node
      PROVE  RowStep(k, p)
  <2>1. CASE [Next]_vars
    BY <1>1, <2>1, NextRow
  <2>2. ASSUME NEW n \in Node, Restart(n)
        PROVE  RowStep(k, p)
    <3>1. ann \in [Node -> Row]
      BY <1>1, TypeParts DEF RouterOK
    <3>2. ann' = [ann EXCEPT ![n] = [m \in Node |-> None]]
      BY <2>2 DEF Restart
    <3>3. CASE k = n
      BY <3>1, <3>2, <3>3 DEF RowStep
    <3>4. CASE k # n
      BY <3>1, <3>2, <3>4 DEF RowStep
    <3>5. QED
      BY <3>3, <3>4
  <2>3. ASSUME NEW n \in Node, NEW m \in Node, Redial(n, m)
        PROVE  RowStep(k, p)
    BY <2>3 DEF Redial, router, RowStep
  <2>4. QED
    BY <1>1, <2>1, <2>2, <2>3 DEF RestartNext, restartVars
<1>2. TypeOK /\ [RestartNext]_restartVars =>
        [\A n, m \in Node :
            /\ ann[n][m] # None /\ ann'[n][m] # None
            /\ ann'[n][m].root.key = ann[n][m].root.key
            => ann'[n][m].root.seq >= ann[n][m].root.seq]_vars
  BY <1>1, RowKeepsOrder DEF TypeOK
<1>3. ReconsideredInv => TypeOK
  BY DEF ReconsideredInv
<1>4. QED
  BY <1>2, <1>3, RestartInvariant, PTL DEF RestartSpec, SequenceNeverRegresses

=============================================================================
