---------------------------- MODULE Snek_proofs -----------------------------
(***************************************************************************)
(* The snake's tables keep their types, paths over a lost peering are torn *)
(* down, and the ascending path is in the table, in every network.         *)
(***************************************************************************)
EXTENDS Snek, TreeView_proofs

Queues == [Node -> [Node -> Seq(Frame)]]

(* The variables that only the snake has.                                  *)
SnakeTypeOK ==
    /\ paths \in [Node -> SUBSET Path]
    /\ asc \in [Node -> Path \cup {None}]
    /\ desc \in [Node -> Path \cup {None}]
    /\ candidate \in [Node -> Path \cup {None}]
    /\ expired \in [Node -> SUBSET Index]
    /\ tasks \in [Node -> SUBSET Task]
    /\ dead \in [Node -> SUBSET Node]
    /\ net \in Queues

LEMMA TypeParts ==
    TypeOK <=> TreeTypeOK /\ SnakeTypeOK
BY DEF TypeOK, SnakeTypeOK, Queues

LEMMA TypePartsNext ==
    TypeOK' <=> TreeTypeOK' /\ SnakeTypeOK'
BY DEF TypeOK, SnakeTypeOK, Queues

LEMMA CurrentTypeNext ==
    ASSUME TreeTypeOK', NEW n \in Node
    PROVE  Current(n)' \in Announcement
<1>1. Own(n)' \in Announcement
    BY DEF TreeTypeOK, Own, Announcement, Root
<1>2. ann'[n][parent'[n]] \in Announcement \cup {None}
    BY DEF TreeTypeOK
<1> QED BY <1>1, <1>2 DEF Current

LEMMA CoordinatesType ==
    ASSUME NEW sigs \in Seq(Signature)
    PROVE  Coordinates(sigs) \in Seq(Nat)
<1>1. Len(sigs) \in Nat /\ \A i \in 1 .. Len(sigs) : sigs[i] \in Signature
    OBVIOUS
<1>2. \A i \in 1 .. Len(sigs) : sigs[i].port \in Nat
    BY <1>1 DEF Signature
<1> QED BY <1>1, <1>2 DEF Coordinates

LEMMA TreeHopsArePeers ==
    ASSUME TreeTypeOK, NEW n \in Node, NEW dest, NEW from
    PROVE  TreeHops(n, dest, from) \subseteq peers[n] \cup {n}
BY DEF TreeTypeOK, TreeHops, Closest, Closer, Usable

-----------------------------------------------------------------------------
(* Frames that are sent, and tasks that are spawned.                       *)

LEMMA SendType ==
    ASSUME TreeTypeOK, NEW q \in Queues, NEW n \in Node, NEW m, NEW f \in Frame
    PROVE  Send(q, n, m, f) \in Queues
<1>1. CASE Connected(n, m)
    <2>1. m \in Node
        BY <1>1 DEF Connected, TreeTypeOK
    <2>2. Append(q[n][m], f) \in Seq(Frame)
        BY <2>1 DEF Queues
    <2> QED BY <1>1, <2>1, <2>2 DEF Send, Queues
<1> QED BY <1>1 DEF Send

LEMMA SpawnType ==
    ASSUME SnakeTypeOK, NEW n \in Node, NEW I \in SUBSET Index
    PROVE  Spawn(n, I) \in [Node -> SUBSET Task]
BY DEF SnakeTypeOK, Spawn, Task

LEMMA TeardownType ==
    ASSUME NEW i \in Index
    PROVE  TeardownOf(i) \in Frame
BY DEF TeardownOf, Frame, Teardown

LEMMA DieType ==
    ASSUME dead \in [Node -> SUBSET Node], NEW n \in Node, NEW ms \in SUBSET Node
    PROVE  Die(n, ms) \in [Node -> SUBSET Node]
BY DEF Die

LEMMA IndicesType ==
    ASSUME NEW S \in SUBSET Path
    PROVE  Indices(S) \in SUBSET Index
BY DEF Indices, Path

LEMMA NewIdIsFresh ==
    ASSUME NEW n \in Node, NEW i \in NewIds(n)
    PROVE  i \in PathId /\ ~ InUse(i)
<1> DEFINE Free == {j \in Ids : ~ InUse(<<n, j>>)}
<1>1. \E j \in {l \in Free : \A k \in Free : l <= k} : i = <<n, j>>
    BY DEF NewIds
<1>2. PICK j \in Ids : i = <<n, j>> /\ ~ InUse(<<n, j>>)
    BY <1>1
<1> QED BY <1>2 DEF PathId

LEMMA BootstrapNowType ==
    ASSUME TreeTypeOK', dead \in [Node -> SUBSET Node], NEW n \in Node,
           NEW q \in Queues, NEW who \in SUBSET Node, BootstrapNow(n, q, who)
    PROVE  net' \in Queues /\ dead' \in [Node -> SUBSET Node]
<1>1. CASE net' = q /\ UNCHANGED dead
    BY <1>1
<1>2. ASSUME NEW i \in NewIds(n), NEW h,
             LET f == [kind |-> "bootstrap", root |-> Current(n)'.root,
                       coords |-> Coordinates(Current(n)'.sigs),
                       index |-> [key |-> n, id |-> i]]
             IN /\ net' = IF Connected(n, h)' THEN [q EXCEPT ![n][h] = Append(@, f)] ELSE q
                /\ dead' = IF h = Panic THEN Die(n, who) ELSE dead
      PROVE  net' \in Queues /\ dead' \in [Node -> SUBSET Node]
    <2> DEFINE f == [kind |-> "bootstrap", root |-> Current(n)'.root,
                     coords |-> Coordinates(Current(n)'.sigs),
                     index |-> [key |-> n, id |-> i]]
    <2>1. f \in Frame
        <3>1. Current(n)'.root \in Root /\ Current(n)'.sigs \in Seq(Signature)
            BY CurrentTypeNext DEF Announcement
        <3>2. Coordinates(Current(n)'.sigs) \in Seq(Nat)
            BY <3>1, CoordinatesType
        <3>3. i \in PathId
            BY NewIdIsFresh
        <3>4. [key |-> n, id |-> i] \in Index
            BY <3>3 DEF Index
        <3> QED BY <3>1, <3>2, <3>4 DEF Frame, Bootstrap
    <2> HIDE DEF f
    <2>2. dead' \in [Node -> SUBSET Node]
        BY <1>2, DieType
    <2>3. CASE Connected(n, h)'
        <3>1. h \in Node
            BY <2>3 DEF Connected, TreeTypeOK
        <3>2. net' = [q EXCEPT ![n][h] = Append(@, f)]
            BY <1>2, <2>3 DEF f
        <3>3. Append(q[n][h], f) \in Seq(Frame)
            BY <2>1, <3>1 DEF Queues
        <3> QED BY <2>2, <3>1, <3>2, <3>3 DEF Queues
    <2> QED BY <1>2, <2>2, <2>3
<1> QED BY <1>1, <1>2 DEF BootstrapNow

-----------------------------------------------------------------------------
(* The handlers keep the types.                                            *)

LEMMA HandleBootstrapType ==
    ASSUME TypeOK, NEW n \in Node, NEW q \in Queues, NEW f \in Bootstrap,
           HandleBootstrap(n, f, q)
    PROVE  net' \in Queues
<1>1. CASE net' = q
    BY <1>1
<1>2. ASSUME NEW h,
             net' = Send(q, n, h, [kind |-> "ack", root |-> f.root, dest |-> f.coords,
                                   coords |-> Coordinates(Current(n).sigs),
                                   by |-> n, index |-> f.index])
      PROVE  net' \in Queues
    <2>1. Current(n).sigs \in Seq(Signature)
        BY CurrentType DEF TypeOK, Announcement
    <2>2. Coordinates(Current(n).sigs) \in Seq(Nat)
        BY <2>1, CoordinatesType
    <2> DEFINE g == [kind |-> "ack", root |-> f.root, dest |-> f.coords,
                     coords |-> Coordinates(Current(n).sigs),
                     by |-> n, index |-> f.index]
    <2>3. g \in Frame
        BY <2>2 DEF Bootstrap, Ack, Frame
    <2> HIDE DEF g
    <2>4. Send(q, n, h, g) \in Queues
        BY <2>3, SendType DEF TypeOK
    <2> QED BY <1>2, <2>4 DEF g
<1> QED BY <1>1, <1>2 DEF HandleBootstrap

LEMMA ReceiveBootstrapType ==
    ASSUME TypeOK, NEW n \in Node, NEW m \in Node, NEW q \in Queues,
           NEW f \in Bootstrap, ReceiveBootstrap(n, m, f, q)
    PROVE  SnakeTypeOK'
<1>1. PICK h : /\ IF h = n THEN HandleBootstrap(n, f, q) ELSE net' = Send(q, n, h, f)
               /\ dead' = IF h = Panic THEN Die(n, {m}) ELSE dead
    BY DEF ReceiveBootstrap
<1>2. dead' \in [Node -> SUBSET Node]
    BY <1>1, DieType DEF TypeOK
<1>3. net' \in Queues
    BY <1>1, HandleBootstrapType, SendType DEF TypeOK, Frame
<1> QED BY <1>2, <1>3 DEF ReceiveBootstrap, TypeOK, SnakeTypeOK

LEMMA HandleBootstrapAckType ==
    ASSUME TypeOK, NEW n \in Node, NEW q \in Queues, NEW f \in Ack,
           HandleBootstrapAck(n, f, q)
    PROVE  SnakeTypeOK'
<1>0. TypeOK /\ TreeTypeOK /\ SnakeTypeOK
    BY TypeParts
<1>1. CASE net' = q /\ UNCHANGED <<paths, asc, desc, candidate, expired, tasks, dead>>
    BY <1>0, <1>1 DEF SnakeTypeOK
<1>2. CASE ~ (net' = q /\ UNCHANGED <<paths, asc, desc, candidate, expired, tasks, dead>>)
    <2> DEFINE i == [key |-> n, id |-> f.index.id]
               entry(h) == [index |-> i, origin |-> f.by, target |-> f.by, source |-> n,
                            destination |-> h, root |-> f.root, active |-> FALSE]
               g == [kind |-> "setup", root |-> f.root,
                     dest |-> f.coords, to |-> f.by, index |-> i]
               old == {p.index : p \in {e \in paths[n] :
                                    e.source = n /\ e.index.key # f.by}}
    <2>1. PICK h \in TreeHops(n, f.coords, n) :
            /\ net' = Send(q, n, h, g)
            /\ tasks' = Spawn(n, old)
            /\ paths' = [paths EXCEPT ![n] = Without(@, i) \cup {entry(h)}]
            /\ candidate' = [candidate EXCEPT ![n] = [entry(h) EXCEPT !.active = TRUE]]
            /\ expired' = [expired EXCEPT ![n] = @ \ {i}]
            /\ UNCHANGED <<asc, desc, dead>>
        BY <1>2 DEF HandleBootstrapAck
    <2>2. h \in Node
        BY <1>0, <2>1, TreeHopsArePeers DEF TreeTypeOK
    <2>3. i \in Index
        BY DEF Ack, Index
    <2>4. /\ entry(h) \in Path /\ [entry(h) EXCEPT !.active = TRUE] \in Path
          /\ g \in Frame
        BY <2>2, <2>3 DEF Ack, Path, Setup, Frame
    <2>5. old \in SUBSET Index
        BY <1>0 DEF SnakeTypeOK, Path
    <2> HIDE DEF i, entry, g, old
    <2>6. net' \in Queues /\ tasks' \in [Node -> SUBSET Task]
        BY <1>0, <2>1, <2>4, <2>5, SendType, SpawnType
    <2>7. paths' \in [Node -> SUBSET Path]
        BY <1>0, <2>1, <2>4 DEF SnakeTypeOK, Without
    <2>8. /\ candidate' \in [Node -> Path \cup {None}]
          /\ expired' \in [Node -> SUBSET Index]
        BY <1>0, <2>1, <2>4 DEF SnakeTypeOK
    <2> QED BY <1>0, <2>1, <2>6, <2>7, <2>8 DEF SnakeTypeOK
<1> QED BY <1>1, <1>2

LEMMA ReceiveAckType ==
    ASSUME TypeOK, NEW n \in Node, NEW m \in Node, NEW q \in Queues,
           NEW f \in Ack, ReceiveAck(n, m, f, q)
    PROVE  SnakeTypeOK'
<1>1. CASE n \in TreeHops(n, f.dest, m)
    BY <1>1, HandleBootstrapAckType DEF ReceiveAck
<1>2. CASE n \notin TreeHops(n, f.dest, m)
    <2>1. net' \in Queues
        BY <1>2, SendType, TypeParts DEF ReceiveAck, Frame
    <2> QED BY <1>2, <2>1 DEF ReceiveAck, TypeOK, SnakeTypeOK
<1> QED BY <1>1, <1>2

LEMMA InstallType ==
    ASSUME SnakeTypeOK, NEW n \in Node, NEW f \in Setup, NEW source \in Node,
           NEW destination \in Node, NEW active \in BOOLEAN,
           Install(n, f, source, destination, active)
    PROVE  /\ paths' \in [Node -> SUBSET Path]
           /\ expired' \in [Node -> SUBSET Index]
           /\ desc' \in [Node -> Path \cup {None}]
<1> DEFINE entry == [index |-> f.index, origin |-> f.index.key, target |-> f.to,
                     source |-> source, destination |-> destination,
                     root |-> f.root, active |-> active]
<1>1. entry \in Path
    BY DEF Setup, Path, Index
<1>2. /\ paths' = [paths EXCEPT ![n] = @ \cup {entry}]
      /\ expired' = [expired EXCEPT ![n] = @ \ {f.index}]
      /\ desc' = IF active THEN [desc EXCEPT ![n] = entry] ELSE desc
    BY DEF Install
<1> HIDE DEF entry
<1> QED BY <1>1, <1>2 DEF SnakeTypeOK

LEMMA HandleSetupType ==
    ASSUME TypeOK, NEW n \in Node, NEW m \in Node, NEW q \in Queues,
           NEW f \in Setup, NEW h \in Node, HandleSetup(n, m, f, h, q)
    PROVE  SnakeTypeOK'
<1> DEFINE reject == TeardownOf(f.index)
           r == IF f.root = Current(n).root THEN q ELSE Send(q, n, m, reject)
<1>0. TypeOK /\ TreeTypeOK /\ SnakeTypeOK
    BY TypeParts
<1>1. f.index \in Index /\ f \in Frame
    BY DEF Setup, Frame
<1>2. reject \in Frame
    BY <1>1, TeardownType
<1>3. r \in Queues
    BY <1>0, <1>2, SendType
<1>4. [kind |-> "setup_ack", index |-> f.index] \in Frame
    BY <1>1 DEF Frame, SetupAck
<1>5. UNCHANGED <<asc, candidate, dead>>
    BY DEF HandleSetup
<1> HIDE DEF reject, r
<1>6. CASE /\ net' = Send(r, n, m, reject)
           /\ tasks' = Spawn(n, {f.index})
           /\ UNCHANGED <<paths, desc, expired>>
    BY <1>0, <1>1, <1>2, <1>3, <1>5, <1>6, SendType, SpawnType DEF SnakeTypeOK
<1>7. CASE net' = Send(r, n, m, reject) /\ UNCHANGED <<paths, desc, expired, tasks>>
    BY <1>0, <1>2, <1>3, <1>5, <1>7, SendType DEF SnakeTypeOK
<1>8. CASE /\ tasks' = Spawn(n, ReplacedPath(n))
           /\ Install(n, f, m, n, TRUE)
           /\ net' = Send(r, n, m, [kind |-> "setup_ack", index |-> f.index])
    <2>1. ReplacedPath(n) \in SUBSET Index
        BY <1>0 DEF ReplacedPath, SnakeTypeOK, Path
    <2>2. net' \in Queues /\ tasks' \in [Node -> SUBSET Task]
        BY <1>0, <1>3, <1>4, <1>8, <2>1, SendType, SpawnType
    <2>3. /\ paths' \in [Node -> SUBSET Path]
          /\ expired' \in [Node -> SUBSET Index]
          /\ desc' \in [Node -> Path \cup {None}]
        BY <1>0, <1>8, InstallType
    <2> QED BY <1>0, <1>5, <2>2, <2>3 DEF SnakeTypeOK
<1>9. CASE /\ Install(n, f, m, h, FALSE)
           /\ net' = Send(r, n, h, f)
           /\ UNCHANGED tasks
    <2>1. net' \in Queues
        BY <1>0, <1>1, <1>3, <1>9, SendType
    <2>2. /\ paths' \in [Node -> SUBSET Path]
          /\ expired' \in [Node -> SUBSET Index]
          /\ desc' \in [Node -> Path \cup {None}]
        BY <1>0, <1>9, InstallType
    <2> QED BY <1>0, <1>5, <1>9, <2>1, <2>2 DEF SnakeTypeOK
<1> QED BY <1>6, <1>7, <1>8, <1>9 DEF HandleSetup, reject, r

LEMMA ReceiveSetupType ==
    ASSUME TypeOK, NEW n \in Node, NEW m \in Node, NEW q \in Queues,
           NEW f \in Setup, ReceiveSetup(n, m, f, q)
    PROVE  SnakeTypeOK'
<1>1. CASE /\ dead' = Die(n, {m}) /\ net' = q
           /\ UNCHANGED <<paths, asc, desc, candidate, expired, tasks>>
    <2>1. dead' \in [Node -> SUBSET Node]
        BY <1>1, DieType DEF TypeOK
    <2> QED BY <1>1, <2>1 DEF TypeOK, SnakeTypeOK
<1>2. ASSUME NEW h \in TreeHops(n, f.dest, m), HandleSetup(n, m, f, h, q)
      PROVE  SnakeTypeOK'
    <2>1. h \in Node
        BY TreeHopsArePeers, TypeParts DEF TreeTypeOK
    <2> QED BY <1>2, <2>1, HandleSetupType
<1> QED BY <1>1, <1>2 DEF ReceiveSetup

LEMMA AwaitingPaths ==
    ASSUME SnakeTypeOK, NEW n \in Node, NEW m, NEW i
    PROVE  /\ Awaiting(n, m, i) \subseteq paths[n]
           /\ {[p EXCEPT !.active = TRUE] : p \in Awaiting(n, m, i)} \subseteq Path
<1>1. paths[n] \subseteq Path
    BY DEF SnakeTypeOK
<1>2. \A p \in Path : [p EXCEPT !.active = TRUE] \in Path
    BY DEF Path
<1> QED BY <1>1, <1>2 DEF Awaiting

LEMMA HandleSetupAckType ==
    ASSUME TypeOK, NEW n \in Node, NEW m \in Node, NEW q \in Queues,
           NEW f \in SetupAck, HandleSetupAck(n, m, f, q)
    PROVE  SnakeTypeOK'
<1>0. TypeOK /\ TreeTypeOK /\ SnakeTypeOK
    BY TypeParts
<1> DEFINE waiting == Awaiting(n, m, f.index)
           activated == {[p EXCEPT !.active = TRUE] : p \in waiting}
<1>1. activated \subseteq Path
    BY <1>0, AwaitingPaths
<1>2. /\ paths' = [paths EXCEPT ![n] = (@ \ waiting) \cup activated]
      /\ net' = IF waiting = {} THEN q
                ELSE Send(q, n, (CHOOSE p \in waiting : TRUE).source, f)
      /\ asc' \in {asc, [asc EXCEPT ![n] = candidate[n]]}
      /\ candidate' \in {candidate, [candidate EXCEPT ![n] = None]}
      /\ UNCHANGED <<desc, expired, tasks, dead>>
    BY DEF HandleSetupAck
<1> HIDE DEF waiting, activated
<1>3. net' \in Queues
    BY <1>0, <1>2, SendType DEF Frame
<1>4. paths' \in [Node -> SUBSET Path]
    BY <1>0, <1>1, <1>2 DEF SnakeTypeOK
<1>5. asc' \in [Node -> Path \cup {None}]
    BY <1>0, <1>2 DEF SnakeTypeOK
<1>6. candidate' \in [Node -> Path \cup {None}]
    BY <1>0, <1>2 DEF SnakeTypeOK
<1> QED BY <1>0, <1>2, <1>3, <1>4, <1>5, <1>6 DEF SnakeTypeOK

LEMMA ReceiveSetupAckType ==
    ASSUME TypeOK, NEW n \in Node, NEW m \in Node, NEW q \in Queues,
           NEW f \in SetupAck, ReceiveSetupAck(n, m, f, q)
    PROVE  SnakeTypeOK'
<1>1. CASE /\ dead' = Die(n, {m}) /\ net' = q
           /\ UNCHANGED <<paths, asc, desc, candidate, expired, tasks>>
    <2>1. dead' \in [Node -> SUBSET Node]
        BY <1>1, DieType DEF TypeOK
    <2> QED BY <1>1, <2>1 DEF TypeOK, SnakeTypeOK
<1>2. CASE HandleSetupAck(n, m, f, q)
    BY <1>2, HandleSetupAckType
<1> QED BY <1>1, <1>2 DEF ReceiveSetupAck

LEMMA TeardownPathType ==
    ASSUME SnakeTypeOK, NEW n \in Node, NEW m, NEW i, TeardownPath(n, m, i)
    PROVE  /\ paths' \in [Node -> SUBSET Path]
           /\ asc' \in [Node -> Path \cup {None}]
           /\ desc' \in [Node -> Path \cup {None}]
<1>1. Without(paths[n], i) \subseteq paths[n] /\ paths[n] \ TornEntries(n, m, i) \subseteq paths[n]
    BY DEF Without
<1>2. /\ paths' \in {[paths EXCEPT ![n] = Without(@, i)],
                     [paths EXCEPT ![n] = @ \ TornEntries(n, m, i)]}
      /\ asc' \in {asc, [asc EXCEPT ![n] = None]}
      /\ desc' \in {desc, [desc EXCEPT ![n] = None]}
    BY DEF TeardownPath
<1> QED BY <1>1, <1>2 DEF SnakeTypeOK

LEMMA PollPeerType ==
    ASSUME TypeOK, NEW n \in Node, NEW m \in Node, PollPeer(n, m)
    PROVE  SnakeTypeOK'
<1>0. TypeOK /\ TreeTypeOK /\ SnakeTypeOK
    BY TypeParts
<1> DEFINE f == Head(net[m][n])
           q == [net EXCEPT ![m][n] = Tail(@)]
<1>1. net[m][n] \in Seq(Frame) /\ net[m][n] # <<>>
    BY <1>0 DEF SnakeTypeOK, Queues, PollPeer
<1>2. f \in Frame /\ Tail(net[m][n]) \in Seq(Frame)
    BY <1>1
<1>3. q \in Queues
    BY <1>0, <1>2 DEF SnakeTypeOK, Queues
<1>4. \/ f.kind = "bootstrap" /\ ReceiveBootstrap(n, m, f, q)
      \/ f.kind = "ack" /\ ReceiveAck(n, m, f, q)
      \/ f.kind = "setup" /\ ReceiveSetup(n, m, f, q)
      \/ f.kind = "setup_ack" /\ ReceiveSetupAck(n, m, f, q)
      \/ f.kind = "teardown" /\ HandleTeardown(n, m, f, q)
    BY DEF PollPeer
<1> HIDE DEF f, q
<1>5. CASE f.kind = "bootstrap" /\ ReceiveBootstrap(n, m, f, q)
    <2>1. f \in Bootstrap
        BY <1>2, <1>5 DEF Frame, Bootstrap, Ack, Setup, SetupAck, Teardown
    <2> QED BY <1>3, <1>5, <2>1, ReceiveBootstrapType
<1>6. CASE f.kind = "ack" /\ ReceiveAck(n, m, f, q)
    <2>1. f \in Ack
        BY <1>2, <1>6 DEF Frame, Bootstrap, Ack, Setup, SetupAck, Teardown
    <2> QED BY <1>3, <1>6, <2>1, ReceiveAckType
<1>7. CASE f.kind = "setup" /\ ReceiveSetup(n, m, f, q)
    <2>1. f \in Setup
        BY <1>2, <1>7 DEF Frame, Bootstrap, Ack, Setup, SetupAck, Teardown
    <2> QED BY <1>3, <1>7, <2>1, ReceiveSetupType
<1>8. CASE f.kind = "setup_ack" /\ ReceiveSetupAck(n, m, f, q)
    <2>1. f \in SetupAck
        BY <1>2, <1>8 DEF Frame, Bootstrap, Ack, Setup, SetupAck, Teardown
    <2> QED BY <1>3, <1>8, <2>1, ReceiveSetupAckType
<1>9. CASE HandleTeardown(n, m, f, q)
    BY <1>0, <1>3, <1>9, TeardownPathType DEF HandleTeardown, SnakeTypeOK
<1> QED BY <1>4, <1>5, <1>6, <1>7, <1>8, <1>9

-----------------------------------------------------------------------------
(* The tasks and the peerings keep the types.                              *)

LEMMA RunTeardownType ==
    ASSUME TypeOK, NEW n \in Node, NEW t \in tasks[n], RunTeardown(n, t)
    PROVE  SnakeTypeOK'
<1>0. TypeOK /\ TreeTypeOK /\ SnakeTypeOK
    BY TypeParts
<1>1. t \in Task
    BY <1>0 DEF SnakeTypeOK
<1>2. TeardownOf(t.index) \in Frame
    BY <1>1, TeardownType DEF Task
<1>3. \A m \in Node : Append(net[n][m], TeardownOf(t.index)) \in Seq(Frame)
    BY <1>0, <1>2 DEF SnakeTypeOK, Queues
<1>4. net' = [net EXCEPT ![n] = [m \in Node |->
            IF m \in Told(n, t) THEN Append(net[n][m], TeardownOf(t.index)) ELSE net[n][m]]]
    BY DEF RunTeardown
<1>5. net' \in Queues
    BY <1>0, <1>3, <1>4 DEF SnakeTypeOK, Queues
<1>6. tasks' \in [Node -> SUBSET Task]
    BY <1>0 DEF RunTeardown, SnakeTypeOK
<1> QED BY <1>0, <1>5, <1>6, TeardownPathType DEF RunTeardown, SnakeTypeOK

LEMMA MaintainSnekType ==
    ASSUME TypeOK, NEW n \in Node, MaintainSnek(n)
    PROVE  TypeOK'
<1>0. TypeOK /\ TreeTypeOK /\ SnakeTypeOK
    BY TypeParts
<1>1. UNCHANGED <<tree, paths, asc, desc, candidate, expired>>
    BY DEF MaintainSnek
<1>2. TreeTypeOK'
    BY <1>0, <1>1 DEF tree, TreeTypeOK
<1>3. net' \in Queues /\ dead' \in [Node -> SUBSET Node]
    <2>1. CASE UNCHANGED <<net, dead>>
        BY <1>0, <2>1 DEF SnakeTypeOK
    <2>2. CASE BootstrapNow(n, net, {n})
        BY <1>0, <1>2, <2>2, BootstrapNowType DEF SnakeTypeOK
    <2> QED BY <2>1, <2>2 DEF MaintainSnek
<1>4. tasks' \in [Node -> SUBSET Task]
    <2>1. PICK old \in SUBSET Abandoned(n) :
            tasks' = Spawn(n, Indices(old) \cup
                {p.index : p \in {e \in {asc[n], desc[n]} : e # None /\ ~ Valid(n, e)}})
        BY DEF MaintainSnek
    <2>2. Indices(old) \in SUBSET Index
        BY <1>0, IndicesType DEF SnakeTypeOK, Abandoned
    <2>3. {p.index : p \in {e \in {asc[n], desc[n]} : e # None /\ ~ Valid(n, e)}}
            \in SUBSET Index
        BY <1>0 DEF SnakeTypeOK, Path
    <2> QED BY <1>0, <2>1, <2>2, <2>3, SpawnType
<1> QED BY <1>0, <1>1, <1>2, <1>3, <1>4, TypePartsNext DEF SnakeTypeOK

LEMMA ReselectAndBootstrapType ==
    ASSUME TypeOK, NEW n \in Node, ReselectAndBootstrap(n)
    PROVE  TypeOK'
<1>0. TypeOK /\ TreeTypeOK /\ SnakeTypeOK
    BY TypeParts
<1>1. TreeTypeOK'
    BY <1>0, ReselectType DEF ReselectAndBootstrap
<1>2. net' \in Queues /\ dead' \in [Node -> SUBSET Node]
    BY <1>0, <1>1, BootstrapNowType DEF SnakeTypeOK, ReselectAndBootstrap
<1> QED BY <1>0, <1>1, <1>2, TypePartsNext DEF SnakeTypeOK, ReselectAndBootstrap

LEMMA DisconnectPeerType ==
    ASSUME TypeOK, NEW n \in Node, NEW m \in Node, DisconnectPeer(n, m)
    PROVE  TypeOK'
<1>0. TypeOK /\ TreeTypeOK /\ SnakeTypeOK
    BY TypeParts
<1>1. parent' \in [Node -> Node]
    <2>1. Strongest(n, peers[n] \ {m}) \subseteq Node
        BY <1>0 DEF TreeTypeOK, Strongest, Candidates
    <2>2. \/ parent' = parent
          \/ parent' = [parent EXCEPT ![n] = n]
          \/ \E k \in Strongest(n, peers[n] \ {m}) : parent' = [parent EXCEPT ![n] = k]
        BY DEF DisconnectPeer, ReplaceParent
    <2> QED BY <1>0, <2>1, <2>2 DEF TreeTypeOK
<1>2. TreeTypeOK'
    BY <1>0, <1>1 DEF TreeTypeOK, DisconnectPeer
<1>3. [net EXCEPT ![m][n] = <<>>] \in Queues
    BY <1>0 DEF SnakeTypeOK, Queues
<1>4. net' \in Queues /\ dead' \in [Node -> SUBSET Node]
    <2> DEFINE q == [net EXCEPT ![m][n] = <<>>]
    <2>1. BootstrapNow(n, q, {}) \/ (net' = q /\ UNCHANGED dead)
        BY DEF DisconnectPeer
    <2>2. q \in Queues
        BY <1>3
    <2> HIDE DEF q
    <2>3. CASE net' = q /\ UNCHANGED dead
        BY <1>0, <2>2, <2>3 DEF SnakeTypeOK
    <2>4. CASE BootstrapNow(n, q, {})
        BY <1>0, <1>2, <2>2, <2>4, BootstrapNowType DEF SnakeTypeOK
    <2> QED BY <2>1, <2>3, <2>4
<1>5. tasks' \in [Node -> SUBSET Task]
    <2>1. \A p \in Over(n, m) : [from |-> m, index |-> p.index] \in Task
        BY <1>0 DEF SnakeTypeOK, Over, Path, Task
    <2> QED BY <1>0, <2>1 DEF SnakeTypeOK, DisconnectPeer
<1>6. /\ paths' \in [Node -> SUBSET Path]
      /\ asc' \in [Node -> Path \cup {None}]
      /\ desc' \in [Node -> Path \cup {None}]
    BY <1>0, TeardownPathType DEF DisconnectPeer, SnakeTypeOK
<1>7. UNCHANGED <<candidate, expired>>
    BY DEF DisconnectPeer
<1> QED BY <1>0, <1>2, <1>4, <1>5, <1>6, <1>7, TypePartsNext DEF SnakeTypeOK

LEMMA TypeInductive ==
    TypeOK /\ [Next]_vars => TypeOK'
<1> SUFFICES ASSUME TypeOK, [Next]_vars
             PROVE  TypeOK'
    OBVIOUS
<1>0. TypeOK /\ TreeTypeOK /\ SnakeTypeOK
    BY TypeParts
<1>1. CASE TreeStep
    <2>1. TreeTypeOK'
        BY <1>0, <1>1, HearType, TickType DEF TreeStep
    <2>2. SnakeTypeOK'
        BY <1>0, <1>1 DEF TreeStep, snake, SnakeTypeOK
    <2> QED BY <2>1, <2>2, TypePartsNext
<1>2. ASSUME NEW n \in Node, NEW m \in Node, PollPeer(n, m)
      PROVE  TypeOK'
    <2>1. TreeTypeOK'
        BY <1>0, <1>2 DEF PollPeer, tree, TreeTypeOK
    <2>2. SnakeTypeOK'
        BY <1>2, PollPeerType
    <2> QED BY <2>1, <2>2, TypePartsNext
<1>3. ASSUME NEW n \in Node, NEW t \in tasks[n], RunTeardown(n, t)
      PROVE  TypeOK'
    <2>1. TreeTypeOK'
        BY <1>0, <1>3 DEF RunTeardown, tree, TreeTypeOK
    <2>2. SnakeTypeOK'
        BY <1>3, RunTeardownType
    <2> QED BY <2>1, <2>2, TypePartsNext
<1>4. ASSUME NEW n \in Node, NEW i \in Index, PathExpires(n, i)
      PROVE  TypeOK'
    <2>1. TreeTypeOK'
        BY <1>0, <1>4 DEF PathExpires, tree, TreeTypeOK
    <2>2. SnakeTypeOK'
        BY <1>0, <1>4 DEF PathExpires, SnakeTypeOK
    <2> QED BY <2>1, <2>2, TypePartsNext
<1>5. CASE UNCHANGED vars
    <2>1. TreeTypeOK'
        BY <1>0, <1>5 DEF vars, tree, TreeTypeOK
    <2>2. SnakeTypeOK'
        BY <1>0, <1>5 DEF vars, snake, SnakeTypeOK
    <2> QED BY <2>1, <2>2, TypePartsNext
<1> QED BY <1>1, <1>2, <1>3, <1>4, <1>5, ReselectAndBootstrapType,
           MaintainSnekType, DisconnectPeerType DEF Next

(* Tables, tasks and frames stay within their types, whatever breaks,      *)
(* expires or crosses.                                                     *)
THEOREM TypeCorrect == Spec => []TypeOK
<1>1. Init => TypeOK
    <2>1. ASSUME Init PROVE TreeTypeOK
        BY <2>1, TreeInitType DEF Init
    <2>2. ASSUME Init PROVE SnakeTypeOK
        BY <2>2 DEF Init, SnakeTypeOK, Queues
    <2> QED BY <2>1, <2>2, TypeParts
<1> QED BY <1>1, TypeInductive, PTL DEF Spec

-----------------------------------------------------------------------------
(* Paths and peerings.  A handler touches nothing but the table of its     *)
(* router and adds tasks: the invariant holds after it if what is in the   *)
(* table was there before or leads over peerings that are up.              *)

LEMMA PathsKept ==
    ASSUME PathsUsePeers, UNCHANGED peers,
           \A k \in Node : tasks[k] \subseteq tasks'[k],
           \A k \in Node : asc'[k] \in {None, asc[k]} \/ asc'[k].destination \in peers[k],
           \A k \in Node : \A p \in paths'[k] :
                \/ {p.source, p.destination} \subseteq peers[k] \cup {k}
                \/ \E e \in paths[k] : /\ e.index = p.index
                                       /\ e.source = p.source
                                       /\ e.destination = p.destination
    PROVE  PathsUsePeers'
<1>1. ASSUME NEW k \in Node, asc'[k] # None
      PROVE  asc'[k].destination \in peers'[k]
    BY <1>1 DEF PathsUsePeers
<1>2. ASSUME NEW k \in Node, NEW p \in paths'[k],
             NEW m \in {p.source, p.destination} \ (peers'[k] \cup {k})
      PROVE  \E t \in tasks'[k] : t.index = p.index /\ t.from \in {m, k}
    <2>1. PICK e \in paths[k] : /\ e.index = p.index
                                /\ e.source = p.source
                                /\ e.destination = p.destination
        BY <1>2
    <2>2. m \in {e.source, e.destination} \ (peers[k] \cup {k})
        BY <1>2, <2>1
    <2>3. PICK t \in tasks[k] : t.index = e.index /\ t.from \in {m, k}
        BY <2>2 DEF PathsUsePeers
    <2> QED BY <2>1, <2>3
<1> QED BY <1>1, <1>2 DEF PathsUsePeers

LEMMA SpawnGrows ==
    ASSUME TypeOK, NEW n \in Node, NEW I, tasks' = Spawn(n, I)
    PROVE  \A k \in Node : tasks[k] \subseteq tasks'[k]
BY DEF TypeOK, Spawn

LEMMA TeardownShrinks ==
    ASSUME TypeOK, NEW n \in Node, NEW m, NEW i, TeardownPath(n, m, i)
    PROVE  \A k \in Node : paths'[k] \subseteq paths[k] /\ asc'[k] \in {None, asc[k]}
<1>1. Without(paths[n], i) \subseteq paths[n] /\ paths[n] \ TornEntries(n, m, i) \subseteq paths[n]
    BY DEF Without
<1>2. /\ paths' \in {[paths EXCEPT ![n] = Without(@, i)],
                     [paths EXCEPT ![n] = @ \ TornEntries(n, m, i)]}
      /\ asc' \in {asc, [asc EXCEPT ![n] = None]}
    BY DEF TeardownPath
<1>3. \A k \in Node : paths'[k] \subseteq paths[k]
    <2>1. PICK S : S \subseteq paths[n] /\ paths' = [paths EXCEPT ![n] = S]
        BY <1>1, <1>2
    <2> QED BY <2>1 DEF TypeOK
<1>4. \A k \in Node : asc'[k] \in {None, asc[k]}
    BY <1>2 DEF TypeOK
<1> QED BY <1>3, <1>4

LEMMA AckUsesPeers ==
    ASSUME TypeOK, PathsUsePeers, UNCHANGED peers, NEW n \in Node, NEW q, NEW f,
           HandleBootstrapAck(n, f, q)
    PROVE  PathsUsePeers'
<1>1. CASE UNCHANGED <<paths, asc, tasks>>
    BY <1>1, PathsKept
<1>2. CASE ~ UNCHANGED <<paths, asc, tasks>>
    <2> DEFINE i == [key |-> n, id |-> f.index.id]
               entry(h) == [index |-> i, origin |-> f.by, target |-> f.by, source |-> n,
                            destination |-> h, root |-> f.root, active |-> FALSE]
    <2>1. PICK h \in TreeHops(n, f.coords, n) :
            /\ tasks' = Spawn(n, {p.index : p \in {e \in paths[n] :
                                    e.source = n /\ e.index.key # f.by}})
            /\ paths' = [paths EXCEPT ![n] = Without(@, i) \cup {entry(h)}]
            /\ UNCHANGED asc
        BY <1>2 DEF HandleBootstrapAck
    <2>2. h \in peers[n] \cup {n}
        BY TreeHopsArePeers, TypeParts
    <2>3. {entry(h).source, entry(h).destination} \subseteq peers[n] \cup {n}
        BY <2>2
    <2> HIDE DEF entry
    <2>4. \A k \in Node : \A p \in paths'[k] : p \in paths[k] \/ (k = n /\ p = entry(h))
        BY <2>1 DEF TypeOK, Without
    <2>5. \A k \in Node : tasks[k] \subseteq tasks'[k]
        BY <2>1, SpawnGrows
    <2> QED BY <2>1, <2>3, <2>4, <2>5, PathsKept
<1> QED BY <1>1, <1>2

LEMMA InstallUsesPeers ==
    ASSUME TypeOK, NEW n \in Node, NEW f, NEW source \in peers[n] \cup {n},
           NEW destination \in peers[n] \cup {n}, NEW active,
           Install(n, f, source, destination, active)
    PROVE  \A k \in Node : \A p \in paths'[k] :
               p \in paths[k] \/ {p.source, p.destination} \subseteq peers[k] \cup {k}
<1> DEFINE entry == [index |-> f.index, origin |-> f.index.key, target |-> f.to,
                     source |-> source, destination |-> destination,
                     root |-> f.root, active |-> active]
<1>1. {entry.source, entry.destination} \subseteq peers[n] \cup {n}
    OBVIOUS
<1>2. paths' = [paths EXCEPT ![n] = @ \cup {entry}]
    BY DEF Install
<1> HIDE DEF entry
<1> QED BY <1>1, <1>2 DEF TypeOK

LEMMA SetupUsesPeers ==
    ASSUME TypeOK, PathsUsePeers, UNCHANGED peers, NEW n \in Node,
           NEW m \in peers[n], NEW q, NEW f, NEW h \in TreeHops(n, f.dest, m),
           HandleSetup(n, m, f, h, q)
    PROVE  PathsUsePeers'
<1>1. h \in peers[n] \cup {n}
    BY TreeHopsArePeers, TypeParts
<1>2. UNCHANGED asc
    BY DEF HandleSetup
<1>3. \A k \in Node : tasks[k] \subseteq tasks'[k]
    <2>1. \/ UNCHANGED tasks
          \/ tasks' = Spawn(n, {f.index})
          \/ tasks' = Spawn(n, ReplacedPath(n))
        BY DEF HandleSetup
    <2> QED BY <2>1, SpawnGrows
<1>4. \A k \in Node : \A p \in paths'[k] :
          p \in paths[k] \/ {p.source, p.destination} \subseteq peers[k] \cup {k}
    <2>1. \/ UNCHANGED paths
          \/ Install(n, f, m, n, TRUE)
          \/ Install(n, f, m, h, FALSE)
        BY DEF HandleSetup
    <2>2. CASE Install(n, f, m, n, TRUE)
        BY <2>2, InstallUsesPeers
    <2>3. CASE Install(n, f, m, h, FALSE)
        BY <1>1, <2>3, InstallUsesPeers
    <2> QED BY <2>1, <2>2, <2>3
<1> QED BY <1>2, <1>3, <1>4, PathsKept

LEMMA SetupAckUsesPeers ==
    ASSUME TypeOK, PathsUsePeers, UNCHANGED peers, NEW n \in Node,
           NEW m \in peers[n], NEW q, NEW f, HandleSetupAck(n, m, f, q)
    PROVE  PathsUsePeers'
<1> DEFINE waiting == Awaiting(n, m, f.index)
           activated == {[p EXCEPT !.active = TRUE] : p \in waiting}
<1>1. /\ paths' = [paths EXCEPT ![n] = (@ \ waiting) \cup activated]
      /\ UNCHANGED tasks
      /\ \/ UNCHANGED asc
         \/ \E p \in activated : p = candidate[n] /\ asc' = [asc EXCEPT ![n] = p]
    BY DEF HandleSetupAck
<1>2. waiting \subseteq paths[n] /\ waiting \subseteq Path
    BY AwaitingPaths, TypeParts DEF SnakeTypeOK
<1>3. \A p \in waiting : /\ [p EXCEPT !.active = TRUE].index = p.index
                         /\ [p EXCEPT !.active = TRUE].source = p.source
                         /\ [p EXCEPT !.active = TRUE].destination = p.destination
                         /\ p.destination = m
    BY <1>2 DEF Awaiting, Path
<1>4. \A p \in activated : p.destination = m /\
        \E e \in paths[n] : /\ e.index = p.index
                            /\ e.source = p.source
                            /\ e.destination = p.destination
    BY <1>2, <1>3
<1> HIDE DEF waiting, activated
<1>5. \A k \in Node : \A p \in paths'[k] :
        \E e \in paths[k] : /\ e.index = p.index
                            /\ e.source = p.source
                            /\ e.destination = p.destination
    BY <1>1, <1>4 DEF TypeOK
<1>6. \A k \in Node : asc'[k] \in {None, asc[k]} \/ asc'[k].destination \in peers[k]
    BY <1>1, <1>4 DEF TypeOK
<1> QED BY <1>1, <1>5, <1>6, PathsKept

LEMMA PollPeerUsesPeers ==
    ASSUME TypeOK, PathsUsePeers, NEW n \in Node, NEW m \in Node, PollPeer(n, m)
    PROVE  PathsUsePeers'
<1> DEFINE f == Head(net[m][n])
           q == [net EXCEPT ![m][n] = Tail(@)]
<1>1. m \in peers[n] /\ UNCHANGED peers
    BY DEF PollPeer, tree
<1>2. \/ ReceiveBootstrap(n, m, f, q)
      \/ ReceiveAck(n, m, f, q)
      \/ ReceiveSetup(n, m, f, q)
      \/ ReceiveSetupAck(n, m, f, q)
      \/ HandleTeardown(n, m, f, q)
    BY DEF PollPeer
<1> HIDE DEF f, q
<1>3. CASE UNCHANGED <<paths, asc, tasks>>
    BY <1>1, <1>3, PathsKept
<1>4. CASE HandleBootstrapAck(n, f, q)
    BY <1>1, <1>4, AckUsesPeers
<1>5. ASSUME NEW h \in TreeHops(n, f.dest, m), HandleSetup(n, m, f, h, q)
      PROVE  PathsUsePeers'
    BY <1>1, <1>5, SetupUsesPeers
<1>6. CASE HandleSetupAck(n, m, f, q)
    BY <1>1, <1>6, SetupAckUsesPeers
<1>7. CASE HandleTeardown(n, m, f, q)
    <2>1. TeardownPath(n, m, f.index) /\ UNCHANGED tasks
        BY <1>7 DEF HandleTeardown
    <2> QED BY <1>1, <2>1, TeardownShrinks, PathsKept
<1> QED BY <1>2, <1>3, <1>4, <1>5, <1>6, <1>7
           DEF ReceiveBootstrap, ReceiveAck, ReceiveSetup, ReceiveSetupAck

(* The task that has run takes with it the entries it was there for.       *)
LEMMA RunTeardownUsesPeers ==
    ASSUME TypeOK, PathsUsePeers, NEW n \in Node, NEW t \in tasks[n], RunTeardown(n, t)
    PROVE  PathsUsePeers'
<1>1. /\ UNCHANGED peers
      /\ TeardownPath(n, t.from, t.index)
      /\ tasks' = [tasks EXCEPT ![n] = @ \ {t}]
    BY DEF RunTeardown, tree
<1>2. \A k \in Node : paths'[k] \subseteq paths[k] /\ asc'[k] \in {None, asc[k]}
    BY <1>1, TeardownShrinks
<1>3. ASSUME NEW k \in Node, NEW p \in paths'[k],
             NEW m \in {p.source, p.destination} \ (peers'[k] \cup {k})
      PROVE  \E u \in tasks'[k] : u.index = p.index /\ u.from \in {m, k}
    <2>1. p \in paths[k] /\ m \in {p.source, p.destination} \ (peers[k] \cup {k})
        BY <1>1, <1>2, <1>3
    <2>2. PICK u \in tasks[k] : u.index = p.index /\ u.from \in {m, k}
        BY <2>1 DEF PathsUsePeers
    <2>3. CASE k # n \/ u # t
        BY <1>1, <2>2, <2>3 DEF TypeOK
    <2>4. CASE k = n /\ u = t
        <3>1. p \in TornEntries(n, t.from, t.index) /\ p.index = t.index
            BY <2>1, <2>2, <2>4 DEF TornEntries
        <3>2. p \notin paths'[n]
            BY <1>1, <3>1 DEF TeardownPath, Without, TypeOK
        <3> QED BY <2>4, <3>2
    <2> QED BY <2>3, <2>4
<1>4. ASSUME NEW k \in Node, asc'[k] # None
      PROVE  asc'[k].destination \in peers'[k]
    BY <1>1, <1>2, <1>4 DEF PathsUsePeers
<1> QED BY <1>3, <1>4 DEF PathsUsePeers

LEMMA DisconnectUsesPeers ==
    ASSUME TypeOK, PathsUsePeers, NEW n \in Node, NEW m \in Node, DisconnectPeer(n, m)
    PROVE  PathsUsePeers'
<1>1. /\ tasks' = [tasks EXCEPT ![n] = @ \cup
            {[from |-> m, index |-> p.index] : p \in Over(n, m)}]
      /\ peers' = [peers EXCEPT ![n] = @ \ {m}]
      /\ IF LosesAscending(n, m) THEN TeardownPath(n, n, asc[n].index)
         ELSE UNCHANGED <<paths, asc, desc>>
    BY DEF DisconnectPeer
<1>2. \A k \in Node : paths'[k] \subseteq paths[k] /\ asc'[k] \in {None, asc[k]}
    BY <1>1, TeardownShrinks
<1>3. ASSUME NEW k \in Node, NEW p \in paths'[k],
             NEW x \in {p.source, p.destination} \ (peers'[k] \cup {k})
      PROVE  \E u \in tasks'[k] : u.index = p.index /\ u.from \in {x, k}
    <2>1. p \in paths[k] /\ tasks[k] \subseteq tasks'[k]
        BY <1>1, <1>2 DEF TypeOK
    <2>2. CASE x \notin peers[k]
        BY <1>3, <2>1, <2>2 DEF PathsUsePeers
    <2>3. CASE x \in peers[k]
        <3>1. k = n /\ x = m
            BY <1>1, <1>3, <2>3 DEF TypeOK, TreeTypeOK
        <3>2. p \in Over(n, m)
            BY <1>3, <2>1, <3>1 DEF Over
        <3>3. [from |-> m, index |-> p.index] \in tasks'[n]
            BY <1>1, <3>2 DEF TypeOK
        <3> QED BY <3>1, <3>3
    <2> QED BY <2>2, <2>3
<1>4. ASSUME NEW k \in Node, asc'[k] # None
      PROVE  asc'[k].destination \in peers'[k]
    <2>1. asc'[k] = asc[k] /\ asc[k].destination \in peers[k]
        BY <1>2, <1>4 DEF PathsUsePeers
    <2>2. CASE k # n
        BY <1>1, <2>1, <2>2 DEF TypeOK, TreeTypeOK
    <2>3. CASE k = n
        <3>1. CASE LosesAscending(n, m)
            <4>1. TearsAscending(n, n, asc[n].index)
                BY <3>1 DEF LosesAscending, TearsAscending
            <4>2. asc'[n] = None
                BY <1>1, <3>1, <4>1 DEF TeardownPath, TypeOK
            <4> QED BY <1>4, <2>3, <4>2
        <3>2. CASE ~ LosesAscending(n, m)
            BY <1>1, <1>4, <2>1, <2>3, <3>2 DEF LosesAscending, TypeOK, TreeTypeOK
        <3> QED BY <3>1, <3>2
    <2> QED BY <2>2, <2>3
<1> QED BY <1>3, <1>4 DEF PathsUsePeers

LEMMA PathsInductive ==
    TypeOK /\ PathsUsePeers /\ [Next]_vars => PathsUsePeers'
<1> SUFFICES ASSUME TypeOK, PathsUsePeers, [Next]_vars
             PROVE  PathsUsePeers'
    OBVIOUS
<1>1. CASE UNCHANGED <<peers, paths, asc, tasks>>
    BY <1>1, PathsKept
<1>2. CASE TreeStep
    BY <1>1, <1>2 DEF TreeStep, Hear, Tick, snake
<1>3. ASSUME NEW n \in Node, ReselectAndBootstrap(n)
      PROVE  PathsUsePeers'
    BY <1>1, <1>3 DEF ReselectAndBootstrap, Reselect
<1>4. ASSUME NEW n \in Node, MaintainSnek(n)
      PROVE  PathsUsePeers'
    <2>1. UNCHANGED <<peers, paths, asc>>
        BY <1>4 DEF MaintainSnek, tree
    <2>2. \E I : tasks' = Spawn(n, I)
        BY <1>4 DEF MaintainSnek
    <2> QED BY <2>1, <2>2, SpawnGrows, PathsKept
<1>5. ASSUME NEW n \in Node, NEW i \in Index, PathExpires(n, i)
      PROVE  PathsUsePeers'
    BY <1>1, <1>5 DEF PathExpires, tree
<1>6. CASE UNCHANGED vars
    BY <1>1, <1>6 DEF vars, tree, snake
<1> QED BY <1>2, <1>3, <1>4, <1>5, <1>6, PollPeerUsesPeers,
           RunTeardownUsesPeers, DisconnectUsesPeers DEF Next

(* A path over a lost peering has a task that will tear it down for as     *)
(* long as its entry is there, and is never the ascending path: whatever   *)
(* disconnect_peer, setups, acknowledgements and the teardown tasks of     *)
(* the router do in between.                                               *)
THEOREM PathsFollowPeers == Spec => []PathsUsePeers
<1>1. Init => PathsUsePeers
    BY DEF Init, PathsUsePeers
<1> QED BY <1>1, PathsInductive, TypeCorrect, PTL DEF Spec

-----------------------------------------------------------------------------
(* Ids of paths.  A bootstrap, and the acknowledgement that answers it,    *)
(* are one frame at a time; an id is no longer about in such a frame when  *)
(* a router keeps a path under it.                                         *)

Asks(f) == f.kind \in {"bootstrap", "ack"}

Avoids(q, id) ==
    \A a, b \in Node : \A j \in 1 .. Len(q[a][b]) :
        Asks(q[a][b][j]) => q[a][b][j].index.id # id

Same(q, a, b, j, c, d, k) ==
    /\ Asks(q[a][b][j]) /\ Asks(q[c][d][k])
    /\ q[a][b][j].index.id = q[c][d][k].index.id

Once(q) ==
    \A a, b, c, d \in Node :
        \A j \in 1 .. Len(q[a][b]), k \in 1 .. Len(q[c][d]) :
            Same(q, a, b, j, c, d, k) => a = c /\ b = d /\ j = k

(* The frame at j comes from q, where it was s places further back.        *)
Carried(r, q, s, a, b, j) ==
    /\ j + s[a][b] \in 1 .. Len(q[a][b])
    /\ q[a][b][j + s[a][b]] = r[a][b][j]

(* The frame at j is the last from n to h, with an id that was not about.  *)
Added(r, q, n, h, x, a, b, j) ==
    /\ a = n /\ b = h /\ j = Len(r[n][h])
    /\ r[a][b][j].index.id = x /\ Avoids(q, x)

CarriedOrAdded(r, q, s, n, h, x) ==
    /\ \A a, b \in Node : s[a][b] \in Nat
    /\ \A a, b \in Node : \A j \in 1 .. Len(r[a][b]) : Asks(r[a][b][j]) =>
           Carried(r, q, s, a, b, j) \/ Added(r, q, n, h, x, a, b, j)

CarriedOrOther(r, q, s, id) ==
    \A a, b \in Node : \A j \in 1 .. Len(r[a][b]) : Asks(r[a][b][j]) =>
        Carried(r, q, s, a, b, j) \/ r[a][b][j].index.id # id

LEMMA CarriedOnce ==
    ASSUME NEW q, NEW r, NEW s, NEW n, NEW h, NEW x, Once(q),
           CarriedOrAdded(r, q, s, n, h, x)
    PROVE  Once(r)
<1> SUFFICES ASSUME NEW a \in Node, NEW b \in Node, NEW c \in Node, NEW d \in Node,
                    NEW j \in 1 .. Len(r[a][b]), NEW k \in 1 .. Len(r[c][d]),
                    Same(r, a, b, j, c, d, k)
             PROVE  a = c /\ b = d /\ j = k
    BY DEF Once
<1>1. Asks(r[a][b][j]) /\ Asks(r[c][d][k]) /\ r[a][b][j].index.id = r[c][d][k].index.id
    BY DEF Same
<1>2. Carried(r, q, s, a, b, j) \/ Added(r, q, n, h, x, a, b, j)
    BY <1>1 DEF CarriedOrAdded
<1>3. Carried(r, q, s, c, d, k) \/ Added(r, q, n, h, x, c, d, k)
    BY <1>1 DEF CarriedOrAdded
<1>4. CASE Carried(r, q, s, a, b, j) /\ Carried(r, q, s, c, d, k)
    <2>1. j + s[a][b] \in 1 .. Len(q[a][b]) /\ k + s[c][d] \in 1 .. Len(q[c][d])
        BY <1>4 DEF Carried
    <2>2. Same(q, a, b, j + s[a][b], c, d, k + s[c][d])
        BY <1>1, <1>4 DEF Carried, Same
    <2>3. a = c /\ b = d /\ j + s[a][b] = k + s[c][d]
        BY <2>1, <2>2 DEF Once
    <2>4. s[a][b] \in Nat
        BY DEF CarriedOrAdded
    <2> QED BY <2>3, <2>4
<1>5. CASE Added(r, q, n, h, x, a, b, j) /\ Added(r, q, n, h, x, c, d, k)
    BY <1>5 DEF Added
<1>6. CASE Carried(r, q, s, a, b, j) /\ Added(r, q, n, h, x, c, d, k)
    <2>1. q[a][b][j + s[a][b]].index.id = x /\ Asks(q[a][b][j + s[a][b]])
        BY <1>1, <1>6 DEF Carried, Added
    <2>2. j + s[a][b] \in 1 .. Len(q[a][b]) /\ Avoids(q, x)
        BY <1>6 DEF Carried, Added
    <2> QED BY <2>1, <2>2 DEF Avoids
<1>7. CASE Added(r, q, n, h, x, a, b, j) /\ Carried(r, q, s, c, d, k)
    <2>1. q[c][d][k + s[c][d]].index.id = x /\ Asks(q[c][d][k + s[c][d]])
        BY <1>1, <1>7 DEF Carried, Added
    <2>2. k + s[c][d] \in 1 .. Len(q[c][d]) /\ Avoids(q, x)
        BY <1>7 DEF Carried, Added
    <2> QED BY <2>1, <2>2 DEF Avoids
<1> QED BY <1>2, <1>3, <1>4, <1>5, <1>6, <1>7

LEMMA CarriedAvoids ==
    ASSUME NEW q, NEW r, NEW s, NEW id, Avoids(q, id),
           CarriedOrOther(r, q, s, id)
    PROVE  Avoids(r, id)
<1> SUFFICES ASSUME NEW a \in Node, NEW b \in Node, NEW j \in 1 .. Len(r[a][b]),
                    Asks(r[a][b][j]), r[a][b][j].index.id = id
             PROVE  FALSE
    BY DEF Avoids
<1>1. Carried(r, q, s, a, b, j)
    BY DEF CarriedOrOther
<1>2. j + s[a][b] \in 1 .. Len(q[a][b]) /\ q[a][b][j + s[a][b]] = r[a][b][j]
    BY <1>1 DEF Carried
<1> QED BY <1>2 DEF Avoids

Zeros == [a \in Node |-> [b \in Node |-> 0]]

(* A frame is sent.                                                        *)
LEMMA AppendOnce ==
    ASSUME NEW q \in Queues, Once(q), NEW n \in Node, NEW h \in Node, NEW f \in Frame,
           Asks(f) => Avoids(q, f.index.id)
    PROVE  LET r == [q EXCEPT ![n][h] = Append(@, f)]
           IN  /\ Once(r)
               /\ \A id : Avoids(q, id) /\ (Asks(f) => f.index.id # id) => Avoids(r, id)
<1> DEFINE r == [q EXCEPT ![n][h] = Append(@, f)]
           x == f.index.id
<1>1. q[n][h] \in Seq(Frame)
    BY DEF Queues
<1>2. r[n][h] = Append(q[n][h], f) /\ Len(r[n][h]) = Len(q[n][h]) + 1
    BY <1>1 DEF Queues
<1>3. \A a, b \in Node : r[a][b] # q[a][b] => a = n /\ b = h
    BY DEF Queues
<1>4. ASSUME NEW a \in Node, NEW b \in Node, NEW j \in 1 .. Len(r[a][b])
      PROVE  \/ Carried(r, q, Zeros, a, b, j)
             \/ a = n /\ b = h /\ j = Len(r[n][h]) /\ r[a][b][j] = f
    <2>1. Zeros[a][b] = 0
        BY DEF Zeros
    <2>2. q[a][b] \in Seq(Frame) /\ Len(q[a][b]) \in Nat
        BY DEF Queues
    <2>3. CASE r[a][b] = q[a][b]
        <3> HIDE DEF r
        <3> QED BY <2>1, <2>2, <2>3 DEF Carried
    <2>4. CASE r[a][b] # q[a][b]
        <3>1. a = n /\ b = h
            BY <1>3, <2>4
        <3>2. CASE j = Len(q[n][h]) + 1
            BY <1>1, <1>2, <3>1, <3>2
        <3>3. CASE j # Len(q[n][h]) + 1
            <4>1. j \in 1 .. Len(q[n][h]) /\ r[n][h][j] = q[n][h][j]
                BY <1>1, <1>2, <3>1, <3>3
            <4> HIDE DEF r
            <4> QED BY <2>1, <2>2, <3>1, <4>1 DEF Carried
        <3> QED BY <3>2, <3>3
    <2> QED BY <2>3, <2>4
<1> HIDE DEF r
<1>5. \A a, b \in Node : Zeros[a][b] \in Nat
    BY DEF Zeros
<1>6. Once(r)
    <2>1. CarriedOrAdded(r, q, Zeros, n, h, x)
        BY <1>4, <1>5 DEF CarriedOrAdded, Added
    <2> QED BY <2>1, CarriedOnce
<1>7. ASSUME NEW id, Avoids(q, id), Asks(f) => f.index.id # id
      PROVE  Avoids(r, id)
    <2>1. CarriedOrOther(r, q, Zeros, id)
        BY <1>4, <1>7 DEF CarriedOrOther
    <2> QED BY <1>7, <2>1, CarriedAvoids
<1> QED BY <1>6, <1>7 DEF r

(* Steps of the network that put no id about that was about before.        *)
Harmless(q, r) ==
    Once(r) /\ \A id : Avoids(q, id) => Avoids(r, id)

LEMMA SendOnce ==
    ASSUME TreeTypeOK, NEW q \in Queues, Once(q), NEW n \in Node, NEW h, NEW f \in Frame,
           Asks(f) => Avoids(q, f.index.id)
    PROVE  /\ Once(Send(q, n, h, f))
           /\ \A id : Avoids(q, id) /\ (Asks(f) => f.index.id # id)
                        => Avoids(Send(q, n, h, f), id)
<1>1. CASE Connected(n, h)
    <2>1. h \in Node
        BY <1>1 DEF Connected, TreeTypeOK
    <2> DEFINE r == [q EXCEPT ![n][h] = Append(@, f)]
    <2>2. Send(q, n, h, f) = r
        BY <1>1 DEF Send
    <2>3. Once(r) /\ \A id : Avoids(q, id) /\ (Asks(f) => f.index.id # id) => Avoids(r, id)
        BY <2>1, AppendOnce
    <2> HIDE DEF r
    <2> QED BY <2>2, <2>3
<1>2. CASE ~ Connected(n, h)
    BY <1>2 DEF Send
<1> QED BY <1>1, <1>2

LEMMA AnswerOnce ==
    ASSUME TreeTypeOK, NEW q \in Queues, Once(q), NEW n \in Node, NEW h, NEW f \in Frame,
           ~ Asks(f)
    PROVE  Harmless(q, Send(q, n, h, f))
BY SendOnce DEF Harmless

(* The first frame from m is taken by n: its id is no longer asked for.    *)
LEMMA TailOnce ==
    ASSUME NEW q \in Queues, Once(q), NEW n \in Node, NEW m \in Node, q[m][n] # <<>>,
           NEW f, f = Head(q[m][n]),
           NEW r, r = [q EXCEPT ![m][n] = Tail(@)]
    PROVE  /\ Harmless(q, r)
           /\ Asks(f) => Avoids(r, f.index.id) /\ \A id : Avoids(q, id) => id # f.index.id
<1> DEFINE shift == [a \in Node |-> [b \in Node |-> IF a = m /\ b = n THEN 1 ELSE 0]]
           l == q[m][n]
<1>1. l \in Seq(Frame) /\ Len(l) \in Nat /\ Len(l) # 0 /\ f = l[1]
    BY DEF Queues
<1>2. r[m][n] = Tail(l) /\ Len(r[m][n]) = Len(l) - 1
      /\ \A j \in 1 .. Len(l) - 1 : r[m][n][j] = l[j + 1]
    BY <1>1 DEF Queues
<1>3. \A a, b \in Node : r[a][b] # q[a][b] => a = m /\ b = n
    BY DEF Queues
<1>4. ASSUME NEW a \in Node, NEW b \in Node, NEW j \in 1 .. Len(r[a][b])
      PROVE  Carried(r, q, shift, a, b, j)
    <2>1. q[a][b] \in Seq(Frame) /\ Len(q[a][b]) \in Nat
        BY DEF Queues
    <2>2. CASE a = m /\ b = n
        <3>1. shift[m][n] = 1
            OBVIOUS
        <3> HIDE DEF shift
        <3>2. j \in 1 .. Len(l) - 1
            BY <1>2, <2>2
        <3> QED BY <1>1, <1>2, <2>2, <3>1, <3>2 DEF Carried
    <2>3. CASE ~ (a = m /\ b = n)
        <3>1. shift[a][b] = 0 /\ r[a][b] = q[a][b]
            BY <1>3, <2>3
        <3> HIDE DEF shift
        <3>2. j \in 1 .. Len(q[a][b]) /\ j + shift[a][b] = j
            BY <2>1, <3>1
        <3>3. j + shift[a][b] \in 1 .. Len(q[a][b]) /\ q[a][b][j + shift[a][b]] = r[a][b][j]
            BY <3>1, <3>2, Zenon
        <3> QED BY <3>3 DEF Carried
    <2> QED BY <2>2, <2>3
<1>5. \A a, b \in Node : shift[a][b] \in Nat
    OBVIOUS
<1> HIDE DEF shift
<1>6. Once(r)
    <2>1. CarriedOrAdded(r, q, shift, n, m, 0)
        BY <1>4, <1>5 DEF CarriedOrAdded
    <2> QED BY <2>1, CarriedOnce
<1>7. ASSUME NEW id, Avoids(q, id)
      PROVE  Avoids(r, id)
    <2>1. CarriedOrOther(r, q, shift, id)
        BY <1>4 DEF CarriedOrOther
    <2> QED BY <1>7, <2>1, CarriedAvoids
<1>8. ASSUME Asks(f)
      PROVE  Avoids(r, f.index.id)
    <2> SUFFICES ASSUME NEW a \in Node, NEW b \in Node, NEW j \in 1 .. Len(r[a][b]),
                        Asks(r[a][b][j]), r[a][b][j].index.id = f.index.id
                 PROVE  FALSE
        BY DEF Avoids
    <2> DEFINE k == j + shift[a][b]
    <2>1. k \in 1 .. Len(q[a][b]) /\ q[a][b][k] = r[a][b][j]
        BY <1>4 DEF Carried
    <2>2. 1 \in 1 .. Len(q[m][n]) /\ q[m][n][1] = f
        BY <1>1
    <2> HIDE DEF k
    <2>3. Same(q, a, b, k, m, n, 1)
        BY <1>8, <2>1, <2>2 DEF Same
    <2>4. a = m /\ b = n /\ k = 1
        BY <2>1, <2>2, <2>3 DEF Once
    <2>5. shift[m][n] = 1
        BY DEF shift
    <2>6. j + 1 = 1 /\ j \in 1 .. Len(l) - 1
        BY <1>2, <2>4, <2>5 DEF k
    <2> QED BY <1>1, <2>6
<1>9. ASSUME Asks(f), NEW id, Avoids(q, id)
      PROVE  id # f.index.id
    BY <1>1, <1>9 DEF Avoids
<1> QED BY <1>6, <1>7, <1>8, <1>9 DEF Harmless

(* What was not read is lost.                                              *)
LEMMA EmptyOnce ==
    ASSUME NEW q \in Queues, Once(q), NEW n \in Node, NEW m \in Node,
           NEW r, r = [q EXCEPT ![m][n] = <<>>]
    PROVE  Harmless(q, r)
<1>1. ASSUME NEW a \in Node, NEW b \in Node, NEW j \in 1 .. Len(r[a][b])
      PROVE  Carried(r, q, Zeros, a, b, j)
    <2>1. Zeros[a][b] = 0 /\ Len(q[a][b]) \in Nat
        BY DEF Zeros, Queues
    <2>2. r[a][b] = q[a][b]
        BY DEF Queues
    <2> QED BY <2>1, <2>2 DEF Carried
<1>2. \A a, b \in Node : Zeros[a][b] \in Nat
    BY DEF Zeros
<1>3. Once(r)
    <2>1. CarriedOrAdded(r, q, Zeros, n, m, 0)
        BY <1>1, <1>2 DEF CarriedOrAdded
    <2> QED BY <2>1, CarriedOnce
<1>4. ASSUME NEW id, Avoids(q, id)
      PROVE  Avoids(r, id)
    <2>1. CarriedOrOther(r, q, Zeros, id)
        BY <1>1 DEF CarriedOrOther
    <2> QED BY <1>4, <2>1, CarriedAvoids
<1> QED BY <1>3, <1>4 DEF Harmless

(* Frames that ask for nothing are added to some queues.                   *)
LEMMA AnswersOnce ==
    ASSUME NEW q \in Queues, Once(q), NEW f \in Frame, ~ Asks(f), NEW r,
           \A a, b \in Node : r[a][b] = q[a][b] \/ r[a][b] = Append(q[a][b], f)
    PROVE  Harmless(q, r)
<1>1. ASSUME NEW a \in Node, NEW b \in Node, NEW j \in 1 .. Len(r[a][b]), Asks(r[a][b][j])
      PROVE  Carried(r, q, Zeros, a, b, j)
    <2>1. Zeros[a][b] = 0 /\ Len(q[a][b]) \in Nat /\ q[a][b] \in Seq(Frame)
        BY DEF Zeros, Queues
    <2>2. CASE r[a][b] = q[a][b]
        BY <2>1, <2>2 DEF Carried
    <2>3. CASE r[a][b] = Append(q[a][b], f)
        <3>1. j \in 1 .. Len(q[a][b]) + 1 /\ r[a][b][j] # f
            BY <1>1, <2>1, <2>3
        <3>2. j \in 1 .. Len(q[a][b]) /\ r[a][b][j] = q[a][b][j]
            BY <2>1, <2>3, <3>1
        <3> QED BY <2>1, <3>2 DEF Carried
    <2> QED BY <2>2, <2>3
<1>2. \A a, b \in Node : Zeros[a][b] \in Nat
    BY DEF Zeros
<1>3. Once(r)
    <2>1. CarriedOrAdded(r, q, Zeros, 0, 0, 0)
        BY <1>1, <1>2 DEF CarriedOrAdded
    <2> QED BY <2>1, CarriedOnce
<1>4. ASSUME NEW id, Avoids(q, id)
      PROVE  Avoids(r, id)
    <2>1. CarriedOrOther(r, q, Zeros, id)
        BY <1>1 DEF CarriedOrOther
    <2> QED BY <1>4, <2>1, CarriedAvoids
<1> QED BY <1>3, <1>4 DEF Harmless

-----------------------------------------------------------------------------
(* What AscendingIsInstalled rests on.                                     *)

(* No frame asks for a path under an id that a router keeps one under.     *)
IdsOK ==
    /\ Once(net)
    /\ \A k \in Node :
        /\ asc[k] # None => Avoids(net, asc[k].index.id)
        /\ candidate[k] # None => Avoids(net, candidate[k].index.id)

(* The paths a router asked for start there under its key; the one that    *)
(* ends there has a lower key.                                             *)
OwnPaths ==
    \A k \in Node :
        /\ \A p \in {asc[k], candidate[k]} \ {None} :
               p.index.key = k /\ p.source = k /\ p.active
        /\ desc[k] # None => desc[k].index.key < k

InstalledInv == TypeOK /\ IdsOK /\ OwnPaths /\ AscendingIsInstalled

LEMMA IdsKept ==
    ASSUME IdsOK, Once(net'),
           \A k \in Node : asc'[k] \in {None, asc[k], candidate[k]},
           \A k \in Node : candidate'[k] \in {None, candidate[k]},
           \A k \in Node :
               /\ asc[k] # None => Avoids(net', asc[k].index.id)
               /\ candidate[k] # None => Avoids(net', candidate[k].index.id)
    PROVE  IdsOK'
<1>1. \A k \in Node :
        /\ asc'[k] # None => Avoids(net', asc'[k].index.id)
        /\ candidate'[k] # None => Avoids(net', candidate'[k].index.id)
    <2> TAKE k \in Node
    <2>1. asc'[k] # None => Avoids(net', asc'[k].index.id)
        BY Zenon
    <2>2. candidate'[k] # None => Avoids(net', candidate'[k].index.id)
        BY Zenon
    <2> QED BY <2>1, <2>2
<1> QED BY <1>1 DEF IdsOK

LEMMA HarmlessKeeps ==
    ASSUME IdsOK, Harmless(net, net'),
           \A k \in Node : asc'[k] \in {None, asc[k], candidate[k]},
           \A k \in Node : candidate'[k] \in {None, candidate[k]}
    PROVE  IdsOK'
<1>1. Once(net')
    BY DEF Harmless
<1>2. \A k \in Node :
        /\ asc[k] # None => Avoids(net', asc[k].index.id)
        /\ candidate[k] # None => Avoids(net', candidate[k].index.id)
    BY DEF IdsOK, Harmless
<1> QED BY <1>1, <1>2, IdsKept

LEMMA HarmlessTwice ==
    ASSUME NEW q, NEW r, NEW u, Harmless(q, r), Harmless(r, u)
    PROVE  Harmless(q, u)
BY DEF Harmless

(* The id of a new bootstrap is that of no frame and of no path.           *)
LEMMA BootstrapNowOnce ==
    ASSUME TypeOK, TreeTypeOK', IdsOK, NEW n \in Node, NEW q \in Queues, Harmless(net, q),
           NEW who, BootstrapNow(n, q, who)
    PROVE  /\ Once(net')
           /\ \A k \in Node :
               /\ asc[k] # None => Avoids(net', asc[k].index.id)
               /\ candidate[k] # None => Avoids(net', candidate[k].index.id)
<1>1. CASE net' = q
    BY <1>1 DEF Harmless, IdsOK
<1>2. CASE net' # q
    <2> DEFINE f(i) == [kind |-> "bootstrap", root |-> Current(n)'.root,
                        coords |-> Coordinates(Current(n)'.sigs),
                        index |-> [key |-> n, id |-> i]]
    <2>1. PICK i, h :
            /\ i \in NewIds(n)
            /\ Connected(n, h)'
            /\ net' = [q EXCEPT ![n][h] = Append(@, f(i))]
        BY <1>2 DEF BootstrapNow
    <2>2. i \in PathId /\ ~ InUse(i)
        BY <2>1, NewIdIsFresh
    <2>3. f(i) \in Frame
        <3>1. Current(n)'.root \in Root /\ Current(n)'.sigs \in Seq(Signature)
            BY CurrentTypeNext DEF Announcement
        <3>2. Coordinates(Current(n)'.sigs) \in Seq(Nat)
            BY <3>1, CoordinatesType
        <3>3. [key |-> n, id |-> i] \in Index
            BY <2>2 DEF Index
        <3> QED BY <3>1, <3>2, <3>3 DEF Frame, Bootstrap
    <2>4. f(i).index.id = i /\ Asks(f(i))
        BY DEF Asks
    <2>5. Avoids(net, i)
        <3>1. \A a, b \in Node : \A j \in DOMAIN net[a][b] : net[a][b][j].index.id # i
            BY <2>2 DEF InUse
        <3>2. \A a, b \in Node : DOMAIN net[a][b] = 1 .. Len(net[a][b])
            BY TypeParts DEF SnakeTypeOK
        <3> QED BY <3>1, <3>2 DEF Avoids
    <2>6. Avoids(q, i) /\ Once(q)
        BY <2>5 DEF Harmless
    <2>7. h \in Node
        BY <2>1 DEF Connected, TreeTypeOK
    <2> HIDE DEF f
    <2> DEFINE g == f(i)
               r == [q EXCEPT ![n][h] = Append(@, g)]
    <2>8. Once(r) /\ \A id : Avoids(q, id) /\ (Asks(g) => g.index.id # id) => Avoids(r, id)
        <3>1. g \in Frame /\ (Asks(g) => Avoids(q, g.index.id))
            BY <2>3, <2>4, <2>6
        <3> HIDE DEF g
        <3> QED BY <2>6, <2>7, <3>1, AppendOnce
    <2>9. net' = r
        BY <2>1
    <2> HIDE DEF r
    <2>10. \A k \in Node : /\ asc[k] # None => asc[k].index.id # i
                           /\ candidate[k] # None => candidate[k].index.id # i
        BY <2>2 DEF InUse
    <2> QED BY <2>4, <2>8, <2>9, <2>10 DEF IdsOK, Harmless
<1> QED BY <1>1, <1>2

(* Handling a bootstrap or an acknowledgement passes its id on at most     *)
(* once more.                                                              *)
PassesOn(q, r, id) ==
    Once(r) /\ \A x : Avoids(q, x) /\ id # x => Avoids(r, x)

LEMMA PassOnSend ==
    ASSUME TreeTypeOK, NEW q \in Queues, Once(q), NEW n \in Node, NEW h, NEW f \in Frame,
           NEW id, f.index.id = id, Avoids(q, id)
    PROVE  PassesOn(q, Send(q, n, h, f), id)
BY SendOnce DEF PassesOn

LEMMA PassOnNothing ==
    ASSUME NEW q, Once(q), NEW id
    PROVE  PassesOn(q, q, id)
BY DEF PassesOn

LEMMA BootstrapPassesOn ==
    ASSUME TypeOK, NEW n \in Node, NEW m \in Node, NEW q \in Queues, NEW f \in Bootstrap,
           Once(q), Avoids(q, f.index.id), ReceiveBootstrap(n, m, f, q)
    PROVE  PassesOn(q, net', f.index.id)
<1>1. PICK h : IF h = n THEN HandleBootstrap(n, f, q) ELSE net' = Send(q, n, h, f)
    BY DEF ReceiveBootstrap
<1>2. CASE net' = q
    BY <1>2, PassOnNothing
<1>3. CASE net' = Send(q, n, h, f)
    BY <1>3, PassOnSend, TypeParts DEF Frame
<1>4. ASSUME NEW k,
             net' = Send(q, n, k, [kind |-> "ack", root |-> f.root, dest |-> f.coords,
                                   coords |-> Coordinates(Current(n).sigs),
                                   by |-> n, index |-> f.index])
      PROVE  PassesOn(q, net', f.index.id)
    <2> DEFINE g == [kind |-> "ack", root |-> f.root, dest |-> f.coords,
                     coords |-> Coordinates(Current(n).sigs),
                     by |-> n, index |-> f.index]
    <2>1. Current(n).sigs \in Seq(Signature)
        BY CurrentType DEF TypeOK, Announcement
    <2>2. Coordinates(Current(n).sigs) \in Seq(Nat)
        BY <2>1, CoordinatesType
    <2>3. g \in Frame /\ g.index.id = f.index.id
        BY <2>2 DEF Bootstrap, Ack, Frame
    <2> HIDE DEF g
    <2>4. PassesOn(q, Send(q, n, k, g), f.index.id)
        BY <2>3, PassOnSend, TypeParts
    <2> QED BY <1>4, <2>4 DEF g
<1> QED BY <1>1, <1>2, <1>3, <1>4 DEF HandleBootstrap

LEMMA BootstrapInstalled ==
    ASSUME InstalledInv, NEW n \in Node, NEW m \in Node, NEW q \in Queues,
           NEW f \in Bootstrap, Harmless(net, q), Avoids(q, f.index.id),
           \A id : Avoids(net, id) => id # f.index.id,
           ReceiveBootstrap(n, m, f, q)
    PROVE  IdsOK'
<1>1. PassesOn(q, net', f.index.id)
    BY BootstrapPassesOn DEF InstalledInv, Harmless
<1>2. Harmless(net, net')
    BY <1>1 DEF Harmless, PassesOn
<1>3. UNCHANGED <<asc, candidate>>
    BY DEF ReceiveBootstrap
<1> QED BY <1>2, <1>3, HarmlessKeeps DEF InstalledInv

(* A router takes its path's id from the acknowledgement it has read.      *)
LEMMA AckInstalled ==
    ASSUME InstalledInv, NEW n \in Node, NEW q \in Queues,
           NEW f \in Ack, Harmless(net, q), Avoids(q, f.index.id),
           \A id : Avoids(net, id) => id # f.index.id,
           HandleBootstrapAck(n, f, q)
    PROVE  IdsOK' /\ OwnPaths' /\ AscendingIsInstalled'
<1>0. TypeOK /\ TreeTypeOK /\ SnakeTypeOK /\ IdsOK /\ OwnPaths /\ AscendingIsInstalled
    BY TypeParts DEF InstalledInv
<1>1. CASE net' = q /\ UNCHANGED <<paths, asc, desc, candidate>>
    <2>1. IdsOK'
        BY <1>0, <1>1, HarmlessKeeps
    <2> QED BY <1>0, <1>1, <2>1 DEF OwnPaths, AscendingIsInstalled
<1>2. CASE ~ (net' = q /\ UNCHANGED <<paths, asc, desc, candidate>>)
    <2> DEFINE i == [key |-> n, id |-> f.index.id]
               entry(h) == [index |-> i, origin |-> f.by, target |-> f.by, source |-> n,
                            destination |-> h, root |-> f.root, active |-> FALSE]
               g == [kind |-> "setup", root |-> f.root,
                     dest |-> f.coords, to |-> f.by, index |-> i]
    <2>1. PICK h \in TreeHops(n, f.coords, n) :
            /\ net' = Send(q, n, h, g)
            /\ paths' = [paths EXCEPT ![n] = Without(@, i) \cup {entry(h)}]
            /\ candidate' = [candidate EXCEPT ![n] = [entry(h) EXCEPT !.active = TRUE]]
            /\ UNCHANGED <<asc, desc>>
        BY <1>2 DEF HandleBootstrapAck
    <2>2. g \in Frame /\ ~ Asks(g)
        BY DEF Ack, Index, Setup, Frame, Asks
    <2>3. i.key = n /\ i.id = f.index.id
        OBVIOUS
    <2> HIDE DEF i, g
    <2> DEFINE c == [entry(h) EXCEPT !.active = TRUE]
    <2>4. c.index = i /\ c.source = n /\ c.active
        OBVIOUS
    <2> HIDE DEF c, entry
    <2>5. Harmless(net, net') /\ Avoids(net', f.index.id)
        <3>1. Harmless(q, net')
            BY <1>0, <2>1, <2>2, AnswerOnce DEF Harmless
        <3> QED BY <3>1, HarmlessTwice DEF Harmless
    <2>6. \A k \in Node : candidate'[k] = IF k = n THEN c ELSE candidate[k]
        BY <1>0, <2>1 DEF SnakeTypeOK, c
    <2>7. IdsOK'
        <3>1. \A k \in Node :
                /\ asc'[k] # None => Avoids(net', asc'[k].index.id)
                /\ candidate'[k] # None => Avoids(net', candidate'[k].index.id)
            <4> TAKE k \in Node
            <4>1. asc'[k] = asc[k] /\ \A id : Avoids(net, id) => Avoids(net', id)
                BY <2>1, <2>5 DEF Harmless
            <4>2. CASE k = n
                BY <1>0, <2>3, <2>4, <2>5, <2>6, <4>1, <4>2 DEF IdsOK
            <4>3. CASE k # n
                BY <1>0, <2>6, <4>1, <4>3 DEF IdsOK
            <4> QED BY <4>2, <4>3
        <3> QED BY <2>5, <3>1 DEF IdsOK, Harmless
    <2>8. OwnPaths'
        <3> SUFFICES ASSUME NEW k \in Node
                     PROVE  /\ \A p \in {asc'[k], candidate'[k]} \ {None} :
                                   p.index.key = k /\ p.source = k /\ p.active
                            /\ desc'[k] # None => desc'[k].index.key < k
            BY DEF OwnPaths
        <3>1. asc'[k] = asc[k] /\ desc'[k] = desc[k]
            BY <2>1
        <3>2. CASE k = n
            BY <1>0, <2>3, <2>4, <2>6, <3>1, <3>2 DEF OwnPaths
        <3>3. CASE k # n
            BY <1>0, <2>6, <3>1, <3>3 DEF OwnPaths
        <3> QED BY <3>2, <3>3
    <2>9. AscendingIsInstalled'
        <3> SUFFICES ASSUME NEW k \in Node, asc[k] # None
                     PROVE  asc[k] \in paths'[k]
            BY <2>1 DEF AscendingIsInstalled
        <3>1. asc[k] \in paths[k] /\ Avoids(net, asc[k].index.id)
            BY <1>0 DEF AscendingIsInstalled, IdsOK
        <3>2. asc[k].index # i
            BY <2>3, <3>1
        <3> QED BY <1>0, <2>1, <3>1, <3>2 DEF SnakeTypeOK, Without
    <2> QED BY <2>7, <2>8, <2>9
<1> QED BY <1>1, <1>2

LEMMA ReceiveAckInstalled ==
    ASSUME InstalledInv, NEW n \in Node, NEW m \in Node, NEW q \in Queues,
           NEW f \in Ack, Harmless(net, q), Avoids(q, f.index.id),
           \A id : Avoids(net, id) => id # f.index.id,
           ReceiveAck(n, m, f, q)
    PROVE  IdsOK' /\ OwnPaths' /\ AscendingIsInstalled'
<1>1. CASE HandleBootstrapAck(n, f, q)
    BY <1>1, AckInstalled
<1>2. CASE ~ HandleBootstrapAck(n, f, q)
    <2>1. UNCHANGED <<paths, asc, desc, candidate>>
        BY <1>2 DEF ReceiveAck
    <2>2. net' = q \/ \E h : net' = Send(q, n, h, f)
        BY <1>2 DEF ReceiveAck
    <2>3. Once(q)
        BY DEF Harmless
    <2>4. PassesOn(q, net', f.index.id)
        BY <2>2, <2>3, PassOnNothing, PassOnSend, TypeParts DEF Frame, InstalledInv
    <2>5. Harmless(net, net')
        BY <2>4 DEF Harmless, PassesOn
    <2>6. IdsOK'
        BY <2>1, <2>5, HarmlessKeeps DEF InstalledInv
    <2> QED BY <2>1, <2>6 DEF InstalledInv, OwnPaths, AscendingIsInstalled
<1> QED BY <1>1, <1>2

LEMMA PathsGrow ==
    ASSUME InstalledInv, UNCHANGED <<asc, candidate>>,
           \A k \in Node : paths[k] \subseteq paths'[k],
           \A k \in Node : desc'[k] \in {None, desc[k]} \/ desc'[k].index.key < k,
           Harmless(net, net')
    PROVE  IdsOK' /\ OwnPaths' /\ AscendingIsInstalled'
<1>1. IdsOK'
    BY HarmlessKeeps DEF InstalledInv
<1>2. OwnPaths'
    BY DEF InstalledInv, OwnPaths
<1>3. AscendingIsInstalled'
    BY DEF InstalledInv, AscendingIsInstalled
<1> QED BY <1>1, <1>2, <1>3

LEMMA SetupInstalled ==
    ASSUME InstalledInv, NEW n \in Node, NEW m \in Node, NEW q \in Queues,
           NEW f \in Setup, NEW h, Harmless(net, q), HandleSetup(n, m, f, h, q)
    PROVE  IdsOK' /\ OwnPaths' /\ AscendingIsInstalled'
<1>0. TypeOK /\ TreeTypeOK /\ SnakeTypeOK
    BY TypeParts DEF InstalledInv
<1> DEFINE reject == TeardownOf(f.index)
           ack == [kind |-> "setup_ack", index |-> f.index]
           r == IF f.root = Current(n).root THEN q ELSE Send(q, n, m, reject)
<1>1. /\ f \in Frame /\ ~ Asks(f)
      /\ reject \in Frame /\ ~ Asks(reject)
      /\ ack \in Frame /\ ~ Asks(ack)
    BY TeardownType DEF Setup, SetupAck, Frame, Asks, TeardownOf
<1>2. \/ net' = Send(r, n, m, reject)
      \/ net' = Send(r, n, m, ack)
      \/ net' = Send(r, n, h, f)
    BY DEF HandleSetup
<1>3. UNCHANGED <<asc, candidate>>
    BY DEF HandleSetup
<1> HIDE DEF reject, ack
<1>4. r \in Queues /\ Harmless(net, r)
    <2>1. CASE r = q
        BY <2>1
    <2>2. CASE r = Send(q, n, m, reject)
        <3>1. Once(q)
            BY DEF Harmless
        <3>2. Send(q, n, m, reject) \in Queues
            BY <1>0, <1>1, SendType
        <3>3. Harmless(q, Send(q, n, m, reject))
            BY <1>0, <1>1, <3>1, AnswerOnce
        <3> HIDE DEF r
        <3> QED BY <2>2, <3>2, <3>3, HarmlessTwice
    <2> QED BY <2>1, <2>2
<1> HIDE DEF r
<1>5. Harmless(net, net')
    <2>1. Once(r)
        BY <1>4 DEF Harmless
    <2>2. Harmless(r, net')
        BY <1>0, <1>1, <1>2, <1>4, <2>1, AnswerOnce
    <2> QED BY <1>4, <2>2, HarmlessTwice
<1>6. \/ UNCHANGED <<paths, desc>>
      \/ Install(n, f, m, n, TRUE) /\ f.index.key < n
      \/ Install(n, f, m, h, FALSE)
    BY DEF HandleSetup, AcceptsSetup
<1>7. \A k \in Node : paths[k] \subseteq paths'[k]
    BY <1>0, <1>6 DEF Install, SnakeTypeOK
<1>8. \A k \in Node : desc'[k] \in {None, desc[k]} \/ desc'[k].index.key < k
    <2>1. CASE UNCHANGED desc
        BY <2>1
    <2>2. CASE Install(n, f, m, n, TRUE) /\ f.index.key < n
        <3> DEFINE e == [index |-> f.index, origin |-> f.index.key, target |-> f.to,
                         source |-> m, destination |-> n, root |-> f.root,
                         active |-> TRUE]
        <3>1. e.index = f.index
            OBVIOUS
        <3>2. desc' = [desc EXCEPT ![n] = e]
            BY <2>2 DEF Install
        <3> HIDE DEF e
        <3> QED BY <1>0, <2>2, <3>1, <3>2 DEF SnakeTypeOK
    <2> QED BY <1>6, <2>1, <2>2 DEF Install
<1> QED BY <1>3, <1>5, <1>7, <1>8, PathsGrow

LEMMA ReceiveSetupInstalled ==
    ASSUME InstalledInv, NEW n \in Node, NEW m \in Node, NEW q \in Queues,
           NEW f \in Setup, Harmless(net, q), ReceiveSetup(n, m, f, q)
    PROVE  IdsOK' /\ OwnPaths' /\ AscendingIsInstalled'
<1>1. CASE net' = q /\ UNCHANGED <<paths, asc, desc, candidate>>
    BY <1>1, PathsGrow
<1>2. ASSUME NEW h, HandleSetup(n, m, f, h, q)
      PROVE  IdsOK' /\ OwnPaths' /\ AscendingIsInstalled'
    BY <1>2, SetupInstalled
<1> QED BY <1>1, <1>2 DEF ReceiveSetup

(* An acknowledged candidate is put into the table as it becomes the       *)
(* ascending path; an ascending path is active and is not acknowledged     *)
(* again.                                                                  *)
LEMMA SetupAckInstalled ==
    ASSUME InstalledInv, NEW n \in Node, NEW m \in Node, NEW q \in Queues,
           NEW f \in SetupAck, Harmless(net, q), ReceiveSetupAck(n, m, f, q)
    PROVE  IdsOK' /\ OwnPaths' /\ AscendingIsInstalled'
<1>0. TypeOK /\ TreeTypeOK /\ SnakeTypeOK /\ IdsOK /\ OwnPaths /\ AscendingIsInstalled
    BY TypeParts DEF InstalledInv
<1>1. CASE net' = q /\ UNCHANGED <<paths, asc, desc, candidate>>
    BY <1>1, PathsGrow
<1>2. CASE HandleSetupAck(n, m, f, q)
    <2> DEFINE waiting == Awaiting(n, m, f.index)
               activated == {[p EXCEPT !.active = TRUE] : p \in waiting}
               mine == {p \in activated : p = candidate[n]}
    <2>1. /\ paths' = [paths EXCEPT ![n] = (@ \ waiting) \cup activated]
          /\ net' = q \/ \E x : net' = Send(q, n, x, f)
          /\ \/ UNCHANGED <<asc, candidate>>
             \/ /\ candidate[n] \in activated
                /\ asc' = [asc EXCEPT ![n] = candidate[n]]
                /\ candidate' = [candidate EXCEPT ![n] = None]
          /\ UNCHANGED desc
        BY <1>2 DEF HandleSetupAck
    <2>2. waiting \subseteq paths[n] /\ \A p \in waiting : ~ p.active
        BY DEF Awaiting
    <2>3. activated \subseteq Path
        BY <1>0, AwaitingPaths
    <2> HIDE DEF waiting, activated
    <2>4. f \in Frame /\ ~ Asks(f)
        BY DEF SetupAck, Frame, Asks
    <2>5. Harmless(net, net')
        <3>1. Once(q)
            BY DEF Harmless
        <3> QED BY <1>0, <2>1, <2>4, <3>1, AnswerOnce, HarmlessTwice
    <2>6. \A k \in Node : /\ asc'[k] \in {None, asc[k], candidate[k]}
                          /\ candidate'[k] \in {None, candidate[k]}
        BY <1>0, <2>1 DEF SnakeTypeOK
    <2>7. IdsOK'
        BY <1>0, <2>5, <2>6, HarmlessKeeps
    <2>8. OwnPaths'
        BY <1>0, <2>1, <2>6 DEF OwnPaths
    <2>9. AscendingIsInstalled'
        <3> SUFFICES ASSUME NEW k \in Node, asc'[k] # None
                     PROVE  asc'[k] \in paths'[k]
            BY DEF AscendingIsInstalled
        <3>1. CASE asc'[k] = asc[k]
            <4>1. asc[k] \in paths[k] /\ asc[k].active
                BY <1>0, <3>1 DEF AscendingIsInstalled, OwnPaths
            <4> QED BY <1>0, <2>1, <2>2, <3>1, <4>1 DEF SnakeTypeOK
        <3>2. CASE asc'[k] # asc[k]
            <4>1. k = n /\ asc'[n] = candidate[n] /\ candidate[n] \in activated
                BY <1>0, <2>1, <3>2 DEF SnakeTypeOK
            <4> QED BY <1>0, <2>1, <4>1 DEF SnakeTypeOK
        <3> QED BY <3>1, <3>2
    <2> QED BY <2>7, <2>8, <2>9
<1> QED BY <1>1, <1>2 DEF ReceiveSetupAck

(* A teardown takes the entry of the ascending path only with the path.    *)
LEMMA TeardownInstalled ==
    ASSUME TypeOK, OwnPaths, AscendingIsInstalled, NEW n \in Node, NEW m, NEW i,
           TeardownPath(n, m, i), UNCHANGED candidate
    PROVE  /\ OwnPaths' /\ AscendingIsInstalled'
           /\ \A k \in Node : asc'[k] \in {None, asc[k]}
<1>0. SnakeTypeOK
    BY TypeParts
<1>1. \A k \in Node : /\ asc'[k] = IF k = n /\ TearsAscending(n, m, i) THEN None ELSE asc[k]
                      /\ desc'[k] \in {None, desc[k]}
    BY <1>0 DEF TeardownPath, SnakeTypeOK
<1>2. OwnPaths'
    BY <1>1 DEF OwnPaths
<1>3. AscendingIsInstalled'
    <2> SUFFICES ASSUME NEW k \in Node, asc'[k] # None
                 PROVE  asc'[k] \in paths'[k]
        BY DEF AscendingIsInstalled
    <2>1. asc'[k] = asc[k] /\ asc[k] \in paths[k] /\ ~ (k = n /\ TearsAscending(n, m, i))
        BY <1>1 DEF AscendingIsInstalled
    <2>2. CASE k # n
        BY <1>0, <2>1, <2>2 DEF TeardownPath, SnakeTypeOK
    <2>3. CASE k = n /\ TearsDescending(n, m, i)
        <3>1. desc[n] # None /\ desc[n].index = i /\ desc[n].index.key < n
            BY <2>3 DEF TearsDescending, OwnPaths
        <3>2. asc[n].index.key = n
            BY <1>1, <2>3 DEF OwnPaths
        <3>3. asc[n].index # i
            BY <3>1, <3>2, NodeAssumption
        <3>4. paths'[n] = Without(paths[n], i)
            BY <1>0, <2>3 DEF TeardownPath, SnakeTypeOK
        <3> QED BY <2>1, <2>3, <3>3, <3>4 DEF Without
    <2>4. CASE k = n /\ ~ TearsDescending(n, m, i)
        <3>1. asc[n].source = n /\ asc[n] # None
            BY <1>1, <2>1, <2>4 DEF OwnPaths
        <3>2. asc[n] \notin TornEntries(n, m, i)
            BY <2>1, <2>4, <3>1 DEF TornEntries, TearsAscending
        <3>3. paths'[n] = paths[n] \ TornEntries(n, m, i)
            BY <1>0, <2>1, <2>4 DEF TeardownPath, SnakeTypeOK
        <3> QED BY <2>1, <2>4, <3>2, <3>3
    <2> QED BY <2>2, <2>3, <2>4
<1> QED BY <1>1, <1>2, <1>3

LEMMA PollPeerInstalled ==
    ASSUME InstalledInv, NEW n \in Node, NEW m \in Node, PollPeer(n, m)
    PROVE  IdsOK' /\ OwnPaths' /\ AscendingIsInstalled'
<1>0. TypeOK /\ TreeTypeOK /\ SnakeTypeOK /\ IdsOK /\ OwnPaths /\ AscendingIsInstalled
    BY TypeParts DEF InstalledInv
<1> DEFINE f == Head(net[m][n])
           q == [net EXCEPT ![m][n] = Tail(@)]
<1>1. net \in Queues /\ Once(net) /\ net[m][n] # <<>> /\ net[m][n] \in Seq(Frame)
    BY <1>0 DEF SnakeTypeOK, IdsOK, PollPeer, Queues
<1>2. f \in Frame /\ Tail(net[m][n]) \in Seq(Frame)
    BY <1>1
<1>3. q \in Queues
    BY <1>1, <1>2 DEF Queues
<1>4. \/ f.kind = "bootstrap" /\ ReceiveBootstrap(n, m, f, q)
      \/ f.kind = "ack" /\ ReceiveAck(n, m, f, q)
      \/ f.kind = "setup" /\ ReceiveSetup(n, m, f, q)
      \/ f.kind = "setup_ack" /\ ReceiveSetupAck(n, m, f, q)
      \/ f.kind = "teardown" /\ HandleTeardown(n, m, f, q)
    BY DEF PollPeer
<1>5. /\ Harmless(net, q)
      /\ Asks(f) => Avoids(q, f.index.id) /\ \A id : Avoids(net, id) => id # f.index.id
    BY <1>1, TailOnce
<1> HIDE DEF f, q
<1>6. CASE f.kind = "bootstrap" /\ ReceiveBootstrap(n, m, f, q)
    <2>1. f \in Bootstrap
        BY <1>2, <1>6 DEF Frame, Bootstrap, Ack, Setup, SetupAck, Teardown
    <2>2. Avoids(q, f.index.id) /\ \A id : Avoids(net, id) => id # f.index.id
        BY <1>5, <1>6 DEF Asks
    <2>3. IdsOK'
        BY <1>3, <1>5, <1>6, <2>1, <2>2, BootstrapInstalled
    <2> QED BY <1>0, <1>6, <2>3 DEF ReceiveBootstrap, OwnPaths, AscendingIsInstalled
<1>7. CASE f.kind = "ack" /\ ReceiveAck(n, m, f, q)
    <2>1. f \in Ack
        BY <1>2, <1>7 DEF Frame, Bootstrap, Ack, Setup, SetupAck, Teardown
    <2>2. Avoids(q, f.index.id) /\ \A id : Avoids(net, id) => id # f.index.id
        BY <1>5, <1>7 DEF Asks
    <2> QED BY <1>3, <1>5, <1>7, <2>1, <2>2, ReceiveAckInstalled
<1>8. CASE f.kind = "setup" /\ ReceiveSetup(n, m, f, q)
    <2>1. f \in Setup
        BY <1>2, <1>8 DEF Frame, Bootstrap, Ack, Setup, SetupAck, Teardown
    <2> QED BY <1>3, <1>5, <1>8, <2>1, ReceiveSetupInstalled
<1>9. CASE f.kind = "setup_ack" /\ ReceiveSetupAck(n, m, f, q)
    <2>1. f \in SetupAck
        BY <1>2, <1>9 DEF Frame, Bootstrap, Ack, Setup, SetupAck, Teardown
    <2> QED BY <1>3, <1>5, <1>9, <2>1, SetupAckInstalled
<1>10. CASE HandleTeardown(n, m, f, q)
    <2>1. /\ TeardownPath(n, m, f.index) /\ UNCHANGED candidate
          /\ net' = q
        BY <1>10 DEF HandleTeardown
    <2>2. /\ OwnPaths' /\ AscendingIsInstalled'
          /\ \A k \in Node : asc'[k] \in {None, asc[k]}
        BY <1>0, <2>1, TeardownInstalled
    <2>3. IdsOK'
        BY <1>0, <1>5, <2>1, <2>2, HarmlessKeeps
    <2> QED BY <2>2, <2>3
<1> QED BY <1>4, <1>6, <1>7, <1>8, <1>9, <1>10

LEMMA RunTeardownInstalled ==
    ASSUME InstalledInv, NEW n \in Node, NEW t \in tasks[n], RunTeardown(n, t)
    PROVE  IdsOK' /\ OwnPaths' /\ AscendingIsInstalled'
<1>0. TypeOK /\ TreeTypeOK /\ SnakeTypeOK /\ IdsOK /\ OwnPaths /\ AscendingIsInstalled
    BY TypeParts DEF InstalledInv
<1>1. TeardownPath(n, t.from, t.index) /\ UNCHANGED candidate
    BY DEF RunTeardown
<1>2. /\ OwnPaths' /\ AscendingIsInstalled'
      /\ \A k \in Node : asc'[k] \in {None, asc[k]}
    BY <1>0, <1>1, TeardownInstalled
<1> DEFINE g == TeardownOf(t.index)
<1>3. g \in Frame /\ ~ Asks(g)
    <2>1. t.index \in Index
        BY <1>0 DEF SnakeTypeOK, Task
    <2> QED BY <2>1, TeardownType DEF TeardownOf, Asks
<1>4. net' = [net EXCEPT ![n] = [m \in Node |->
            IF m \in Told(n, t) THEN Append(net[n][m], g) ELSE net[n][m]]]
    BY DEF RunTeardown
<1> HIDE DEF g
<1>5. net \in Queues /\ Once(net)
    BY <1>0 DEF SnakeTypeOK, IdsOK
<1>6. \A a, b \in Node : net'[a][b] = net[a][b] \/ net'[a][b] = Append(net[a][b], g)
    BY <1>4, <1>5 DEF Queues
<1>7. Harmless(net, net')
    BY <1>3, <1>5, <1>6, AnswersOnce
<1>8. IdsOK'
    BY <1>0, <1>1, <1>2, <1>7, HarmlessKeeps
<1> QED BY <1>2, <1>8

(* Bootstraps of maintain_snek, a reparent task and disconnect_peer.       *)
LEMMA BootstrapsInstalled ==
    ASSUME InstalledInv, TypeOK', NEW n \in Node, NEW q \in Queues, Harmless(net, q),
           net' = q \/ \E who : BootstrapNow(n, q, who),
           \A k \in Node : asc'[k] \in {None, asc[k]},
           UNCHANGED candidate
    PROVE  IdsOK'
<1>0. TypeOK /\ IdsOK /\ TreeTypeOK'
    BY TypePartsNext DEF InstalledInv
<1>1. CASE net' = q
    BY <1>0, <1>1, HarmlessKeeps
<1>2. ASSUME NEW who, BootstrapNow(n, q, who)
      PROVE  IdsOK'
    <2>1. /\ Once(net')
          /\ \A k \in Node :
               /\ asc[k] # None => Avoids(net', asc[k].index.id)
               /\ candidate[k] # None => Avoids(net', candidate[k].index.id)
        BY <1>0, <1>2, BootstrapNowOnce
    <2> QED BY <1>0, <2>1, IdsKept
<1> QED BY <1>1, <1>2

LEMMA DisconnectInstalled ==
    ASSUME InstalledInv, TypeOK', NEW n \in Node, NEW m \in Node, DisconnectPeer(n, m)
    PROVE  IdsOK' /\ OwnPaths' /\ AscendingIsInstalled'
<1>0. TypeOK /\ TreeTypeOK /\ SnakeTypeOK /\ IdsOK /\ OwnPaths /\ AscendingIsInstalled
    BY TypeParts DEF InstalledInv
<1> DEFINE q == [net EXCEPT ![m][n] = <<>>]
<1>1. net' = q \/ \E who : BootstrapNow(n, q, who)
    BY DEF DisconnectPeer
<1>2. q \in Queues
    BY <1>0 DEF SnakeTypeOK, Queues
<1>3. Harmless(net, q)
    BY <1>0, EmptyOnce DEF SnakeTypeOK, IdsOK
<1>4. UNCHANGED candidate
    BY DEF DisconnectPeer
<1> HIDE DEF q
<1>5. /\ OwnPaths' /\ AscendingIsInstalled'
      /\ \A k \in Node : asc'[k] \in {None, asc[k]}
    <2>1. CASE TeardownPath(n, n, asc[n].index)
        BY <1>0, <1>4, <2>1, TeardownInstalled
    <2>2. CASE UNCHANGED <<paths, asc, desc>>
        BY <1>0, <1>4, <2>2 DEF OwnPaths, AscendingIsInstalled
    <2> QED BY <2>1, <2>2 DEF DisconnectPeer
<1>6. IdsOK'
    BY <1>1, <1>2, <1>3, <1>4, <1>5, BootstrapsInstalled
<1> QED BY <1>5, <1>6

LEMMA InstalledInductive ==
    InstalledInv /\ [Next]_vars => InstalledInv'
<1> SUFFICES ASSUME InstalledInv, [Next]_vars
             PROVE  IdsOK' /\ OwnPaths' /\ AscendingIsInstalled'
    BY TypeInductive DEF InstalledInv
<1>0. TypeOK /\ TreeTypeOK /\ SnakeTypeOK /\ IdsOK /\ OwnPaths /\ AscendingIsInstalled
    BY TypeParts DEF InstalledInv
<1>1. TypeOK'
    BY <1>0, TypeInductive
<1>2. CASE UNCHANGED <<paths, asc, desc, candidate, net>>
    <2>1. Harmless(net, net')
        BY <1>0, <1>2 DEF Harmless, IdsOK
    <2> QED BY <1>2, <2>1, PathsGrow
<1>3. CASE TreeStep
    BY <1>2, <1>3 DEF TreeStep, snake
<1>4. ASSUME NEW n \in Node, ReselectAndBootstrap(n) \/ MaintainSnek(n)
      PROVE  IdsOK' /\ OwnPaths' /\ AscendingIsInstalled'
    <2>1. UNCHANGED <<paths, asc, desc, candidate>>
        BY <1>4 DEF ReselectAndBootstrap, MaintainSnek
    <2>2. net' = net \/ \E who : BootstrapNow(n, net, who)
        BY <1>4 DEF ReselectAndBootstrap, MaintainSnek
    <2>3. net \in Queues /\ Harmless(net, net)
        BY <1>0 DEF SnakeTypeOK, Harmless, IdsOK
    <2>4. IdsOK'
        BY <1>1, <2>1, <2>2, <2>3, BootstrapsInstalled
    <2> QED BY <1>0, <2>1, <2>4 DEF OwnPaths, AscendingIsInstalled
<1>5. ASSUME NEW n \in Node, NEW i \in Index, PathExpires(n, i)
      PROVE  IdsOK' /\ OwnPaths' /\ AscendingIsInstalled'
    BY <1>2, <1>5 DEF PathExpires
<1>6. CASE UNCHANGED vars
    BY <1>2, <1>6 DEF vars, snake
<1> QED BY <1>1, <1>3, <1>4, <1>5, <1>6, PollPeerInstalled, RunTeardownInstalled,
           DisconnectInstalled DEF Next

(* The copy that a router keeps of its ascending path is an active entry   *)
(* of its table, whatever acknowledgements, setups and teardowns of its    *)
(* own and of other paths it handles in between, and whatever breaks.      *)
THEOREM AscendingInstalled == Spec => []AscendingIsInstalled
<1>1. Init => InstalledInv
    <2> SUFFICES ASSUME Init PROVE InstalledInv
        OBVIOUS
    <2>1. TypeOK
        <3>1. TreeTypeOK
            BY TreeInitType DEF Init
        <3>2. SnakeTypeOK
            BY DEF Init, SnakeTypeOK, Queues
        <3> QED BY <3>1, <3>2, TypeParts
    <2>2. \A a, b \in Node : Len(net[a][b]) = 0
        BY DEF Init
    <2>3. IdsOK
        BY <2>2 DEF IdsOK, Once, Init
    <2>4. OwnPaths /\ AscendingIsInstalled
        BY DEF Init, OwnPaths, AscendingIsInstalled
    <2> QED BY <2>1, <2>3, <2>4 DEF InstalledInv
<1>2. InstalledInv => AscendingIsInstalled
    BY DEF InstalledInv
<1> QED BY <1>1, <1>2, InstalledInductive, PTL DEF Spec

=============================================================================
