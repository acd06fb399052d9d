---------------------------- MODULE SpanningTree ----------------------------
(***************************************************************************)
(* The spanning tree of rust_pinecone: every router follows the strongest  *)
(* root key it has heard of, through a parent it picks among its peers     *)
(* (src/src/router.rs, handle_tree_announcement .. maintain_tree, together *)
(* with connect and disconnect_peer, which feed it).                       *)
(*                                                                         *)
(* Each handler of a router is one action; between two handlers every      *)
(* interleaving of the router's tasks is possible: the connect() call, the *)
(* task of each peer, the maintenance ticker and the spawned reparent      *)
(* tasks.  A peering is a TCP connection: one FIFO queue per direction.    *)
(*                                                                         *)
(* Abstracted: signatures are the sequence of the keys that signed (ports  *)
(* are added by TreeRouting, the cryptographic check always succeeds       *)
(* between honest routers); receive_order, of which the code only compares *)
(* the values two stored announcements carry, is the relation `older';     *)
(* receive_time is the set `expired' of the announcements past the         *)
(* ANNOUNCEMENT_TIMEOUT.                                                   *)
(***************************************************************************)
EXTENDS Naturals, Sequences

CONSTANTS Node,       \* the public keys of the routers, ordered as numbers
          Link,       \* the pairs of routers that get connected, both ways
          Breakable,  \* the pairs <<n, m>> where n's user may disconnect m
          Ageing,     \* the routers whose stored announcements may time out
          MaxSeq,     \* bound: sequence numbers a root hands out
          MaxTasks,   \* bound: waiting reparent tasks when the ticker fires
          Prompt,     \* timing: connect() handles a peer's first frame
                      \* before the peer's second one arrives
          Calm,       \* timing: users and tickers wait for the network
                      \* to come to rest
          None        \* no announcement

ASSUME NodeAssumption == Node \subseteq Nat
ASSUME LinkAssumption ==
    /\ Link \subseteq Node \X Node
    /\ \A n, m \in Node : <<n, m>> \in Link => <<m, n>> \in Link /\ n # m
ASSUME BoundAssumption == MaxSeq \in Nat /\ MaxTasks \in Nat
ASSUME TimingAssumption == Prompt \in BOOLEAN /\ Calm \in BOOLEAN

Root == [key : Node, seq : Nat]
Announcement == [root : Root, sigs : Seq(Node)]
ASSUME NoneAssumption == None \notin Announcement

VARIABLES
    parent,     \* parent[n]: the router n follows, n itself as a root
    ann,        \* ann[n][m]: the last announcement n stored from m
    older,      \* older[n]: <<p, q>> when p's stored announcement came first
    expired,    \* expired[n]: peers whose stored announcement timed out
    sequence,   \* sequence[n]: n's own root sequence number
    timer,      \* timer[n]: the reparent timer is set and not expired
    tasks,      \* tasks[n]: spawned reparent tasks, by how far they got
    conn,       \* conn[n][m]: n's end of the connection with m
    first,      \* first[n][m]: first frame of m, not yet handled by connect()
    net         \* net[n][m]: frames n sent that m has not read, oldest first

router == <<parent, ann, older, expired, sequence, timer, tasks>>
vars == <<parent, ann, older, expired, sequence, timer, tasks, conn, first, net>>

(* A peering goes idle -> connecting (connect() awaits the first frame) -> *)
(* up (the peer task polls) -> closed.  After a local disconnect_peer the  *)
(* peer task is still blocked on the socket: lingering, then ending.       *)
ConnState == {"idle", "connecting", "up", "lingering", "ending", "closed"}

(* reparent(true) spawns a task that first sets the timer (wait), then     *)
(* sleeps (sleep); reparent(false) one that runs at once (now).            *)
TaskCount == [wait : Nat, sleep : Nat, now : Nat]

TypeOK ==
    /\ parent \in [Node -> Node]
    /\ ann \in [Node -> [Node -> Announcement \cup {None}]]
    /\ older \in [Node -> SUBSET (Node \X Node)]
    /\ expired \in [Node -> SUBSET Node]
    /\ sequence \in [Node -> Nat]
    /\ timer \in [Node -> BOOLEAN]
    /\ tasks \in [Node -> TaskCount]
    /\ conn \in [Node -> [Node -> ConnState]]
    /\ first \in [Node -> [Node -> Announcement \cup {None}]]
    /\ net \in [Node -> [Node -> Seq(Announcement)]]

Init ==
    /\ parent = [n \in Node |-> n]
    /\ ann = [n \in Node |-> [m \in Node |-> None]]
    /\ older = [n \in Node |-> {}]
    /\ expired = [n \in Node |-> {}]
    /\ sequence = [n \in Node |-> 0]
    /\ timer = [n \in Node |-> FALSE]
    /\ tasks = [n \in Node |-> [wait |-> 0, sleep |-> 0, now |-> 0]]
    /\ conn = [n \in Node |-> [m \in Node |-> "idle"]]
    /\ first = [n \in Node |-> [m \in Node |-> None]]
    /\ net = [n \in Node |-> [m \in Node |-> <<>>]]

-----------------------------------------------------------------------------
(* Announcements and roots.                                                *)

(* Ord for Root: the key first, then the sequence number.                  *)
Stronger(r, s) == r.key > s.key \/ (r.key = s.key /\ r.seq > s.seq)

Own(n, s) == [root |-> [key |-> n, seq |-> s], sigs |-> <<>>]

(* current_announcement() of n, for a table row of n and a parent p.       *)
CurrentIn(n, row, p) == IF row[p] # None THEN row[p] ELSE Own(n, sequence[n])
Current(n) == CurrentIn(n, ann[n], parent[n])

Signed(a, n) == [a EXCEPT !.sigs = Append(@, n)]

IsLoopOfChild(a, n) == \E i \in DOMAIN a.sigs : a.sigs[i] = n

(* The last signature is left out of the search for duplicates.            *)
HasLoop(a) ==
    \E i, j \in 1 .. Len(a.sigs) - 1 : i # j /\ a.sigs[i] = a.sigs[j]

IsClean(a, from) ==
    /\ a.root.key = a.sigs[1]
    /\ a.sigs[Len(a.sigs)] = from
    /\ ~ HasLoop(a)

(* ports with a peer: what peers() returns.                                *)
Peers(n) == {m \in Node : conn[n][m] = "up"}

(* The queues q after n sent announcement a to every router in T.  What is *)
(* sent to an end that is gone is lost.                                    *)
SendTo(q, n, T, a) ==
    [q EXCEPT ![n] = [m \in Node |->
        IF m \in T /\ conn[m][n] \notin {"ending", "closed"}
        THEN Append(q[n][m], Signed(a, n)) ELSE q[n][m]]]

Spawn(n, kind) == tasks' = [tasks EXCEPT ![n][kind] = @ + 1]

-----------------------------------------------------------------------------
(* Parent selection.  Its loop over the peers keeps the strongest root,    *)
(* and among equals the announcement received first, in any order it       *)
(* meets them; nothing weaker than the root it starts from is considered.  *)

(* become_root() when the own key is stronger than the current root.       *)
StartParent(n, row) ==
    IF n > CurrentIn(n, row, parent[n]).root.key THEN n ELSE parent[n]

(* Mutant: peers whose path leads through n are not skipped.               *)
EligibleLooping(n, row, peers) ==
    {m \in peers :
        /\ row[m] # None
        /\ m \notin expired[n]
        /\ ~ Stronger(CurrentIn(n, row, StartParent(n, row)).root, row[m].root)}

(* Mutant: weaker roots than the present one are considered too.           *)
EligibleWeaker(n, row, peers) ==
    {m \in peers :
        /\ row[m] # None
        /\ m \notin expired[n]
        /\ ~ IsLoopOfChild(row[m], n)}

Eligible(n, row, peers) ==
    {m \in peers :
        /\ row[m] # None
        /\ m \notin expired[n]
        /\ ~ IsLoopOfChild(row[m], n)
        /\ ~ Stronger(CurrentIn(n, row, StartParent(n, row)).root, row[m].root)}

Best(n, row, peers) ==
    {m \in Eligible(n, row, peers) : \A k \in Eligible(n, row, peers) \ {m} :
        /\ ~ Stronger(row[k].root, row[m].root)
        /\ Stronger(row[m].root, row[k].root) \/ <<k, m>> \notin older[n]}

ParentSelection(n, row, peers, q) ==
    \/ /\ Eligible(n, row, peers) = {}          \* "I am root": nobody is told
       /\ parent' = [parent EXCEPT ![n] = n]
       /\ net' = q
    \/ \E m \in Best(n, row, peers) :
       /\ parent' = [parent EXCEPT ![n] = m]
       /\ net' = IF m = StartParent(n, row) THEN q
                 ELSE SendTo(q, n, peers, row[m])

-----------------------------------------------------------------------------
(* handle_tree_announcement of frame f from m at n; q are the queues once  *)
(* the frame is read.                                                      *)

(* Mutant: no replay check.                                                *)
ReplayedNever(n, m, f) == FALSE

Replayed(n, m, f) ==
    /\ ann[n][m] # None
    /\ f.root.key = ann[n][m].root.key
    /\ f.root.seq < ann[n][m].root.seq

Accepted(n, m, f) == IsClean(f, m) /\ ~ Replayed(n, m, f)

Discard(n, m, f, q) ==
    /\ ~ Accepted(n, m, f)
    /\ net' = q
    /\ UNCHANGED router

Store(n, m, f) ==
    /\ Accepted(n, m, f)
    /\ ann' = [ann EXCEPT ![n][m] = f]
    /\ older' = [older EXCEPT ![n] = {pq \in @ : pq[1] # m /\ pq[2] # m}
                    \cup {<<p, m>> : p \in {k \in Node \ {m} : ann[n][k] # None}}]
    /\ expired' = [expired EXCEPT ![n] = @ \ {m}]
    /\ UNCHANGED <<sequence, timer>>

WaitingToReparent(n, m, f, q) ==
    /\ timer[n]
    /\ net' = q
    /\ UNCHANGED <<parent, tasks>>

(* cur is read after f was stored, and f is then the parent's: no f is     *)
(* stronger than itself.                                                   *)
ParentAcceptsUpdate(n, f, cur) ==
    /\ ~ IsLoopOfChild(f, n)
    /\ Stronger(f.root, cur.root)

(* Mutant: a refused parent is left without a task that picks the next.    *)
FromParentForgetful(n, m, f, cur, q) ==
    /\ m = parent[n]
    /\ parent' = [parent EXCEPT ![n] = n]
    /\ net' = q
    /\ UNCHANGED tasks

FromParent(n, m, f, cur, q) ==
    /\ m = parent[n]
    /\ IF ParentAcceptsUpdate(n, f, cur)
       THEN /\ net' = SendTo(q, n, Peers(n), cur)
            /\ UNCHANGED <<parent, tasks>>
       ELSE /\ parent' = [parent EXCEPT ![n] = n]
            /\ Spawn(n, "wait")
            /\ net' = q

LoopFromOther(n, m, f, q) ==
    /\ m # parent[n]
    /\ IsLoopOfChild(f, n)
    /\ net' = q
    /\ UNCHANGED <<parent, tasks>>

(* Mutant: the announcement is stored, and not passed on.                  *)
AcceptNewParentSilent(n, m, f, cur, q) ==
    /\ m # parent[n] /\ ~ IsLoopOfChild(f, n)
    /\ f.root.key > cur.root.key
    /\ parent' = [parent EXCEPT ![n] = m]
    /\ net' = q
    /\ UNCHANGED tasks

AcceptNewParent(n, m, f, cur, q) ==
    /\ m # parent[n] /\ ~ IsLoopOfChild(f, n)
    /\ f.root.key > cur.root.key
    /\ parent' = [parent EXCEPT ![n] = m]
    /\ net' = SendTo(q, n, Peers(n), f)
    /\ UNCHANGED tasks

(* Mutant: a peer with a weaker root is not told of the stronger one.      *)
InformNobody(n, m, f, cur, q) ==
    /\ m # parent[n] /\ ~ IsLoopOfChild(f, n)
    /\ f.root.key < cur.root.key
    /\ net' = q
    /\ UNCHANGED <<parent, tasks>>

(* Sending to a router that has no port panics: nothing is sent then.      *)
InformPeerOfStrongerRoot(n, m, f, cur, q) ==
    /\ m # parent[n] /\ ~ IsLoopOfChild(f, n)
    /\ f.root.key < cur.root.key
    /\ net' = SendTo(q, n, {m} \cap Peers(n), cur)
    /\ UNCHANGED <<parent, tasks>>

SelectNewParent(n, m, f, cur, q) ==
    /\ m # parent[n] /\ ~ IsLoopOfChild(f, n)
    /\ f.root.key = cur.root.key
    /\ Spawn(n, "now")
    /\ net' = q
    /\ UNCHANGED parent

HandleAnnouncement(n, m, f, q) ==
    \/ Discard(n, m, f, q)
    \/ /\ Store(n, m, f)
       /\ \/ WaitingToReparent(n, m, f, q)
          \/ /\ ~ timer[n]
             /\ LET cur == CurrentIn(n, [ann[n] EXCEPT ![m] = f], parent[n])
                IN \/ FromParent(n, m, f, cur, q)
                   \/ LoopFromOther(n, m, f, q)
                   \/ AcceptNewParent(n, m, f, cur, q)
                   \/ InformPeerOfStrongerRoot(n, m, f, cur, q)
                   \/ SelectNewParent(n, m, f, cur, q)

(* The handler of f from m panics in port(m).unwrap().                     *)
Panics(n, m, f) ==
    /\ Accepted(n, m, f) /\ ~ timer[n]
    /\ m # parent[n] /\ ~ IsLoopOfChild(f, n) /\ m \notin Peers(n)
    /\ f.root.key < CurrentIn(n, [ann[n] EXCEPT ![m] = f], parent[n]).root.key

-----------------------------------------------------------------------------
(* Connections.                                                            *)

(* Nothing is under way: no frame, no spawned task, no timer, no call.     *)
Quiet ==
    /\ \A n, m \in Node : /\ net[n][m] = <<>> /\ first[n][m] = None
                          /\ conn[n][m] \in {"idle", "up", "closed"}
    /\ \A n \in Node : /\ tasks[n] = [wait |-> 0, sleep |-> 0, now |-> 0]
                       /\ ~ timer[n]

(* connect(), up to the await of the peer's first frame.                   *)
Connect(n, m) ==
    /\ <<n, m>> \in Link
    /\ conn[n][m] = "idle"
    /\ Calm => Quiet \/ conn[m][n] # "idle"
    /\ conn' = [conn EXCEPT ![n][m] = "connecting"]
    /\ net' = SendTo(net, n, {m}, Current(n))
    /\ UNCHANGED <<router, first>>

(* connect() got the first frame and added the peer, whose task runs from  *)
(* here on; connect() itself has still to handle the frame.                *)
AddPeer(n, m) ==
    /\ conn[n][m] = "connecting" /\ net[m][n] # <<>>
    /\ conn' = [conn EXCEPT ![n][m] = "up"]
    /\ first' = [first EXCEPT ![n][m] = Head(net[m][n])]
    /\ net' = [net EXCEPT ![m][n] = Tail(@)]
    /\ UNCHANGED router

HandleFirst(n, m) ==
    /\ first[n][m] # None
    /\ HandleAnnouncement(n, m, first[n][m], net)
    /\ first' = [first EXCEPT ![n][m] = None]
    /\ UNCHANGED conn

(* One round of the peer task.  If the peer was disconnected meanwhile,    *)
(* the frame the task was waiting for is handled all the same.             *)
PollPeer(n, m) ==
    /\ conn[n][m] \in {"up", "lingering"} /\ net[m][n] # <<>>
    /\ Prompt => first[n][m] = None
    /\ LET f == Head(net[m][n])
       IN /\ HandleAnnouncement(n, m, f, [net EXCEPT ![m][n] = Tail(@)])
          /\ conn' = IF conn[n][m] = "up" THEN conn
                     ELSE [conn EXCEPT ![n][m] =
                              IF Panics(n, m, f) THEN "closed" ELSE "ending"]
    /\ UNCHANGED first

(* disconnect_peer.  If the ascending path went through this peering and   *)
(* is torn down (lost), `bootstrap || parent_selection()' is cut short.    *)
DisconnectPeer(n, m, lost, state) ==
    /\ conn' = [conn EXCEPT ![n][m] = state]
    /\ ann' = [ann EXCEPT ![n][m] = None]
    /\ older' = [older EXCEPT ![n] = {pq \in @ : pq[1] # m /\ pq[2] # m}]
    /\ expired' = [expired EXCEPT ![n] = @ \ {m}]
    /\ LET q == IF state = "closed" THEN [net EXCEPT ![m][n] = <<>>] ELSE net
       IN IF parent[n] = m /\ ~ lost
          THEN ParentSelection(n, [ann[n] EXCEPT ![m] = None], Peers(n) \ {m}, q)
          ELSE net' = q /\ UNCHANGED parent
    /\ UNCHANGED <<sequence, timer, tasks, first>>

UserDisconnect(n, m) ==
    /\ <<n, m>> \in Breakable
    /\ conn[n][m] = "up"
    /\ Calm => Quiet
    /\ \E lost \in BOOLEAN : DisconnectPeer(n, m, lost, "lingering")

(* The peer task saw the end of the stream.                                *)
ConnectionClosed(n, m) ==
    /\ conn[n][m] \in {"up", "lingering"} /\ net[m][n] = <<>>
    /\ conn[m][n] \in {"lingering", "ending", "closed"}
    /\ \E lost \in {l \in BOOLEAN : l => conn[n][m] = "up"} :
          DisconnectPeer(n, m, lost, "closed")

(* The peer task found no socket: disconnect_peer for the second time.     *)
PeerTaskEnds(n, m) ==
    /\ conn[n][m] = "ending"
    /\ DisconnectPeer(n, m, FALSE, "closed")

-----------------------------------------------------------------------------
(* Tickers, timers and reparent tasks.                                     *)

(* Mutant: the sequence number is announced, and not kept.                 *)
MaintainTreeUnsaved(n) ==
    /\ tasks[n].wait + tasks[n].sleep < MaxTasks
    /\ sequence[n] < MaxSeq /\ parent[n] = n
    /\ net' = SendTo(net, n, Peers(n), Own(n, sequence[n] + 1))
    /\ Spawn(n, "wait")
    /\ UNCHANGED <<parent, ann, older, expired, sequence, timer, conn, first>>

(* Mutant: only a root reconsiders its parent.                             *)
MaintainTreeRootOnly(n) ==
    /\ parent[n] = n /\ sequence[n] < MaxSeq
    /\ tasks[n].wait + tasks[n].sleep < MaxTasks
    /\ sequence' = [sequence EXCEPT ![n] = @ + 1]
    /\ net' = SendTo(net, n, Peers(n), Own(n, sequence[n] + 1))
    /\ Spawn(n, "wait")
    /\ UNCHANGED <<parent, ann, older, expired, timer, conn, first>>

(* maintain_tree.                                                          *)
MaintainTree(n) ==
    /\ tasks[n].wait + tasks[n].sleep < MaxTasks
    /\ Calm => Quiet
    /\ IF parent[n] = n
       THEN /\ sequence[n] < MaxSeq
            /\ sequence' = [sequence EXCEPT ![n] = @ + 1]
            /\ net' = SendTo(net, n, Peers(n), Own(n, sequence[n] + 1))
       ELSE UNCHANGED <<sequence, net>>
    /\ Spawn(n, "wait")
    /\ UNCHANGED <<parent, ann, older, expired, timer, conn, first>>

(* Mutant: the timer is set without a task that waits.                     *)
SetReparentTimerUnasked(n) ==
    /\ tasks' = [tasks EXCEPT ![n].wait = @ - 1, ![n].sleep = @ + 1]
    /\ timer' = [timer EXCEPT ![n] = TRUE]
    /\ UNCHANGED <<parent, ann, older, expired, sequence, conn, first, net>>

(* Mutant: the task only sets the timer, and selects no parent afterwards. *)
SetReparentTimerOnly(n) ==
    /\ tasks[n].wait > 0
    /\ tasks' = [tasks EXCEPT ![n].wait = @ - 1]
    /\ timer' = [timer EXCEPT ![n] = TRUE]
    /\ UNCHANGED <<parent, ann, older, expired, sequence, conn, first, net>>

SetReparentTimer(n) ==
    /\ tasks[n].wait > 0
    /\ tasks' = [tasks EXCEPT ![n].wait = @ - 1, ![n].sleep = @ + 1]
    /\ timer' = [timer EXCEPT ![n] = TRUE]
    /\ UNCHANGED <<parent, ann, older, expired, sequence, conn, first, net>>

TimerExpires(n) ==
    /\ timer[n]
    /\ timer' = [timer EXCEPT ![n] = FALSE]
    /\ UNCHANGED <<parent, ann, older, expired, sequence, tasks, conn, first, net>>

(* The spawned task runs parent_selection.  The task that set the timer    *)
(* last sleeps at least as long as the timer runs.                         *)
Reparent(n, kind) ==
    /\ tasks[n][kind] > 0
    /\ kind = "sleep" /\ timer[n] => tasks[n].sleep > 1
    /\ ParentSelection(n, ann[n], Peers(n), net)
    /\ tasks' = [tasks EXCEPT ![n][kind] = @ - 1]
    /\ UNCHANGED <<ann, older, expired, sequence, timer, conn, first>>

AnnouncementTimesOut(n, m) ==
    /\ n \in Ageing /\ m \notin expired[n]
    /\ ann[n][m] # None
    /\ Calm => Quiet
    /\ expired' = [expired EXCEPT ![n] = @ \cup {m}]
    /\ UNCHANGED <<parent, ann, older, sequence, timer, tasks, conn, first, net>>

PeerStep(n, m) ==
    \/ Connect(n, m)
    \/ AddPeer(n, m)
    \/ HandleFirst(n, m)
    \/ PollPeer(n, m)
    \/ UserDisconnect(n, m)
    \/ ConnectionClosed(n, m)
    \/ PeerTaskEnds(n, m)
    \/ AnnouncementTimesOut(n, m)

TaskStep(n) ==
    \/ MaintainTree(n)
    \/ SetReparentTimer(n)
    \/ TimerExpires(n)
    \/ \E kind \in {"sleep", "now"} : Reparent(n, kind)

Next == \/ \E n, m \in Node : PeerStep(n, m)
        \/ \E n \in Node : TaskStep(n)

Spec == Init /\ [][Next]_vars

(* Every spawned task and timer gets its turn, the sockets deliver, the    *)
(* ticker keeps firing and both ends call connect(); no user has to        *)
(* disconnect and no announcement has to grow old.                         *)
Fairness ==
    /\ \A n, m \in Node :
        /\ WF_vars(Connect(n, m)) /\ WF_vars(AddPeer(n, m))
        /\ WF_vars(HandleFirst(n, m)) /\ WF_vars(PollPeer(n, m))
        /\ WF_vars(ConnectionClosed(n, m)) /\ WF_vars(PeerTaskEnds(n, m))
    /\ \A n \in Node :
        /\ WF_vars(MaintainTree(n))
        /\ WF_vars(SetReparentTimer(n)) /\ WF_vars(TimerExpires(n))
        /\ \A kind \in {"sleep", "now"} : WF_vars(Reparent(n, kind))

FairSpec == Spec /\ Fairness

-----------------------------------------------------------------------------
(* Safety.                                                                 *)

(* The announcement of n's parent leads back through n, or is weaker than  *)
(* n's own key.                                                            *)
Unfit(n) ==
    /\ parent[n] # n
    /\ ann[n][parent[n]] # None
    /\ \/ IsLoopOfChild(ann[n][parent[n]], n)
       \/ ann[n][parent[n]].root.key < n

(* While the reparent timer runs, handle_tree_announcement stores what it  *)
(* gets and looks no further, so a parent may turn unfit; a reparent task  *)
(* is then asleep, which will run parent_selection.                        *)
UnfitParentIsReconsidered ==
    \A n \in Node : Unfit(n) => tasks[n].sleep > 0

(* Stored, queued or about to be handled: no announcement carries a        *)
(* sequence number that its root has not handed out, whatever was          *)
(* disconnected, delayed or overtaken.                                     *)
Issued(a) == a.root.seq <= sequence[a.root.key]
SequenceIsIssued ==
    \A n, m \in Node :
        /\ ann[n][m] # None => Issued(ann[n][m])
        /\ first[n][m] # None => Issued(first[n][m])
        /\ \A i \in DOMAIN net[n][m] : Issued(net[n][m][i])

(* A first frame that connect() handles late may be older than the frames  *)
(* the peer task handled before it: what a router stores of a peer never   *)
(* goes back to an earlier sequence number of the same root.               *)
SequenceNeverRegresses ==
    [][\A n, m \in Node :
        /\ ann[n][m] # None /\ ann'[n][m] # None
        /\ ann'[n][m].root.key = ann[n][m].root.key
        => ann'[n][m].root.seq >= ann[n][m].root.seq]_vars

(* At rest the parents never form a ring, also after peerings broke: no    *)
(* set of routers has all its parents, other than itself, inside.          *)
NoRingAtRest ==
    Quiet => \A S \in (SUBSET Node) \ {{}} :
                \E n \in S : parent[n] = n \/ parent[n] \notin S

-----------------------------------------------------------------------------
(* Convergence.                                                            *)

(* Every router follows the same root and sequence number, and the path    *)
(* its announcement names is its parent's path, prolonged.                 *)
OneTree ==
    /\ \A n, m \in Node : Current(n).root = Current(m).root
    /\ \A n \in Node : parent[n] # n =>
          Current(n).sigs = Append(Current(parent[n]).sigs, parent[n])

Joined == \A l \in Link : conn[l[1]][l[2]] = "up"

(* Once the links are up and nothing is under way, there is one tree: no   *)
(* router waits for an announcement that nobody will send before the next  *)
(* tick, half an hour later.                                               *)
OneTreeAtRest == Quiet /\ Joined => OneTree

(* The announcements stop: once every link is up, there is eventually one  *)
(* tree.                                                                   *)
Converges == Joined ~> OneTree

(* A parent that is gone, timed out or unfit is eventually left, or its    *)
(* place in the table is made good.                                        *)
Lost(n) ==
    /\ parent[n] # n
    /\ parent[n] \notin Peers(n) \/ parent[n] \in expired[n] \/ Unfit(n)
LostParentIsLeft == \A n \in Node : Lost(n) ~> ~ Lost(n)

-----------------------------------------------------------------------------
(* What comments in the code say, and the code does not do.                *)

(* router.rs 656-663, "AcceptUpdate ... Announcement has higher sequence.  *)
(* Forwarding to peers": a newer announcement of the parent, without a     *)
(* loop, is no reason to leave it.                                         *)
NewerFromParentIsAccepted ==
    [][\A n \in Node : LET p == parent[n] IN
        /\ p # n /\ ann[n][p] # None /\ ann'[n][p] # None
        /\ Stronger(ann'[n][p].root, ann[n][p].root)
        /\ ~ IsLoopOfChild(ann'[n][p], n)
        => parent'[n] = p]_vars

=============================================================================
