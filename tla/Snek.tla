-------------------------------- MODULE Snek --------------------------------
(***************************************************************************)
(* The snake of rust_pinecone: each router keeps a path to the router with *)
(* the next higher key (its ascending path) and one from the next lower    *)
(* key (its descending path); the routers in between keep an entry for it  *)
(* (src/src/router.rs, maintain_snek .. teardown_path, and handle_frame).  *)
(* A router bootstraps towards its own key; whoever is closest answers;    *)
(* the setup and its acknowledgement then install the path hop by hop.     *)
(*                                                                         *)
(* Each handler of a router is one action, spawned teardown tasks are      *)
(* actions of their own, and every interleaving of routers is possible.    *)
(*                                                                         *)
(* Abstracted: ports in path entries are the peers they lead to, port 0    *)
(* the router itself; of each frame only the fields some handler reads;    *)
(* path ids, random 64-bit numbers, are ids not in use, each router        *)
(* drawing its own; last_seen is the set `expired' of the paths past       *)
(* SNEK_EXPIRY_PERIOD.                                                     *)
(***************************************************************************)
EXTENDS TreeView

CONSTANTS Ids,      \* bound: the numbers of the path ids of one router
          Breakable, \* bound: the links that may break, one of them
          Ageing,   \* the routers whose paths may expire
          Prompt,   \* timing: nothing of a path is under way any more when
                    \* it is taken for abandoned, after 5 seconds
          Calm      \* timing: what a router asked for is answered before its
                    \* next maintain_snek, a second later, and the 30 minute
                    \* rounds of the root find the tree settled

ASSUME IdsAssumption == Ids \subseteq Nat
ASSUME TimingAssumption == Prompt \in BOOLEAN /\ Calm \in BOOLEAN

PathId == Node \X Ids
Index == [key : Node, id : PathId]
Path == [index : Index, origin : Node, target : Node, source : Node,
         destination : Node, root : Root, active : BOOLEAN]

Bootstrap == [kind : {"bootstrap"}, root : Root, coords : Seq(Nat), index : Index]
Ack       == [kind : {"ack"}, root : Root, dest : Seq(Nat), coords : Seq(Nat),
              by : Node, index : Index]
Setup     == [kind : {"setup"}, root : Root, dest : Seq(Nat), to : Node,
              index : Index]
SetupAck  == [kind : {"setup_ack"}, index : Index]
Teardown  == [kind : {"teardown"}, index : Index]
Frame     == Bootstrap \cup Ack \cup Setup \cup SetupAck \cup Teardown

Task == [from : Node, index : Index]

ASSUME NoPathAssumption == None \notin Path

VARIABLES
    paths,      \* paths[n]: the entries of n's table
    asc,        \* asc[n]: n's ascending path
    desc,       \* desc[n]: n's descending path
    candidate,  \* candidate[n]: the ascending path n has asked for
    expired,    \* expired[n]: indices of n's paths that are past their time
    tasks,      \* tasks[n]: spawned teardowns of n that have not run
    dead,       \* dead[n]: peers whose task at n has panicked; n itself: the
                \* task that calls maintain_snek
    net         \* net[n][m]: frames n sent that m has not read, oldest first

snake == <<paths, asc, desc, candidate, expired, tasks, dead, net>>
vars == <<tree, snake>>

TypeOK ==
    /\ TreeTypeOK
    /\ paths \in [Node -> SUBSET Path]
    /\ asc \in [Node -> Path \cup {None}]
    /\ desc \in [Node -> Path \cup {None}]
    /\ candidate \in [Node -> Path \cup {None}]
    /\ expired \in [Node -> SUBSET Index]
    /\ tasks \in [Node -> SUBSET Task]
    /\ dead \in [Node -> SUBSET Node]
    /\ net \in [Node -> [Node -> Seq(Frame)]]

Init ==
    /\ TreeInit
    /\ paths = [n \in Node |-> {}]
    /\ asc = [n \in Node |-> None]
    /\ desc = [n \in Node |-> None]
    /\ candidate = [n \in Node |-> None]
    /\ expired = [n \in Node |-> {}]
    /\ tasks = [n \in Node |-> {}]
    /\ dead = [n \in Node |-> {}]
    /\ net = [n \in Node |-> [m \in Node |-> <<>>]]

-----------------------------------------------------------------------------
(* Next hops.                                                              *)

Valid(n, p) == p.index \notin expired[n]

(* The hops next_tree_hop may return for a frame that came from `from'.    *)
TreeHops(n, dest, from) ==
    IF Arrived(Current(n), dest) THEN {n}
    ELSE Closest(ann[n], Current(n), peers[n], dest, from)

(* Mutant: the destination itself is passed by.                            *)
ImproveBeyond(best, C, dest, exact) ==
    LET Between == {c \in C : dest < c.key /\ c.key < best.key}
    IN IF Between = {} THEN {best}
       ELSE {c \in Between : \A b \in Between : c.key <= b.key}

(* A loop of next_snek_hop over the candidates C: records of a key and of  *)
(* the hop towards it.  It keeps the key closest above the destination;    *)
(* traffic (exact) stops at the destination itself.                        *)
Improve(best, C, dest, exact) ==
    LET At == {c \in C : exact /\ c.key = dest}
        Between == {c \in C : dest < c.key /\ c.key < best.key}
    IN IF At # {} /\ best.key # dest THEN At
       ELSE IF Between = {} THEN {best}
       ELSE {c \in Between : \A b \in Between : c.key <= b.key}

(* Towards the root through the parent, or nowhere.                        *)
StartHop(n, dest, bootstrap, traffic) ==
    LET root == Current(n).root.key
    IN IF /\ parent[n] # n
          /\ (bootstrap /\ n = dest) \/ (n < dest /\ dest < root)
       THEN [key |-> root, hop |-> parent[n]]
       ELSE [key |-> n, hop |-> IF traffic THEN None ELSE n]

Ancestors(n) ==
    IF parent[n] = n THEN {}
    ELSE {[key |-> Current(n).sigs[i].key, hop |-> parent[n]] :
            i \in DOMAIN Current(n).sigs}

AncestorsOfPeers(n) ==
    UNION {{[key |-> ann[n][m].sigs[i].key, hop |-> m] :
              i \in DOMAIN ann[n][m].sigs} : m \in {k \in Node : ann[n][k] # None}}

DirectPeer(n, c) == IF c.key \in peers[n] THEN [c EXCEPT !.hop = c.key] ELSE c

(* get_peer_on_port(..).unwrap() of a peer that was disconnected.          *)
Panic == -1

OnPort(n, m) == IF m \in peers[n] \cup {n} THEN m ELSE Panic

Entries(n, bootstrap) ==
    {[key |-> p.index.key, hop |-> OnPort(n, p.source)] :
       p \in {e \in paths[n] : Valid(n, e) /\ e.source # n /\ (bootstrap \/ e.active)}}

(* An entry that panics may come first and be better than what there was.  *)
ImproveByEntries(n, best, dest, bootstrap) ==
    LET C == Entries(n, bootstrap)
    IN Improve(best, C, dest, ~ bootstrap)
       \cup UNION {Improve(best, {c}, dest, ~ bootstrap) \ {best} :
                     c \in {e \in C : e.hop = Panic}}

(* The maps are iterated in any order: the hops that may come out.         *)
SnekHops(n, dest, bootstrap, traffic) ==
    IF ~ bootstrap /\ n = dest THEN {n}
    ELSE LET start == StartHop(n, dest, bootstrap, traffic)
             up    == Improve(start, Ancestors(n), dest, ~ bootstrap)
             via   == UNION {Improve(c, AncestorsOfPeers(n), dest, ~ bootstrap) : c \in up}
             last  == UNION {ImproveByEntries(n, DirectPeer(n, c), dest, bootstrap) :
                               c \in via}
         IN {c.hop : c \in last}

-----------------------------------------------------------------------------
(* Sending.  Frames of the protocol that a router sends to itself, or to a *)
(* router it has no connection with, are dropped.                          *)
Connected(n, m) == m \in peers[n] /\ n \in peers[m]
Send(q, n, m, f) == IF Connected(n, m) THEN [q EXCEPT ![n][m] = Append(@, f)] ELSE q

TeardownOf(i) == [kind |-> "teardown", index |-> i]

Spawn(n, I) == [tasks EXCEPT ![n] = @ \cup {[from |-> n, index |-> i] : i \in I}]

Indices(S) == {p.index : p \in S}
Without(S, i) == {p \in S : p.index # i}

-----------------------------------------------------------------------------
(* Bootstraps.                                                             *)

(* Path ids are random: never one that is about, for whatever key.         *)
InUse(id) ==
    \/ \E n \in Node :
        \/ \E p \in paths[n] \cup ({asc[n], desc[n], candidate[n]} \ {None}) :
              p.index.id = id
        \/ \E t \in tasks[n] : t.index.id = id
    \/ \E n, m \in Node : \E j \in DOMAIN net[n][m] : net[n][m][j].index.id = id

NewIds(k) ==
    LET Free == {i \in Ids : ~ InUse(<<k, i>>)}
    IN {<<k, i>> : i \in {j \in Free : \A l \in Free : j <= l}}

Die(n, ms) == [dead EXCEPT ![n] = @ \cup ms]

(* bootstrap_now, the last thing its callers do: it reads the state they   *)
(* leave behind.  When it panics, the task that called it ends: who, of    *)
(* those that `dead' tells of.                                             *)
BootstrapNow(n, q, who) ==
    IF parent'[n] = n \/ (asc'[n] # None /\ asc'[n].root = Current(n)'.root)
    THEN net' = q /\ UNCHANGED dead
    ELSE \E i \in NewIds(n), h \in SnekHops(n, n, TRUE, FALSE)' :
            LET f == [kind |-> "bootstrap", root |-> Current(n)'.root,
                      coords |-> Coordinates(Current(n)'.sigs),
                      index |-> [key |-> n, id |-> i]]
            IN /\ net' = IF Connected(n, h)' THEN [q EXCEPT ![n][h] = Append(@, f)] ELSE q
               /\ dead' = IF h = Panic THEN Die(n, who) ELSE dead

(* handle_bootstrap: the acknowledgement goes back by tree routing.        *)
HandleBootstrap(n, f, q) ==
    \/ /\ Current(n).root # f.root \/ TreeHops(n, f.coords, n) = {}
       /\ net' = q
    \/ /\ Current(n).root = f.root
       /\ \E h \in TreeHops(n, f.coords, n) :
            net' = Send(q, n, h, [kind |-> "ack", root |-> f.root, dest |-> f.coords,
                                  coords |-> Coordinates(Current(n).sigs),
                                  by |-> n, index |-> f.index])

ReceiveBootstrap(n, m, f, q) ==
    /\ \E h \in SnekHops(n, f.index.key, TRUE, FALSE) :
        /\ IF h = n THEN HandleBootstrap(n, f, q) ELSE net' = Send(q, n, h, f)
        /\ dead' = IF h = Panic THEN Die(n, {m}) ELSE dead
    /\ UNCHANGED <<paths, asc, desc, candidate, expired, tasks>>

(* Whether the router that answered becomes the ascending node.            *)
AcceptsAck(n, f) ==
    /\ f.by # n
    /\ f.root = Current(n).root
    /\ IF asc[n] # None /\ Valid(n, asc[n])
       THEN \/ asc[n].origin = f.by /\ asc[n].index.id # f.index.id
            \/ n < f.by /\ f.by < asc[n].origin
       ELSE n < f.by

(* handle_bootstrap_ack.  All other paths that start here are torn down,   *)
(* also those to the same node: their keys are all n, never f.by.          *)
HandleBootstrapAck(n, f, q) ==
    IF ~ AcceptsAck(n, f) \/ TreeHops(n, f.coords, n) \in {{}, {n}}
    THEN net' = q /\ UNCHANGED <<paths, asc, desc, candidate, expired, tasks, dead>>
    ELSE \E h \in TreeHops(n, f.coords, n) :
        LET i == [key |-> n, id |-> f.index.id]
            entry == [index |-> i, origin |-> f.by, target |-> f.by, source |-> n,
                      destination |-> h, root |-> f.root, active |-> FALSE]
        IN /\ net' = Send(q, n, h, [kind |-> "setup", root |-> f.root,
                                    dest |-> f.coords, to |-> f.by, index |-> i])
           /\ tasks' = Spawn(n, {p.index : p \in {e \in paths[n] :
                                    e.source = n /\ e.index.key # f.by}})
           /\ paths' = [paths EXCEPT ![n] = Without(@, i) \cup {entry}]
           /\ candidate' = [candidate EXCEPT ![n] = [entry EXCEPT !.active = TRUE]]
           /\ expired' = [expired EXCEPT ![n] = @ \ {i}]
           /\ UNCHANGED <<asc, desc, dead>>

ReceiveAck(n, m, f, q) ==
    LET hops == TreeHops(n, f.dest, m)
    IN IF n \in hops THEN HandleBootstrapAck(n, f, q)
       ELSE /\ IF hops = {} THEN net' = q
               ELSE \E h \in hops : net' = Send(q, n, h, f)
            /\ UNCHANGED <<paths, asc, desc, candidate, expired, tasks, dead>>

-----------------------------------------------------------------------------
(* Path setup.                                                             *)

(* Mutant: a closer router does not take over.                             *)
AcceptsSetupFirst(n, f) ==
    /\ f.root = Current(n).root
    /\ f.index.key < n
    /\ desc[n] # None /\ Valid(n, desc[n]) => desc[n].index.key = f.index.key

(* At the destination: whether the path becomes the descending path.       *)
AcceptsSetup(n, f) ==
    /\ f.root = Current(n).root
    /\ f.index.key < n
    /\ desc[n] # None /\ Valid(n, desc[n]) =>
        \/ desc[n].index.key = f.index.key /\ desc[n].index.id # f.index.id
        \/ desc[n].index.key < f.index.key

(* The path that an accepted one replaces.                                 *)
ReplacedPathKept(n) == {}       \* mutant: it is left alone
ReplacedPath(n) == IF desc[n] = None THEN {} ELSE {desc[n].index}

Install(n, f, source, destination, active) ==
    LET entry == [index |-> f.index, origin |-> f.index.key, target |-> f.to,
                  source |-> source, destination |-> destination,
                  root |-> f.root, active |-> active]
    IN /\ paths' = [paths EXCEPT ![n] = @ \cup {entry}]
       /\ expired' = [expired EXCEPT ![n] = @ \ {f.index}]
       /\ desc' = IF active THEN [desc EXCEPT ![n] = entry] ELSE desc

(* handle_setup of f from m, with the next hop h.  A setup for another     *)
(* root is answered with a teardown, and then handled all the same.        *)
HandleSetup(n, m, f, h, q) ==
    LET reject == TeardownOf(f.index)
        r == IF f.root = Current(n).root THEN q ELSE Send(q, n, m, reject)
    IN /\ \/ /\ f.index \in Indices(paths[n])
             /\ net' = Send(r, n, m, reject)
             /\ tasks' = Spawn(n, {f.index})
             /\ UNCHANGED <<paths, desc, expired>>
          \/ /\ f.index \notin Indices(paths[n])
             /\ IF f.to = n THEN ~ AcceptsSetup(n, f) ELSE h = n
             /\ net' = Send(r, n, m, reject)
             /\ UNCHANGED <<paths, desc, expired, tasks>>
          \/ /\ f.index \notin Indices(paths[n])
             /\ f.to = n /\ AcceptsSetup(n, f)
             /\ tasks' = Spawn(n, ReplacedPath(n))
             /\ Install(n, f, m, n, TRUE)
             /\ net' = Send(r, n, m, [kind |-> "setup_ack", index |-> f.index])
          \/ /\ f.index \notin Indices(paths[n])
             /\ f.to # n /\ h # n
             /\ Install(n, f, m, h, FALSE)
             /\ net' = Send(r, n, h, f)
             /\ UNCHANGED tasks
       /\ UNCHANGED <<asc, candidate, dead>>

(* The task of the peer panics in next_tree_hop(..).unwrap().              *)
ReceiveSetup(n, m, f, q) ==
    \/ /\ TreeHops(n, f.dest, m) = {}
       /\ dead' = Die(n, {m})
       /\ net' = q
       /\ UNCHANGED <<paths, asc, desc, candidate, expired, tasks>>
    \/ \E h \in TreeHops(n, f.dest, m) : HandleSetup(n, m, f, h, q)

(* handle_setup_ack: the entry that waits for it becomes active, and the   *)
(* candidate the ascending path.                                           *)
Awaiting(n, m, i) ==
    {p \in paths[n] : p.index = i /\ ~ p.active /\ p.destination = m}

HandleSetupAck(n, m, f, q) ==
    LET waiting == Awaiting(n, m, f.index)
        activated == {[p EXCEPT !.active = TRUE] : p \in waiting}
        mine == {p \in activated : p = candidate[n]}
    IN /\ paths' = [paths EXCEPT ![n] = (@ \ waiting) \cup activated]
       /\ net' = IF waiting = {} THEN q
                 ELSE Send(q, n, (CHOOSE p \in waiting : TRUE).source, f)
       /\ asc' = IF mine = {} THEN asc ELSE [asc EXCEPT ![n] = candidate[n]]
       /\ candidate' = IF mine = {} THEN candidate ELSE [candidate EXCEPT ![n] = None]
       /\ UNCHANGED <<desc, expired, tasks, dead>>

(* The peer it has to be sent on to was disconnected: unwrap() panics.     *)
ReceiveSetupAck(n, m, f, q) ==
    IF \E p \in Awaiting(n, m, f.index) : OnPort(n, p.source) = Panic
    THEN /\ dead' = Die(n, {m})
         /\ net' = q
         /\ UNCHANGED <<paths, asc, desc, candidate, expired, tasks>>
    ELSE HandleSetupAck(n, m, f, q)

-----------------------------------------------------------------------------
(* Teardown.                                                               *)

(* teardown_path for a teardown from m, or from n itself (port 0), and the *)
(* routers it returns, to be told of it.                                   *)
TearsAscending(n, m, i) ==
    asc[n] # None /\ asc[n].index = i /\ m \in {asc[n].destination, n}
TearsDescending(n, m, i) ==
    /\ desc[n] # None /\ desc[n].index = i /\ m \in {desc[n].destination, n}
    /\ ~ TearsAscending(n, m, i)
TornEntries(n, m, i) ==
    {p \in paths[n] : p.index = i /\ m \in {p.source, p.destination, n}}

(* Mutant: only the entry goes.                                            *)
TeardownPathOfEntry(n, m, i) ==
    /\ paths' = [paths EXCEPT ![n] = @ \ TornEntries(n, m, i)]
    /\ UNCHANGED <<asc, desc>>

TeardownPath(n, m, i) ==
    /\ paths' = [paths EXCEPT ![n] =
            IF TearsAscending(n, m, i) \/ TearsDescending(n, m, i)
            THEN Without(@, i) ELSE @ \ TornEntries(n, m, i)]
    /\ asc' = IF TearsAscending(n, m, i) THEN [asc EXCEPT ![n] = None] ELSE asc
    /\ desc' = IF TearsDescending(n, m, i) THEN [desc EXCEPT ![n] = None] ELSE desc

(* Mutant: the side the path comes from is not told.                       *)
ToTellOfTeardownAhead(n, m, i) ==
    IF TearsAscending(n, m, i) THEN {asc[n].destination}
    ELSE {p.destination : p \in TornEntries(n, m, i)}

ToTellOfTeardown(n, m, i) ==
    IF TearsAscending(n, m, i) THEN {asc[n].destination}
    ELSE IF TearsDescending(n, m, i) THEN {desc[n].destination}
    ELSE UNION {IF m = n THEN {p.source, p.destination}
                ELSE {p.source, p.destination} \ {m} : p \in TornEntries(n, m, i)}

(* handle_teardown: nobody is told.                                        *)
HandleTeardown(n, m, f, q) ==
    /\ TeardownPath(n, m, f.index)
    /\ net' = q
    /\ UNCHANGED <<candidate, expired, tasks, dead>>

(* The routers that the task sends to, the one ahead first: at the first   *)
(* that was disconnected it panics.                                        *)
Told(n, t) ==
    IF t.from = n /\ \E p \in TornEntries(n, n, t.index) : OnPort(n, p.destination) = Panic
    THEN {} ELSE {m \in ToTellOfTeardown(n, t.from, t.index) : Connected(n, m)}

(* The task that send_teardown_for_existing_path spawned.                  *)
RunTeardown(n, t) ==
    /\ t \in tasks[n]
    /\ TeardownPath(n, t.from, t.index)
    /\ net' = [net EXCEPT ![n] = [m \in Node |->
            IF m \in Told(n, t) THEN Append(net[n][m], TeardownOf(t.index)) ELSE net[n][m]]]
    /\ tasks' = [tasks EXCEPT ![n] = @ \ {t}]
    /\ UNCHANGED <<tree, candidate, expired, dead>>

-----------------------------------------------------------------------------
(* handle_frame, in the task of peer m.                                    *)
PollPeer(n, m) ==
    /\ m \in peers[n] /\ m \notin dead[n]
    /\ net[m][n] # <<>>
    /\ LET f == Head(net[m][n])
           q == [net EXCEPT ![m][n] = Tail(@)]
       IN \/ f.kind = "bootstrap" /\ ReceiveBootstrap(n, m, f, q)
          \/ f.kind = "ack" /\ ReceiveAck(n, m, f, q)
          \/ f.kind = "setup" /\ ReceiveSetup(n, m, f, q)
          \/ f.kind = "setup_ack" /\ ReceiveSetupAck(n, m, f, q)
          \/ f.kind = "teardown" /\ HandleTeardown(n, m, f, q)
    /\ UNCHANGED tree

(* Nothing is under way; nothing that n has asked for is under way.        *)
Quiet == \A n, m \in Node :
            /\ net[m][n] = <<>> \/ m \in dead[n]
            /\ tasks[n] = {}
            /\ m \in peers[n] => n \in peers[m]
Answered(n) ==
    /\ tasks[n] = {}
    /\ \A m, k \in Node : m \notin dead[k] =>
          \A j \in DOMAIN net[m][k] : net[m][k][j].index.key # n

Underway(i) == \E n, m \in Node : \E j \in DOMAIN net[n][m] : net[n][m][j].index = i

(* maintain_snek.  Inactive entries are torn down once older than 5 s.     *)
Abandoned(n) == {p \in paths[n] : ~ p.active /\ (Prompt => ~ Underway(p.index))}

CanBootstrap(n) == parent[n] # n /\ Current(n).root.key # n

WillBootstrap(n) ==
    /\ CanBootstrap(n)
    /\ asc[n] # None => ~ Valid(n, asc[n]) \/ asc[n].root # Current(n).root

MaintainSnek(n) ==
    /\ n \notin dead[n]
    /\ Calm => Answered(n)
    /\ UNCHANGED <<tree, paths, asc, desc, candidate, expired>>
    /\ \E old \in SUBSET Abandoned(n) :
        tasks' = Spawn(n, Indices(old) \cup
                    {p.index : p \in {e \in {asc[n], desc[n]} : e # None /\ ~ Valid(n, e)}})
    /\ IF WillBootstrap(n) THEN BootstrapNow(n, net, {n}) ELSE UNCHANGED <<net, dead>>

PathExpires(n, i) ==
    /\ n \in Ageing /\ i \notin expired[n]
    /\ i \in Indices(paths[n] \cup ({asc[n], desc[n]} \ {None}))
    /\ expired' = [expired EXCEPT ![n] = @ \cup {i}]
    /\ UNCHANGED <<tree, paths, asc, desc, candidate, tasks, dead, net>>

(* A parent selection that finds a parent is followed by a bootstrap.      *)
ReselectAndBootstrap(n) ==
    /\ Reselect(n)
    /\ UNCHANGED <<paths, asc, desc, candidate, expired, tasks>>
    /\ BootstrapNow(n, net, {})

-----------------------------------------------------------------------------
(* disconnect_peer(m): by the user, on an error, or because m has closed   *)
(* and all it sent is read.                                                *)

Broken == {l \in Link : l[2] \notin peers[l[1]]}

Disconnects(n, m) ==
    /\ m \in peers[n]
    /\ \/ <<n, m>> \in Breakable /\ Broken \subseteq {<<m, n>>}
       \/ n \notin peers[m] /\ m \notin dead[n] /\ net[m][n] = <<>>

(* Mutant: only the paths that lead on through m.                          *)
OverAhead(n, m) == {p \in paths[n] : m = p.destination}

(* Paths over m are torn down by tasks, in the other direction.            *)
Over(n, m) == {p \in paths[n] : m \in {p.source, p.destination}}

(* The ascending path is torn down at once.  The test of the descending    *)
(* path is of its destination, which is never a peer.                      *)
LosesAscending(n, m) == asc[n] # None /\ asc[n].destination = m

(* A lost parent is replaced, unless the ascending path was lost too.      *)
ReplaceParent(n, m) ==
    LET best == Strongest(n, peers[n] \ {m})
    IN IF parent[n] # m \/ LosesAscending(n, m) THEN parent' = parent
       ELSE IF best = {} THEN parent' = [parent EXCEPT ![n] = n]
       ELSE \E k \in best : parent' = [parent EXCEPT ![n] = k]

DisconnectPeer(n, m) ==
    /\ Disconnects(n, m)
    /\ tasks' = [tasks EXCEPT ![n] = @ \cup
            {[from |-> m, index |-> p.index] : p \in Over(n, m)}]
    /\ IF LosesAscending(n, m)
       THEN TeardownPath(n, n, asc[n].index)
       ELSE UNCHANGED <<paths, asc, desc>>
    /\ peers' = [peers EXCEPT ![n] = @ \ {m}]
    /\ ann' = [ann EXCEPT ![n][m] = None]
    /\ ReplaceParent(n, m)
    /\ UNCHANGED <<sequence, candidate, expired>>
    /\ LET q == [net EXCEPT ![m][n] = <<>>]
       IN IF LosesAscending(n, m) \/ parent' # parent
          THEN BootstrapNow(n, q, {}) ELSE net' = q /\ UNCHANGED dead

TreeStep ==
    /\ \/ \E n, m \in Node : m \notin dead[n] /\ Hear(n, m)
       \/ (Calm => Settled) /\ \E n \in Node : Tick(n)
    /\ UNCHANGED snake

Next ==
    \/ TreeStep
    \/ \E n, m \in Node : PollPeer(n, m)
    \/ \E n \in Node :
        \/ ReselectAndBootstrap(n)
        \/ MaintainSnek(n)
        \/ \E t \in tasks[n] : RunTeardown(n, t)
        \/ \E m \in Node : DisconnectPeer(n, m)
        \/ \E i \in Index : PathExpires(n, i)

Spec == Init /\ [][Next]_vars

(* Every task is scheduled: that of each peer, the maintain_snek ticker,   *)
(* the spawned teardowns, and the reparent task that ends in a bootstrap.  *)
FairSpec ==
    /\ Spec
    /\ WF_vars(TreeStep)
    /\ \A n, m \in Node :
        /\ WF_vars(PollPeer(n, m))
        /\ WF_vars(n \notin peers[m] /\ DisconnectPeer(n, m))
    /\ \A n \in Node :
        /\ WF_vars(MaintainSnek(n))
        /\ WF_vars(ReselectAndBootstrap(n))
        /\ WF_vars(\E t \in tasks[n] : RunTeardown(n, t))

-----------------------------------------------------------------------------
(* Properties.                                                             *)

(* The ascending path is in the table too, active: routing reads the       *)
(* table, maintain_snek the path.  Two handlers and the teardown tasks     *)
(* change them, with other paths of the same router coming and going.      *)
AscendingIsInstalled == \A n \in Node : asc[n] # None => asc[n] \in paths[n]

(* When nothing is under way, an ascending path leads to its end: each     *)
(* router on it holds an active entry, and the next one an entry that      *)
(* comes from there.                                                       *)
PathsAreWhole ==
    Quiet =>
        \A n \in {m \in Node : asc[m] # None} :
            /\ asc[n].index \in Indices(paths[n])
            /\ \A h \in Node : \A p \in paths[h] :
                p.index = asc[n].index =>
                    /\ p.active
                    /\ \/ h = asc[n].origin
                       \/ \E q \in paths[p.destination] :
                            q.index = p.index /\ q.source = h

(* A path over a peering that is gone stays in the table only until a task *)
(* of disconnect_peer for that peering has run, or one that tears it down  *)
(* from here, whatever setups and acknowledgements were under way; as the  *)
(* ascending path it does not stay at all.                                 *)
PathsUsePeers ==
    \A n \in Node :
        /\ asc[n] # None => asc[n].destination \in peers[n]
        /\ \A p \in paths[n] :
            \A m \in {p.source, p.destination} \ (peers[n] \cup {n}) :
                \E t \in tasks[n] : t.index = p.index /\ t.from \in {m, n}

(* Nothing is under way, and no router will bootstrap before something     *)
(* changes.                                                                *)
AtRest == Quiet /\ Settled /\ \A n \in Node : ~ WillBootstrap(n)

Successor(n) == CHOOSE m \in Node : m > n /\ \A k \in Node : k > n => m <= k

HasSuccessor(n) ==
    (\E m \in Node : m > n) => asc[n] # None /\ asc[n].origin = Successor(n)

(* The snake comes to rest only in the order of the keys: each router      *)
(* found the next higher one, whatever it had accepted before.             *)
SnakeIsOrdered == AtRest => \A n \in Node : HasSuccessor(n)

(* Once the rounds of the root stop, every router gets the ascending path  *)
(* to the next higher key and keeps it: whoever it found too early is      *)
(* replaced.  This is so unless the task of a peer panics.                 *)
SnakeForms ==
    <>[](\A n \in Node : HasSuccessor(n)) \/ <>(\E n \in Node : dead[n] # {})

(* At rest, traffic by key (Frame::SnekRouted) arrives from anywhere and   *)
(* whatever order the maps are iterated in, and passes no router twice.    *)
Arrives(n, d) ==
    LET at[k \in 0 .. Cardinality(Node) - 1] ==
            IF k = 0 THEN {n}
            ELSE UNION {IF m \in {d, None} THEN {m} ELSE SnekHops(m, d, FALSE, TRUE) :
                          m \in at[k - 1]}
    IN at[Cardinality(Node) - 1] = {d}

TrafficArrives == AtRest => \A n, d \in Node : Arrives(n, d)

=============================================================================
