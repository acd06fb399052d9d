------------------------------ MODULE Peerings ------------------------------
(***************************************************************************)
(* The table of a router's peerings: the ports, the sockets of each peer,  *)
(* the connect() calls, peer tasks and disconnect_peer() calls that share  *)
(* it (src/src/router.rs, stop .. get_peer_on_port, and poll_peer).        *)
(*                                                                         *)
(* Each access to a map, under its lock, is a step of its own: between two *)
(* any other task may run.  What the router does with a frame is left out, *)
(* but for the errors and panics that end a peer task.  A connection's     *)
(* other end is the peer's router: it may send, close, and closes once it  *)
(* reads the end of the stream.                                            *)
(***************************************************************************)
EXTENDS Naturals, FiniteSets

CONSTANTS Peer,     \* the keys of the peers
          Conn,     \* the connections, each used in one connect() call
          PeerOf,   \* PeerOf[c]: the router at the other end of c
          User,     \* the disconnect_peer() calls of users
          Stopper,  \* the stop() calls
          Free, Reserved, None

ASSUME PeeringsAssumption ==
    /\ PeerOf \in [Conn -> Peer] /\ IsFiniteSet(Conn)
    /\ Conn \cap (User \cup Stopper) = {}
    /\ Free # Reserved
    /\ {Free, Reserved, None} \cap (Peer \cup Conn) = {}

Port == 1 .. Cardinality(Conn)

VARIABLES
    running,    \* the router was not stopped
    ports,      \* ports[i]: the peer on port i, or Reserved by connect()
    up, down,   \* up[p], down[p]: the connection whose halves p has
    at,         \* at[c]: where connect() is with connection c
    task,       \* task[c]: the peer task spawned for c: where it is
    polled,     \* polled[c]: the connection that task waits for
    remote,     \* remote[c]: the other end
    call,       \* call[x]: disconnect_peer() by task, user or stop x
    stopping,   \* stopping[s]: the peers stop() has yet to disconnect
    raced       \* history: two calls were about to remove one peer's port

table == <<ports, up, down>>
vars == <<running, ports, up, down, at, task, polled, remote, call,
          stopping, raced>>

Caller == Conn \cup User \cup Stopper
NoCall == [pc |-> "idle", peer |-> None, port |-> 0]
Over == [NoCall EXCEPT !.pc = "done"]

TypeOK ==
    /\ running \in BOOLEAN /\ raced \in BOOLEAN
    /\ ports \in [Port -> Peer \cup {Free, Reserved}]
    /\ up \in [Peer -> Conn \cup {None}]
    /\ down \in [Peer -> Conn \cup {None}]
    /\ at \in [Conn -> {"idle", "reserved", "named", "added", "done",
                        "failed", "refused"}]
    /\ task \in [Conn -> {"none", "looping", "polling", "leaving", "ended",
                          "panicked"}]
    /\ polled \in [Conn -> Conn \cup {None}]
    /\ \A c \in Conn : (polled[c] # None) = (task[c] = "polling")
    /\ remote \in [Conn -> {"open", "closed"}]
    /\ call \in [Caller -> [pc : {"idle", "lookup", "port", "up", "down", "done"},
                            peer : Peer \cup {None}, port : Port \cup {0}]]
    /\ stopping \in [Stopper -> (SUBSET Peer) \cup {None}]

Init ==
    /\ running = TRUE
    /\ ports = [i \in Port |-> Free]
    /\ up = [p \in Peer |-> None]
    /\ down = [p \in Peer |-> None]
    /\ at = [c \in Conn |-> "idle"]
    /\ task = [c \in Conn |-> "none"]
    /\ polled = [c \in Conn |-> None]
    /\ remote = [c \in Conn |-> "open"]
    /\ call = [x \in Caller |-> NoCall]
    /\ stopping = [s \in Stopper |-> None]
    /\ raced = FALSE

PortsOf(p) == {i \in Port : ports[i] = p}

-----------------------------------------------------------------------------
(* connect() and add_peer().                                               *)

(* Mutant: a port that is reserved for nobody yet counts as free.          *)
FreePortsUnnamed == {i \in Port : ports[i] \notin Peer}

FreePorts == {i \in Port : ports[i] = Free}

(* get_new_port: the first free number.                                    *)
ReservePort(c) ==
    /\ at[c] = "idle"
    /\ \E i \in FreePorts :
          /\ \A j \in FreePorts : i <= j
          /\ ports' = [ports EXCEPT ![i] = Reserved]
          /\ call' = [call EXCEPT ![c].port = i]
    /\ at' = [at EXCEPT ![c] = "reserved"]
    /\ UNCHANGED <<running, up, down, task, polled, remote, stopping, raced>>

(* Mutant: a connect() that fails gives its port back.                     *)
FailTidily(c) ==
    /\ at[c] = "reserved"
    /\ at' = [at EXCEPT ![c] = "failed"]
    /\ call' = [call EXCEPT ![c] = NoCall]
    /\ ports' = [ports EXCEPT ![call[c].port] = Free]
    /\ UNCHANGED <<running, up, down, task, polled, remote, stopping, raced>>

(* The announcement cannot be sent, or what comes first is an error, the   *)
(* end of the stream, another frame or an unsigned one.                    *)
Fail(c) ==
    /\ at[c] = "reserved"
    /\ at' = [at EXCEPT ![c] = "failed"]
    /\ call' = [call EXCEPT ![c] = NoCall]
    /\ UNCHANGED <<running, table, task, polled, remote, stopping, raced>>

(* The first frame names the peer.                                         *)
NamePort(c) ==
    /\ at[c] = "reserved"
    /\ at' = [at EXCEPT ![c] = "named"]
    /\ ports' = [ports EXCEPT ![call[c].port] = PeerOf[c]]
    /\ UNCHANGED <<running, up, down, task, polled, remote, call, stopping, raced>>

(* Both maps are locked at once.  A peer that is there already is refused, *)
(* and keeps the port.                                                     *)
AddSockets(c) ==
    /\ at[c] = "named"
    /\ IF down[PeerOf[c]] # None \/ up[PeerOf[c]] # None
       THEN /\ at' = [at EXCEPT ![c] = "refused"]
            /\ call' = [call EXCEPT ![c] = NoCall]
            /\ UNCHANGED <<up, down>>
       ELSE /\ at' = [at EXCEPT ![c] = "added"]
            /\ up' = [up EXCEPT ![PeerOf[c]] = c]
            /\ UNCHANGED call
            /\ down' = [down EXCEPT ![PeerOf[c]] = c]
    /\ UNCHANGED <<running, ports, task, polled, remote, stopping, raced>>

(* The port is named once more, and the peer task spawned.                 *)
SpawnPeer(c) ==
    /\ at[c] = "added"
    /\ at' = [at EXCEPT ![c] = "done"]
    /\ ports' = [ports EXCEPT ![call[c].port] = PeerOf[c]]
    /\ call' = [call EXCEPT ![c] = NoCall]
    /\ task' = [task EXCEPT ![c] = "looping"]
    /\ UNCHANGED <<running, up, down, polled, remote, stopping, raced>>

-----------------------------------------------------------------------------
(* The peer task of spawn_peer and poll_peer.                              *)

Goes(c, where) == task' = [task EXCEPT ![c] = where]

(* Mutant: the task of a stopped router goes on.                           *)
PollStopped(c) ==
    /\ task[c] = "looping"
    /\ LET d == down[PeerOf[c]]
       IN IF d # None
          THEN Goes(c, "polling") /\ polled' = [polled EXCEPT ![c] = d]
          ELSE Goes(c, "leaving") /\ UNCHANGED polled
    /\ UNCHANGED <<running, table, at, remote, call, stopping, raced>>

(* Mutant: a socket that is not there is waited for.                       *)
PollAnyway(c) ==
    /\ task[c] = "looping"
    /\ IF running
       THEN Goes(c, "polling") /\ polled' = [polled EXCEPT ![c] = down[PeerOf[c]]]
       ELSE Goes(c, "leaving") /\ UNCHANGED polled
    /\ UNCHANGED <<running, table, at, remote, call, stopping, raced>>

(* It looks its socket up by the peer's key, each time anew.               *)
Poll(c) ==
    /\ task[c] = "looping"
    /\ LET d == down[PeerOf[c]]
       IN IF running /\ d # None
          THEN Goes(c, "polling") /\ polled' = [polled EXCEPT ![c] = d]
          ELSE Goes(c, "leaving") /\ UNCHANGED polled
    /\ UNCHANGED <<running, table, at, remote, call, stopping, raced>>

Polling(c) == task[c] = "polling"

Handles(c, where) ==
    /\ Polling(c) /\ remote[polled[c]] = "open"
    /\ Goes(c, where)
    /\ polled' = [polled EXCEPT ![c] = None]
    /\ UNCHANGED <<running, table, at, remote, call, stopping, raced>>

HandleFrame(c) == Handles(c, "looping")

(* The frame had to be sent on to a peer whose socket is broken: the task  *)
(* of the peer that it came from ends.                                     *)
ForwardFails(c) ==
    /\ \E p \in Peer : up[p] # None /\ remote[up[p]] = "closed"
    /\ Handles(c, "leaving")

(* port(from).unwrap() in the branches for setups, their acknowledgements  *)
(* and teardowns.                                                          *)
PeerTaskPanics(c) == PortsOf(PeerOf[c]) = {} /\ Handles(c, "panicked")

StreamEnds(c) ==
    /\ Polling(c) /\ remote[polled[c]] = "closed"
    /\ Goes(c, "leaving")
    /\ polled' = [polled EXCEPT ![c] = None]
    /\ UNCHANGED <<running, table, at, remote, call, stopping, raced>>

-----------------------------------------------------------------------------
(* disconnect_peer(), called by a peer task that ends, a user, or stop().  *)

Begin(x, p) == call' = [call EXCEPT ![x] = [pc |-> "lookup", peer |-> p, port |-> 0]]

(* Mutant: the task that ends leaves the table as it is.                   *)
TaskJustEnds(c) ==
    /\ task[c] = "leaving"
    /\ Goes(c, "ended")
    /\ UNCHANGED <<running, table, at, polled, remote, call, stopping, raced>>

TaskDisconnects(c) ==
    /\ task[c] = "leaving"
    /\ Goes(c, "ended")
    /\ Begin(c, PeerOf[c])
    /\ UNCHANGED <<running, table, at, polled, remote, stopping, raced>>

UserDisconnects(u, p) ==
    /\ u \in User /\ call[u].pc = "idle"
    /\ Begin(u, p)
    /\ UNCHANGED <<running, table, at, task, polled, remote, stopping, raced>>

(* stop() asks for the peers after it has cleared `running'.               *)
Stop(s) ==
    /\ stopping[s] = None /\ running' = FALSE
    /\ stopping' = [stopping EXCEPT ![s] = {p \in Peer : PortsOf(p) # {}}]
    /\ UNCHANGED <<table, at, task, polled, remote, call, raced>>

StopDisconnects(s, p) ==
    /\ stopping[s] # None /\ call[s].pc \in {"idle", "done"}
    /\ p \in stopping[s]
    /\ stopping' = [stopping EXCEPT ![s] = @ \ {p}]
    /\ Begin(s, p)
    /\ UNCHANGED <<running, table, at, task, polled, remote, raced>>

At(x, pc) == call[x].pc = pc
Goto(x, pc) == call' = [call EXCEPT ![x].pc = pc]

(* Port i is that of a connect() call that is not over, or one that        *)
(* another call has looked up and is about to remove.                      *)
InUse(x, i) ==
    \/ \E c \in Conn : at[c] \in {"named", "added"} /\ call[c].port = i
    \/ \E y \in Caller \ {x} : At(y, "port") /\ call[y].port = i

(* port(): any port that names the peer.  Before it is removed, paths over *)
(* it are torn down, which takes time.                                     *)
LookUpPort(x) ==
    /\ At(x, "lookup")
    /\ \/ /\ PortsOf(call[x].peer) = {}
          /\ Goto(x, "up")
          /\ UNCHANGED raced
       \/ \E i \in PortsOf(call[x].peer) :
             /\ call' = [call EXCEPT ![x].pc = "port", ![x].port = i]
             /\ raced' = (raced \/ InUse(x, i))
    /\ UNCHANGED <<running, table, at, task, polled, remote, stopping>>

RemovePort(x) ==
    /\ At(x, "port")
    /\ ports' = [ports EXCEPT ![call[x].port] = Free]
    /\ Goto(x, "up")
    /\ UNCHANGED <<running, up, down, at, task, polled, remote, stopping, raced>>

(* Mutant: the socket to write to stays.                                   *)
KeepUp(x) ==
    /\ At(x, "up")
    /\ Goto(x, "down")
    /\ UNCHANGED <<running, table, at, task, polled, remote, stopping, raced>>

RemoveUp(x) ==
    /\ At(x, "up")
    /\ up' = [up EXCEPT ![call[x].peer] = None]
    /\ Goto(x, "down")
    /\ UNCHANGED <<running, ports, down, at, task, polled, remote, stopping, raced>>

RemoveDown(x) ==
    /\ At(x, "down")
    /\ down' = [down EXCEPT ![call[x].peer] = None]
    /\ call' = [call EXCEPT ![x] = Over]
    /\ UNCHANGED <<running, ports, up, at, task, polled, remote, stopping, raced>>

-----------------------------------------------------------------------------
(* The other end of a connection.                                          *)

(* Our write half is gone: the peer's task reads the end of the stream.    *)
WriteHalfDropped(c) == at[c] \in {"added", "done"} /\ up[PeerOf[c]] # c

(* The end of the stream is what comes next.  Of a connection that is not  *)
(* in use any more this makes no difference.                               *)
RemoteCloses(c) ==
    /\ remote[c] = "open"
    /\ \/ at[c] = "named"
       \/ up[PeerOf[c]] = c
       \/ \E d \in Conn : polled[d] = c
    /\ remote' = [remote EXCEPT ![c] = "closed"]
    /\ UNCHANGED <<running, table, at, task, polled, call, stopping, raced>>

RemoteFollows(c) == WriteHalfDropped(c) /\ RemoteCloses(c)

-----------------------------------------------------------------------------

Connecting(c) ==
    ReservePort(c) \/ Fail(c) \/ NamePort(c) \/ AddSockets(c) \/ SpawnPeer(c)

PeerTask(c) ==
    \/ Poll(c) \/ HandleFrame(c) \/ ForwardFails(c) \/ PeerTaskPanics(c)
    \/ StreamEnds(c) \/ TaskDisconnects(c)

Disconnecting(x) == LookUpPort(x) \/ RemovePort(x) \/ RemoveUp(x) \/ RemoveDown(x)

Next ==
    \/ \E c \in Conn : Connecting(c) \/ PeerTask(c) \/ RemoteCloses(c)
    \/ \E x \in Caller : Disconnecting(x)
    \/ \E u \in User, p \in Peer : UserDisconnects(u, p)
    \/ \E s \in Stopper : Stop(s) \/ \E p \in Peer : StopDisconnects(s, p)

Spec == Init /\ [][Next]_vars

(* Calls and tasks go on, a peer closes when it reads our end of stream,   *)
(* and sends as long as it does not: the root's announcements reach every  *)
(* router, which sends them to all its peers.  Nobody has to connect,      *)
(* disconnect or stop, and connect() may wait for a first frame for ever.  *)
Fairness ==
    /\ \A c \in Conn :
        /\ WF_vars(AddSockets(c)) /\ WF_vars(SpawnPeer(c)) /\ WF_vars(Poll(c)) /\ WF_vars(StreamEnds(c))
        /\ WF_vars(HandleFrame(c))
        /\ WF_vars(TaskDisconnects(c)) /\ WF_vars(RemoteFollows(c))
    /\ \A x \in Caller : WF_vars(Disconnecting(x))
    /\ \A s \in Stopper, p \in Peer : WF_vars(StopDisconnects(s, p))

FairSpec == Spec /\ Fairness

-----------------------------------------------------------------------------

(* No call is under way, and no task has anything to do.                   *)
AtRest ==
    /\ \A c \in Conn : at[c] \in {"idle", "done", "failed", "refused"}
    /\ \A x \in Caller : call[x].pc \in {"idle", "done"}
    /\ \A c \in Conn : \/ task[c] \in {"none", "ended", "panicked"}
                       \/ Polling(c) /\ remote[polled[c]] = "open"

(* A task of p's panicked: nothing polls p's sockets any more.             *)
TaskPanicked(p) == \E c \in Conn : PeerOf[c] = p /\ task[c] = "panicked"

(* disconnect_peer looks a port up, tears down paths and then removes the  *)
(* port by its number, which connect() hands out again at once.  All the   *)
(* same, unless the port it found was in use by another call, every peer   *)
(* that is connected has a port of its own when nothing is under way.      *)
ConnectedHasPort ==
    AtRest /\ ~ raced => \A p \in Peer : down[p] # None => PortsOf(p) # {}

(* connect() names its port twice, before and after it adds the sockets,   *)
(* and its failures never give the port back: but for the same race, a     *)
(* port that is reserved when nothing is under way is one of a connect()   *)
(* that failed, and none of these is used by a later one.                  *)
ReservedAreOfFailed ==
    AtRest /\ ~ raced =>
        Cardinality(PortsOf(Reserved)) = Cardinality({c \in Conn : at[c] = "failed"})

(* What is connected is polled, whichever calls raced: when nothing is     *)
(* under way a read half is the one that a task of its peer waits for,     *)
(* unless such a task panicked.                                            *)
ConnectedIsPolled ==
    AtRest => \A p \in Peer : down[p] # None =>
        \/ TaskPanicked(p)
        \/ \E c \in Conn : PeerOf[c] = p /\ Polling(c) /\ polled[c] = down[p]

(* The maps of the two halves are filled together and emptied one after    *)
(* the other, by calls that overlap.  A peer never keeps one half only.    *)
HalvesMeet ==
    \A p \in Peer : up[p] # down[p] ~> up[p] = down[p] \/ TaskPanicked(p)

(* stop() lists the peers once, while connects and disconnections are      *)
(* under way: all the same every peering ends, but those whose task        *)
(* panicked.                                                               *)
StopEndsPeerings ==
    ~ running ~> \A p \in Peer : TaskPanicked(p) \/ (up[p] = None /\ down[p] = None)

(* A peering that the other end has closed leaves the table.               *)
DeadPeeringsLeave ==
    \A p \in Peer, c \in Conn :
        down[p] = c /\ remote[c] = "closed" ~> down[p] # c \/ TaskPanicked(p)

=============================================================================
