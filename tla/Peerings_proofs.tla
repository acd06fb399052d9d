--------------------------- MODULE Peerings_proofs ---------------------------
(***************************************************************************)
(* Proofs about Peerings, for any peers, any finite set of connections and *)
(* any number of users' and stop() calls.                                  *)
(***************************************************************************)
EXTENDS Peerings, FiniteSetTheorems, TLAPS

(* The parts of TypeOK: the table, the tasks, and the calls.               *)
TableOK ==
    /\ ports \in [Port -> Peer \cup {Free, Reserved}]
    /\ up \in [Peer -> Conn \cup {None}]
    /\ down \in [Peer -> Conn \cup {None}]

TasksOK ==
    /\ at \in [Conn -> {"idle", "reserved", "named", "added", "done",
                        "failed", "refused"}]
    /\ task \in [Conn -> {"none", "looping", "polling", "leaving", "ended",
                          "panicked"}]
    /\ polled \in [Conn -> Conn \cup {None}]
    /\ \A c \in Conn : (polled[c] # None) = (task[c] = "polling")

Calls == [pc : {"idle", "lookup", "port", "up", "down", "done"},
          peer : Peer \cup {None}, port : Port \cup {0}]

RestOK ==
    /\ running \in BOOLEAN /\ raced \in BOOLEAN
    /\ remote \in [Conn -> {"open", "closed"}]
    /\ stopping \in [Stopper -> (SUBSET Peer) \cup {None}]

CallsOK == call \in [Caller -> Calls]

LEMMA TypeParts == TypeOK <=> TableOK /\ TasksOK /\ RestOK /\ CallsOK
BY DEF TypeOK, TableOK, TasksOK, RestOK, CallsOK, Calls

LEMMA TypePartsNext == TypeOK' <=> TableOK' /\ TasksOK' /\ RestOK' /\ CallsOK'
BY DEF TypeOK, TableOK, TasksOK, RestOK, CallsOK, Calls

(* A connection's task is spawned when connect() is over, and calls        *)
(* disconnect_peer() once, when it ends.                                   *)
Active == {"lookup", "port", "up", "down"}
Connects(c) == at[c] \in {"reserved", "named", "added"}

CallOrder ==
    /\ \A c \in Conn : at[c] # "done" => task[c] = "none"
    /\ \A c \in Conn : task[c] # "ended" => call[c].pc = "idle"
    /\ \A c \in Conn : Connects(c) => call[c].port \in Port
    /\ \A x \in Caller : call[x].pc \in Active => call[x].peer \in Peer
    /\ \A x \in Caller : call[x].pc = "port" => call[x].port \in Port

(* What p's read half is: the task of that very connection has not yet     *)
(* left, or is in the disconnect_peer() call for p.                        *)
Served(c) ==
    \/ at[c] = "added"
    \/ /\ at[c] = "done"
       /\ \/ task[c] \in {"looping", "leaving", "panicked"}
          \/ task[c] = "polling" /\ polled[c] = c
          \/ task[c] = "ended" /\ call[c].pc \in Active /\ call[c].peer = PeerOf[c]

EachServed == \A p \in Peer : down[p] # None => PeerOf[down[p]] = p /\ Served(down[p])

(* Who a port belongs to while no race has been: to a connect() call under *)
(* way, or to a disconnect_peer() that has looked it up.                   *)
Owner(x, i) ==
    \/ x \in Conn /\ Connects(x) /\ call[x].port = i
    \/ call[x].pc = "port" /\ call[x].port = i

PortsOwned ==
    /\ \A c \in Conn : at[c] = "reserved" => ports[call[c].port] = Reserved
    /\ \A c \in Conn : at[c] \in {"named", "added"} => ports[call[c].port] = PeerOf[c]
    /\ \A x \in Caller : call[x].pc = "port" => ports[call[x].port] = call[x].peer
    /\ \A x, y \in Caller, i \in Port : Owner(x, i) /\ Owner(y, i) => x = y

(* A peer with a read half has a port, or a call that has removed it will  *)
(* remove the halves too.                                                  *)
LosesHalves(p) == \E x \in Caller : call[x].pc \in {"up", "down"} /\ call[x].peer = p

PortsKept == \A p \in Peer : down[p] # None => PortsOf(p) # {} \/ LosesHalves(p)

(* Reserved ports and connect() calls that have not named theirs.          *)
Unnamed == {c \in Conn : at[c] \in {"reserved", "failed"}}
ReservedCounted == Cardinality(PortsOf(Reserved)) = Cardinality(Unnamed)

IInv ==
    /\ TypeOK /\ CallOrder /\ EachServed
    /\ ~ raced => PortsOwned /\ PortsKept /\ ReservedCounted

-----------------------------------------------------------------------------
(* What the actions that several steps share do to the calls.              *)

LEMMA ConnCalls ==
    /\ \A c \in Conn : c \in Caller /\ PeerOf[c] \in Peer
    /\ \A u \in User : u \in Caller /\ u \notin Conn
    /\ \A s \in Stopper : s \in Caller /\ s \notin Conn
    /\ 0 \notin Port
BY PeeringsAssumption DEF Caller, Port

(* The steps of a connection's connect() call.                             *)
LEMMA ConnectingKeepsType ==
    ASSUME TypeOK, CallOrder, NEW c \in Conn, Connecting(c)
    PROVE  TypeOK'
<1> USE ConnCalls
<1>0. TableOK /\ TasksOK /\ RestOK /\ CallsOK
  BY TypeParts
<1>1. task[c] = "none" \/ at[c] = "done"
  BY DEF CallOrder
<1>2. RestOK'
  BY <1>0 DEF Connecting, ReservePort, Fail, NamePort, AddSockets, SpawnPeer, RestOK
<1>3. TableOK'
  BY <1>0 DEF Connecting, ReservePort, Fail, NamePort, AddSockets, SpawnPeer, TableOK,
              table, FreePorts
<1>4. TasksOK'
  BY <1>0, <1>1 DEF Connecting, ReservePort, Fail, NamePort, AddSockets, SpawnPeer,
                    TasksOK
<1>5. CallsOK'
  <2>1. CASE ReservePort(c)
    BY <1>0, <2>1 DEF ReservePort, FreePorts, CallsOK, Calls
  <2>2. CASE Fail(c) \/ NamePort(c) \/ AddSockets(c) \/ SpawnPeer(c)
    BY <1>0, <2>2 DEF Fail, NamePort, AddSockets, SpawnPeer, CallsOK, Calls, NoCall
  <2>3. QED
    BY <2>1, <2>2 DEF Connecting
<1>6. QED
  BY <1>2, <1>3, <1>4, <1>5, TypePartsNext

LEMMA PeerTaskKeepsType ==
    ASSUME TypeOK, NEW c \in Conn, PeerTask(c)
    PROVE  TypeOK'
<1> USE ConnCalls
<1>0. TableOK /\ TasksOK /\ RestOK /\ CallsOK
  BY TypeParts
<1>1. TableOK' /\ RestOK'
  BY <1>0 DEF PeerTask, Poll, HandleFrame, ForwardFails, PeerTaskPanics, StreamEnds,
              TaskDisconnects, Handles, TableOK, RestOK, table
<1>2. TasksOK'
  <2>1. CASE Poll(c)
    BY <1>0, <2>1, PeeringsAssumption DEF Poll, Goes, TasksOK, TableOK
  <2>2. ASSUME NEW where \in {"looping", "leaving", "panicked"}, Handles(c, where)
        PROVE  TasksOK'
    BY <1>0, <2>2 DEF Handles, Goes, Polling, TasksOK
  <2>3. CASE StreamEnds(c)
    BY <1>0, <2>3 DEF StreamEnds, Goes, Polling, TasksOK
  <2>4. CASE TaskDisconnects(c)
    BY <1>0, <2>4 DEF TaskDisconnects, Goes, TasksOK
  <2>5. QED
    BY <2>1, <2>2, <2>3, <2>4 DEF PeerTask, HandleFrame, ForwardFails, PeerTaskPanics
<1>3. CallsOK'
  <2>1. CASE TaskDisconnects(c)
    BY <1>0, <2>1 DEF TaskDisconnects, Begin, CallsOK, Calls
  <2>2. CASE UNCHANGED call
    BY <1>0, <2>2 DEF CallsOK
  <2>3. QED
    BY <2>1, <2>2 DEF PeerTask, Poll, HandleFrame, ForwardFails, PeerTaskPanics,
                      StreamEnds, Handles
<1>4. QED
  BY <1>1, <1>2, <1>3, TypePartsNext

LEMMA DisconnectingKeepsType ==
    ASSUME TypeOK, NEW x \in Caller, Disconnecting(x)
    PROVE  TypeOK'
<1>0. TableOK /\ TasksOK /\ RestOK /\ CallsOK
  BY TypeParts
<1>1. TableOK'
  BY <1>0 DEF Disconnecting, LookUpPort, RemovePort, RemoveUp, RemoveDown, TableOK, table
<1>2. TasksOK' /\ RestOK'
  BY <1>0 DEF Disconnecting, LookUpPort, RemovePort, RemoveUp, RemoveDown, TasksOK,
              RestOK, InUse, At
<1>3. CallsOK'
  <2>1. ASSUME NEW pc \in {"up", "down"}, Goto(x, pc)
        PROVE  CallsOK'
    BY <1>0, <2>1 DEF Goto, CallsOK, Calls
  <2>2. ASSUME NEW i \in Port, call' = [call EXCEPT ![x].pc = "port", ![x].port = i]
        PROVE  CallsOK'
    BY <1>0, <2>2 DEF CallsOK, Calls
  <2>3. CASE RemoveDown(x)
    BY <1>0, <2>3 DEF RemoveDown, Over, NoCall, CallsOK, Calls
  <2>4. QED
    BY <2>1, <2>2, <2>3 DEF Disconnecting, LookUpPort, RemovePort, RemoveUp, PortsOf
<1>4. QED
  BY <1>1, <1>2, <1>3, TypePartsNext

(* The steps of users, stop() calls and the other ends of connections.     *)
Outside ==
    \/ \E c \in Conn : RemoteCloses(c)
    \/ \E u \in User, p \in Peer : UserDisconnects(u, p)
    \/ \E s \in Stopper : Stop(s) \/ \E p \in Peer : StopDisconnects(s, p)

LEMMA OutsideKeepsType ==
    ASSUME TypeOK, Outside
    PROVE  TypeOK'
<1> USE ConnCalls
<1>0. TableOK /\ TasksOK /\ RestOK /\ CallsOK
  BY TypeParts
<1>1. TableOK' /\ TasksOK'
  BY <1>0 DEF Outside, RemoteCloses, UserDisconnects, Stop, StopDisconnects, TableOK,
              TasksOK, table
<1>2. RestOK'
  BY <1>0 DEF Outside, RemoteCloses, UserDisconnects, Stop, StopDisconnects, RestOK
<1>3. CallsOK'
  <2>1. ASSUME NEW x \in Caller, NEW p \in Peer, Begin(x, p)
        PROVE  CallsOK'
    BY <1>0, <2>1 DEF Begin, CallsOK, Calls
  <2>2. CASE UNCHANGED call
    BY <1>0, <2>2 DEF CallsOK
  <2>3. QED
    BY <2>1, <2>2 DEF Outside, RemoteCloses, UserDisconnects, Stop, StopDisconnects
<1>4. QED
  BY <1>1, <1>2, <1>3, TypePartsNext

LEMMA NextCases ==
    ASSUME Next
    PROVE  \/ \E c \in Conn : Connecting(c) \/ PeerTask(c)
           \/ \E x \in Caller : Disconnecting(x)
           \/ Outside
BY DEF Next, Outside

LEMMA NextKeepsType ==
    ASSUME TypeOK, CallOrder, Next
    PROVE  TypeOK'
BY NextCases, ConnectingKeepsType, PeerTaskKeepsType, DisconnectingKeepsType,
   OutsideKeepsType

-----------------------------------------------------------------------------
(* The order of a connection's calls.                                      *)

LEMMA NextKeepsCallOrder ==
    ASSUME TypeOK, CallOrder, Next
    PROVE  CallOrder'
<1> USE ConnCalls
<1>0. TableOK /\ TasksOK /\ CallsOK
  BY TypeParts
<1>1. ASSUME NEW c \in Conn, Connecting(c)
      PROVE  CallOrder'
  <2>1. CASE ReservePort(c)
    BY <1>0, <2>1 DEF ReservePort, FreePorts, CallOrder, Connects, TasksOK, CallsOK, Calls
  <2>2. CASE Fail(c)
    BY <1>0, <2>2 DEF Fail, CallOrder, Connects, TasksOK, CallsOK, Calls, NoCall, Active
  <2>3. CASE NamePort(c)
    BY <1>0, <2>3 DEF NamePort, CallOrder, Connects, TasksOK, CallsOK, Calls, Active
  <2>4. CASE AddSockets(c)
    <3>1. CASE at' = [at EXCEPT ![c] = "refused"] /\ call' = [call EXCEPT ![c] = NoCall]
      BY <1>0, <2>4, <3>1 DEF AddSockets, CallOrder, Connects, TasksOK, CallsOK, Calls, NoCall, Active
    <3>2. CASE at' = [at EXCEPT ![c] = "added"] /\ UNCHANGED call
      BY <1>0, <2>4, <3>2 DEF AddSockets, CallOrder, Connects, TasksOK, CallsOK
    <3>3. QED
      BY <2>4, <3>1, <3>2 DEF AddSockets
  <2>5. CASE SpawnPeer(c)
    BY <1>0, <2>5 DEF SpawnPeer, CallOrder, Connects, TasksOK, CallsOK, Calls, NoCall, Active
  <2>6. QED
    BY <1>1, <2>1, <2>2, <2>3, <2>4, <2>5 DEF Connecting
<1>2. ASSUME NEW c \in Conn, PeerTask(c)
      PROVE  CallOrder'
  <2>1. CASE TaskDisconnects(c)
    BY <1>0, <2>1 DEF TaskDisconnects, Begin, Goes, CallOrder, Connects, TasksOK, CallsOK,
                      Calls, Active
  <2>2. ASSUME UNCHANGED <<at, call>>, NEW where \in {"looping", "polling", "leaving", "panicked"},
               Goes(c, where), task[c] \in {"looping", "polling"}
        PROVE  CallOrder'
    BY <1>0, <2>2 DEF Goes, CallOrder, Connects, TasksOK, CallsOK
  <2>3. QED
    BY <1>2, <2>1, <2>2 DEF PeerTask, Poll, HandleFrame, ForwardFails, PeerTaskPanics,
                            StreamEnds, Handles, Polling
<1>3. ASSUME NEW x \in Caller, Disconnecting(x)
      PROVE  CallOrder'
  <2>0. UNCHANGED <<at, task>>
    BY <1>3 DEF Disconnecting, LookUpPort, RemovePort, RemoveUp, RemoveDown, table
  <2>1. call[x].pc \in Active
    BY <1>3 DEF Disconnecting, LookUpPort, RemovePort, RemoveUp, RemoveDown, At, Active
  <2>2. x \in Conn => ~ Connects(x)
    BY <1>0, <2>1 DEF CallOrder, Connects, Active, TasksOK
  <2> DEFINE Told(record) ==
                /\ call' = [call EXCEPT ![x] = record]
                /\ record.pc \in Active => record.peer \in Peer
                /\ record.pc = "port" => record.port \in Port
  <2>3. \E record \in Calls : Told(record)
    <3>1. ASSUME NEW pc \in {"up", "down"}, Goto(x, pc)
          PROVE  Told([call[x] EXCEPT !.pc = pc]) /\ [call[x] EXCEPT !.pc = pc] \in Calls
      BY <1>0, <2>1, <3>1 DEF Goto, CallOrder, CallsOK, Calls
    <3>2. ASSUME NEW i \in Port, call' = [call EXCEPT ![x].pc = "port", ![x].port = i]
          PROVE  LET record == [call[x] EXCEPT !.pc = "port", !.port = i]
                 IN Told(record) /\ record \in Calls
      <4>1. call[x] \in Calls /\ call[x].peer \in Peer
        BY <1>0, <2>1 DEF CallOrder, CallsOK
      <4>2. PICK record : record = [call[x] EXCEPT !.pc = "port", !.port = i]
        OBVIOUS
      <4>3. record \in Calls /\ record.peer = call[x].peer /\ record.port = i
        BY <4>1, <4>2 DEF Calls
      <4> QED
        BY <3>2, <4>1, <4>2, <4>3
    <3>3. Over \in Calls /\ Over.pc \notin Active
      BY DEF Over, NoCall, Calls, Active
    <3>4. CASE RemoveDown(x)
      <4>1. Told(Over)
        BY <3>3, <3>4 DEF RemoveDown, Active
      <4>2. QED
        BY <3>3, <4>1
    <3> HIDE DEF Told
    <3>5. QED
      BY <1>3, <3>1, <3>2, <3>4 DEF Disconnecting, LookUpPort, RemovePort, RemoveUp, PortsOf
  <2>4. QED
    BY <1>0, <2>0, <2>1, <2>2, <2>3 DEF CallOrder, Connects, TasksOK, CallsOK, Calls, Active
<1>4. CASE Outside
  <2>0. UNCHANGED <<at, task>>
    BY <1>4 DEF Outside, RemoteCloses, UserDisconnects, Stop, StopDisconnects, table
  <2>1. ASSUME NEW x \in User \cup Stopper, NEW p \in Peer, Begin(x, p)
        PROVE  CallOrder'
    BY <1>0, <2>0, <2>1 DEF Begin, CallOrder, Connects, CallsOK, Calls, Active
  <2>2. CASE UNCHANGED call
    BY <2>0, <2>2 DEF CallOrder, Connects
  <2>3. QED
    BY <1>4, <2>1, <2>2 DEF Outside, RemoteCloses, UserDisconnects, Stop, StopDisconnects
<1>5. QED
  BY <1>1, <1>2, <1>3, <1>4, NextCases

-----------------------------------------------------------------------------
(* What is connected is polled.                                            *)

LEMMA NextKeepsServed ==
    ASSUME TypeOK, CallOrder, EachServed, Next
    PROVE  EachServed'
<1> USE ConnCalls
<1>0. TableOK /\ TasksOK /\ CallsOK
  BY TypeParts
<1> DEFINE SameFor(d) == Served(d) => Served(d)'
<1>a. ASSUME NEW p \in Peer, down[p] # None
      PROVE  down[p] \in Conn /\ PeerOf[down[p]] = p
  BY <1>0, <1>a DEF TableOK, EachServed
<1>b. ASSUME UNCHANGED down,
             \A p \in Peer : down[p] # None => SameFor(down[p])
      PROVE  EachServed'
  BY <1>b DEF EachServed
<1> HIDE DEF SameFor
<1>1. ASSUME NEW c \in Conn, Connecting(c)
      PROVE  EachServed'
  <2>1. CASE AddSockets(c) /\ down[PeerOf[c]] = None /\ up[PeerOf[c]] = None
    <3>1. /\ at' = [at EXCEPT ![c] = "added"]
          /\ down' = [down EXCEPT ![PeerOf[c]] = c]
          /\ UNCHANGED <<task, polled, call>>
      BY <2>1 DEF AddSockets
    <3>2. Served(c)'
      BY <1>0, <3>1 DEF Served, TasksOK
    <3>3. ASSUME NEW p \in Peer, p # PeerOf[c], down[p] # None
          PROVE  SameFor(down[p])
      BY <1>0, <1>a, <3>1, <3>3 DEF SameFor, Served, TasksOK
    <3>4. QED
      BY <1>0, <1>a, <3>1, <3>2, <3>3 DEF EachServed, TableOK, SameFor
  <2>2. CASE at[c] # "added" /\ UNCHANGED <<down, task, polled>>
             /\ (\E where \in {"reserved", "failed", "named", "refused"} :
                    at' = [at EXCEPT ![c] = where])
             /\ at[c] # "done"
             /\ (\A d \in Conn \ {c} : call'[d] = call[d])
    <3>1. ASSUME NEW d \in Conn
          PROVE  SameFor(d)
      BY <1>0, <2>2 DEF SameFor, Served, TasksOK
    <3>2. QED
      BY <1>a, <1>b, <2>2, <3>1
  <2>3. CASE SpawnPeer(c)
    <3>1. ASSUME NEW d \in Conn
          PROVE  SameFor(d)
      BY <1>0, <2>3 DEF SpawnPeer, SameFor, Served, TasksOK, CallsOK
    <3>2. UNCHANGED down
      BY <2>3 DEF SpawnPeer
    <3>3. QED
      BY <1>a, <1>b, <3>1, <3>2
  <2>4. CASE ReservePort(c)
    BY <1>0, <2>2, <2>4 DEF ReservePort, CallsOK
  <2>5. CASE Fail(c) \/ NamePort(c)
    BY <1>0, <2>2, <2>5 DEF Fail, NamePort, table, CallsOK
  <2>6. CASE AddSockets(c) /\ (down[PeerOf[c]] # None \/ up[PeerOf[c]] # None)
    BY <1>0, <2>2, <2>6 DEF AddSockets, CallsOK
  <2>7. QED
    BY <1>1, <2>1, <2>3, <2>4, <2>5, <2>6 DEF Connecting
<1>2. ASSUME NEW c \in Conn, PeerTask(c)
      PROVE  EachServed'
  <2>0. UNCHANGED <<down, at>>
    BY <1>2 DEF PeerTask, Poll, HandleFrame, ForwardFails, PeerTaskPanics, StreamEnds,
                TaskDisconnects, Handles, table
  <2>1. CASE Poll(c)
    <3>1. ASSUME NEW p \in Peer, down[p] # None
          PROVE  SameFor(down[p])
      <4>1. CASE down[p] = c
        <5>1. down[PeerOf[c]] = c
          BY <1>a, <3>1, <4>1
        <5>2. task[c] = "looping"
          BY <2>1 DEF Poll
        <5>3. task'[c] = "leaving" \/ (task'[c] = "polling" /\ polled'[c] = c)
          BY <1>0, <2>1, <5>1 DEF Poll, Goes, TasksOK
        <5>4. QED
          BY <2>0, <4>1, <5>2, <5>3 DEF SameFor, Served
      <4>2. CASE down[p] # c
        <5>1. down[p] \in Conn
          BY <1>a, <3>1
        <5>2. task'[down[p]] = task[down[p]] /\ polled'[down[p]] = polled[down[p]]
          BY <1>0, <2>1, <4>2, <5>1 DEF Poll, Goes, TasksOK
        <5>3. UNCHANGED call
          BY <2>1 DEF Poll
        <5>4. QED
          BY <2>0, <5>2, <5>3 DEF SameFor, Served
      <4>3. QED
        BY <4>1, <4>2
    <3>2. QED
      BY <1>b, <2>0, <3>1
  <2>2. ASSUME NEW where \in {"looping", "leaving", "panicked"}, Goes(c, where), UNCHANGED call,
               polled' = [polled EXCEPT ![c] = None], Polling(c)
        PROVE  EachServed'
    <3>1. ASSUME NEW d \in Conn
          PROVE  SameFor(d)
      BY <1>0, <2>0, <2>2 DEF Goes, Polling, SameFor, Served, TasksOK
    <3>2. QED
      BY <1>a, <1>b, <2>0, <3>1
  <2>3. CASE TaskDisconnects(c)
    <3>1. ASSUME NEW d \in Conn
          PROVE  SameFor(d)
      BY <1>0, <2>0, <2>3 DEF TaskDisconnects, Goes, Begin, SameFor, Served, TasksOK,
                              CallsOK, Active
    <3>2. QED
      BY <1>a, <1>b, <2>0, <3>1
  <2>4. QED
    BY <1>2, <2>1, <2>2, <2>3
       DEF PeerTask, HandleFrame, ForwardFails, PeerTaskPanics, StreamEnds, Handles
<1>3. ASSUME NEW x \in Caller, Disconnecting(x)
      PROVE  EachServed'
  <2>0. UNCHANGED <<at, task, polled>> /\ call[x].pc \in Active
    BY <1>3 DEF Disconnecting, LookUpPort, RemovePort, RemoveUp, RemoveDown, table, At,
                Active
  <2>1. CASE RemoveDown(x)
    <3>1. down' = [down EXCEPT ![call[x].peer] = None] /\ call' = [call EXCEPT ![x] = Over]
      BY <2>1 DEF RemoveDown
    <3>2. ASSUME NEW p \in Peer, p # call[x].peer, down[p] # None
          PROVE  SameFor(down[p])
      BY <1>0, <1>a, <2>0, <3>1, <3>2 DEF SameFor, Served, CallsOK
    <3>3. QED
      BY <1>0, <1>a, <3>1, <3>2 DEF EachServed, TableOK, SameFor
  <2>2. CASE ~ RemoveDown(x)
    <3>1. UNCHANGED down
      BY <1>3, <2>2 DEF Disconnecting, LookUpPort, RemovePort, RemoveUp, table
    <3>2. /\ call'[x].peer = call[x].peer /\ call'[x].pc \in Active
          /\ \A y \in Caller \ {x} : call'[y] = call[y]
      BY <1>0, <1>3, <2>2
         DEF Disconnecting, LookUpPort, RemovePort, RemoveUp, Goto, CallsOK, Calls, Active
    <3>3. ASSUME NEW d \in Conn
          PROVE  SameFor(d)
      BY <2>0, <3>2 DEF SameFor, Served
    <3>4. QED
      BY <1>a, <1>b, <3>1, <3>3
  <2>3. QED
    BY <2>1, <2>2
<1>4. CASE Outside
  <2>1. UNCHANGED <<down, at, task, polled>> /\ (\A d \in Conn : call'[d] = call[d])
    BY <1>0, <1>4 DEF Outside, RemoteCloses, UserDisconnects, Stop, StopDisconnects, Begin,
                      table, CallsOK
  <2>2. ASSUME NEW d \in Conn
        PROVE  SameFor(d)
    BY <2>1 DEF SameFor, Served
  <2>3. QED
    BY <1>a, <1>b, <2>1, <2>2
<1>5. QED
  BY <1>1, <1>2, <1>3, <1>4, NextCases

-----------------------------------------------------------------------------
(* Whose the ports are while no race has been.                             *)

LEMMA RaceStays == Next => (raced => raced')
BY DEF Next, Connecting, ReservePort, Fail, NamePort, AddSockets, SpawnPeer, PeerTask, Poll,
       HandleFrame, ForwardFails, PeerTaskPanics, StreamEnds, TaskDisconnects, Handles,
       RemoteCloses, Disconnecting, LookUpPort, RemovePort, RemoveUp, RemoveDown,
       UserDisconnects, Stop, StopDisconnects

(* A step that leaves the ports, and what connect() is about to do with    *)
(* them, as they are, and lets go of none that is about to be removed.     *)
LEMMA OwnersStay ==
    ASSUME TypeOK, PortsOwned, UNCHANGED ports,
           \A c \in Conn :
               at'[c] = "reserved" => at[c] = "reserved" /\ call'[c].port = call[c].port,
           \A c \in Conn :
               at'[c] \in {"named", "added"} =>
                   at[c] \in {"named", "added"} /\ call'[c].port = call[c].port,
           \A x \in Caller : call'[x].pc = "port" => call'[x] = call[x]
    PROVE  PortsOwned'
<1> USE ConnCalls
<1>1. ASSUME NEW x \in Caller, NEW i, Owner(x, i)'
      PROVE  Owner(x, i)
  BY <1>1 DEF Owner, Connects
<1>2. \A x, y \in Caller, i \in Port : Owner(x, i)' /\ Owner(y, i)' => x = y
  BY <1>1 DEF PortsOwned
<1>3. QED
  BY <1>2 DEF PortsOwned

LEMMA NextKeepsOwners ==
    ASSUME TypeOK, CallOrder, PortsOwned, Next, ~ raced'
    PROVE  PortsOwned'
<1> USE ConnCalls
<1>0. TableOK /\ TasksOK /\ CallsOK
  BY TypeParts
<1>1. ASSUME NEW c \in Conn, Connecting(c)
      PROVE  PortsOwned'
  <2>1. CASE ReservePort(c)
    <3>1. PICK i \in FreePorts : /\ ports' = [ports EXCEPT ![i] = Reserved]
                                 /\ call' = [call EXCEPT ![c].port = i]
                                 /\ at' = [at EXCEPT ![c] = "reserved"]
      BY <2>1 DEF ReservePort
    <3>2. i \in Port /\ ports[i] = Free /\ ports'[i] = Reserved /\ call'[c].port = i
      BY <1>0, <3>1 DEF FreePorts, TableOK, CallsOK, Calls
    <3>3. ASSUME NEW x \in Caller
          PROVE  ~ Owner(x, i)
      BY <1>0, <3>2, <3>3, PeeringsAssumption
         DEF Owner, Connects, PortsOwned, CallOrder, Active
    <3>4. ASSUME NEW x \in Caller, NEW j \in Port, Owner(x, j)'
          PROVE  (x = c /\ j = i) \/ (x # c /\ Owner(x, j))
      BY <1>0, <2>1, <3>1, <3>4 DEF Owner, Connects, CallsOK, Calls, TasksOK, CallOrder, ReservePort
    <3>5. \A x, y \in Caller, j \in Port : Owner(x, j)' /\ Owner(y, j)' => x = y
      BY <3>3, <3>4 DEF PortsOwned
    <3>6. \A d \in Conn : at'[d] = "reserved" => ports'[call'[d].port] = Reserved
      BY <1>0, <3>1, <3>2, <3>3 DEF PortsOwned, Owner, Connects, TableOK, TasksOK, CallsOK,
                                    CallOrder
    <3>7. \A d \in Conn : at'[d] \in {"named", "added"} => ports'[call'[d].port] = PeerOf[d]
      BY <1>0, <3>1, <3>2, <3>3 DEF PortsOwned, Owner, Connects, TableOK, TasksOK, CallsOK,
                                    CallOrder
    <3>8. \A x \in Caller : call'[x].pc = "port" => ports'[call'[x].port] = call'[x].peer
      <4> SUFFICES ASSUME NEW x \in Caller, call'[x].pc = "port"
                   PROVE  ports'[call'[x].port] = call'[x].peer
        OBVIOUS
      <4>1. call[x].pc = "port" /\ x # c /\ call'[x] = call[x]
        BY <1>0, <2>1, <3>1 DEF ReservePort, TasksOK, CallsOK, Calls, CallOrder
      <4>2. call[x].port # i
        BY <3>3, <4>1 DEF Owner
      <4>3. QED
        BY <1>0, <3>1, <4>1, <4>2 DEF PortsOwned, TableOK
    <3>9. QED
      BY <3>5, <3>6, <3>7, <3>8 DEF PortsOwned
  <2>2. CASE Fail(c) \/ AddSockets(c)
    BY <1>0, <2>2, OwnersStay
       DEF Fail, AddSockets, table, TasksOK, CallsOK, NoCall
  <2>3. CASE NamePort(c)
    <3>1. /\ at[c] = "reserved" /\ at' = [at EXCEPT ![c] = "named"]
          /\ ports' = [ports EXCEPT ![call[c].port] = PeerOf[c]]
          /\ UNCHANGED call
      BY <2>3 DEF NamePort
    <3>2. call[c].port \in Port /\ Owner(c, call[c].port)
      BY <3>1 DEF CallOrder, Connects, Owner
    <3>3. \A x \in Caller, j \in Port : Owner(x, j)' => Owner(x, j)
      BY <1>0, <3>1 DEF Owner, Connects, TasksOK
    <3>4. \A x, y \in Caller, j \in Port : Owner(x, j)' /\ Owner(y, j)' => x = y
      BY <3>3 DEF PortsOwned
    <3>5. \A d \in Conn : at'[d] = "reserved" => ports'[call'[d].port] = Reserved
      BY <1>0, <3>1, <3>2 DEF PortsOwned, Owner, Connects, TableOK, TasksOK, CallOrder
    <3>6. \A d \in Conn : at'[d] \in {"named", "added"} => ports'[call'[d].port] = PeerOf[d]
      BY <1>0, <3>1, <3>2 DEF PortsOwned, Owner, Connects, TableOK, TasksOK, CallOrder
    <3>7. \A x \in Caller : call'[x].pc = "port" => ports'[call'[x].port] = call'[x].peer
      BY <1>0, <3>1, <3>2 DEF PortsOwned, Owner, TableOK, TasksOK, CallOrder
    <3>8. QED
      BY <3>4, <3>5, <3>6, <3>7 DEF PortsOwned
  <2>4. CASE SpawnPeer(c)
    <3>1. call[c].port \in Port /\ ports[call[c].port] = PeerOf[c] /\ call[c].pc # "port"
      BY <1>0, <2>4 DEF SpawnPeer, CallOrder, Connects, PortsOwned
    <3>2. UNCHANGED ports
      BY <1>0, <2>4, <3>1 DEF SpawnPeer, TableOK
    <3>3. QED
      BY <1>0, <2>4, <3>2, OwnersStay DEF SpawnPeer, TasksOK, CallsOK, NoCall
  <2>5. QED
    BY <1>1, <2>1, <2>2, <2>3, <2>4 DEF Connecting
<1>2. ASSUME NEW c \in Conn, PeerTask(c)
      PROVE  PortsOwned'
  <2>1. UNCHANGED <<ports, at>> /\ call'[c].pc # "port" /\ \A x \in Caller \ {c} : call'[x] = call[x]
    BY <1>0, <1>2
       DEF PeerTask, Poll, HandleFrame, ForwardFails, PeerTaskPanics, StreamEnds,
           TaskDisconnects, Handles, Begin, table, CallsOK, CallOrder, Polling
  <2>2. Connects(c) => call'[c].port = call[c].port
    BY <1>0, <1>2
       DEF PeerTask, Poll, HandleFrame, ForwardFails, PeerTaskPanics, StreamEnds,
           TaskDisconnects, Handles, Polling, CallOrder, Connects
  <2>3. QED
    BY <2>1, <2>2, OwnersStay DEF Connects
<1>3. ASSUME NEW x \in Caller, Disconnecting(x)
      PROVE  PortsOwned'
  <2>1. CASE LookUpPort(x)
    <3>1. CASE UNCHANGED ports /\ UNCHANGED at /\ Goto(x, "up") /\ At(x, "lookup")
      BY <1>0, <3>1, OwnersStay DEF Goto, CallsOK, Calls, CallOrder, Active
    <3>2. ASSUME NEW i \in PortsOf(call[x].peer), ~ InUse(x, i), UNCHANGED <<ports, at>>,
                 call' = [call EXCEPT ![x].pc = "port", ![x].port = i], At(x, "lookup")
          PROVE  PortsOwned'
      <4>1. i \in Port /\ ports[i] = call[x].peer /\ call[x].peer \in Peer
        BY <1>0, <3>2 DEF PortsOf, CallOrder, At, Active
      <4>2. \A y \in Caller \ {x} : ~ Owner(y, i)
        BY <3>2, <4>1, PeeringsAssumption DEF Owner, Connects, InUse, At, PortsOwned
      <4>3. call'[x] = [call[x] EXCEPT !.pc = "port", !.port = i]
            /\ \A y \in Caller \ {x} : call'[y] = call[y]
        BY <1>0, <3>2 DEF CallsOK
      <4>4. x \in Conn => ~ Connects(x)
        BY <1>0, <3>2 DEF CallOrder, Connects, At
      <4>5. \A y \in Caller \ {x}, j \in Port : Owner(y, j)' => Owner(y, j)
        BY <3>2, <4>3 DEF Owner, Connects
      <4>6. \A j \in Port : Owner(x, j)' => j = i
        BY <1>0, <3>2, <4>3, <4>4 DEF Owner, Connects, CallsOK, Calls
      <4>7. \A y, z \in Caller, j \in Port : Owner(y, j)' /\ Owner(z, j)' => y = z
        BY <4>2, <4>5, <4>6 DEF PortsOwned
      <4>8. \A y \in Caller : call'[y].pc = "port" => ports'[call'[y].port] = call'[y].peer
        BY <1>0, <3>2, <4>1, <4>3 DEF PortsOwned, CallsOK, Calls
      <4>9. \A c \in Conn : at[c] \in {"reserved", "named", "added"} => call'[c] = call[c]
        BY <4>3, <4>4 DEF Connects
      <4>10. /\ \A c \in Conn : at[c] = "reserved" => ports[call'[c].port] = Reserved
             /\ \A c \in Conn :
                   at[c] \in {"named", "added"} => ports[call'[c].port] = PeerOf[c]
        BY <4>9 DEF PortsOwned
      <4>11. QED
        BY <3>2, <4>7, <4>8, <4>10 DEF PortsOwned
    <3>3. QED
      BY <2>1, <3>1, <3>2 DEF LookUpPort, table
  <2>2. CASE RemovePort(x)
    <3>1. /\ ports' = [ports EXCEPT ![call[x].port] = Free] /\ UNCHANGED at
          /\ call'[x].pc = "up" /\ (\A y \in Caller \ {x} : call'[y] = call[y])
      BY <1>0, <2>2 DEF RemovePort, Goto, CallsOK, Calls
    <3>2. call[x].port \in Port /\ Owner(x, call[x].port) /\ (x \in Conn => ~ Connects(x))
      BY <1>0, <2>2 DEF RemovePort, At, CallOrder, Active, Owner, Connects
    <3>3. \A y \in Caller, j \in Port : Owner(y, j)' => y # x /\ Owner(y, j)
      BY <3>1, <3>2 DEF Owner, Connects
    <3>4. \A y, z \in Caller, j \in Port : Owner(y, j)' /\ Owner(z, j)' => y = z
      BY <3>3 DEF PortsOwned
    <3>5. \A y \in Caller, j \in Port : Owner(y, j)' => j # call[x].port
      BY <3>2, <3>3 DEF PortsOwned
    <3>6. \A d \in Conn : Connects(d) =>
              /\ d # x /\ call'[d] = call[d]
              /\ ports'[call[d].port] = ports[call[d].port]
      BY <1>0, <3>1, <3>2, <3>5 DEF Owner, Connects, CallOrder, TableOK
    <3>7. \A y \in Caller : call'[y].pc = "port" => ports'[call'[y].port] = call'[y].peer
      BY <1>0, <3>1, <3>5 DEF Owner, CallOrder, TableOK, PortsOwned
    <3>8. QED
      BY <3>1, <3>4, <3>6, <3>7 DEF PortsOwned, Connects
  <2>3. CASE RemoveUp(x) \/ RemoveDown(x)
    BY <1>0, <2>3, OwnersStay
       DEF RemoveUp, RemoveDown, Goto, At, CallsOK, Calls, CallOrder, Over, NoCall, Active
  <2>4. QED
    BY <1>3, <2>1, <2>2, <2>3 DEF Disconnecting
<1>4. CASE Outside
  <2>1. UNCHANGED <<ports, at>> /\ (\A d \in Conn : call'[d] = call[d])
        /\ (\A x \in Caller : call'[x].pc = "port" => call'[x] = call[x])
    BY <1>0, <1>4 DEF Outside, RemoteCloses, UserDisconnects, Stop, StopDisconnects, Begin,
                      table, CallsOK, Calls
  <2>2. QED
    BY <2>1, OwnersStay
<1>5. QED
  BY <1>1, <1>2, <1>3, <1>4, NextCases

-----------------------------------------------------------------------------
(* A peer that is connected keeps a port, or loses its halves.             *)

LEMMA NextKeepsPorts ==
    ASSUME TypeOK, CallOrder, PortsOwned, PortsKept, Next, ~ raced'
    PROVE  PortsKept'
<1> USE ConnCalls
<1>0. TableOK /\ TasksOK /\ CallsOK
  BY TypeParts
<1> DEFINE Losing(x) == call[x].pc \in {"up", "down"}
<1>a. ASSUME \A p \in Peer : PortsOf(p) # {} => PortsOf(p)' # {} \/ LosesHalves(p)',
             \A p \in Peer : down'[p] # None => down[p] # None \/ PortsOf(p)' # {},
             \A x \in Caller : Losing(x) => call'[x].pc \in {"up", "down"} /\ call'[x].peer = call[x].peer
      PROVE  PortsKept'
  <2>1. \A p \in Peer : LosesHalves(p) => LosesHalves(p)'
    BY <1>a DEF LosesHalves
  <2>2. QED
    BY <1>a, <2>1 DEF PortsKept
<1>b. ASSUME UNCHANGED ports
      PROVE  \A p : PortsOf(p)' = PortsOf(p)
  BY <1>b DEF PortsOf
<1>1. ASSUME NEW c \in Conn, Connecting(c)
      PROVE  PortsKept'
  <2>0. \A x \in Caller : Losing(x) => call'[x] = call[x]
    BY <1>0, <1>1 DEF Connecting, ReservePort, Fail, NamePort, AddSockets, SpawnPeer,
                      CallOrder, CallsOK, TasksOK
  <2>1. ASSUME NEW i \in Port, ports[i] \notin Peer, NEW v, ports' = [ports EXCEPT ![i] = v]
        PROVE  \A p \in Peer : PortsOf(p) # {} => PortsOf(p)' # {}
    BY <1>0, <2>1 DEF PortsOf, TableOK
  <2>2. CASE ReservePort(c) \/ NamePort(c)
    <3>1. UNCHANGED down
      BY <2>2 DEF ReservePort, NamePort
    <3>2. \E i \in Port, v \in Peer \cup {Reserved} :
             ports[i] \notin Peer /\ ports' = [ports EXCEPT ![i] = v]
      BY <2>2, PeeringsAssumption
         DEF ReservePort, NamePort, FreePorts, CallOrder, Connects, PortsOwned
    <3>3. QED
      BY <1>a, <2>0, <2>1, <3>1, <3>2
  <2>3. CASE Fail(c)
    BY <1>a, <1>b, <2>0, <2>3 DEF Fail, table
  <2>4. CASE AddSockets(c)
    <3>1. UNCHANGED ports /\ ports[call[c].port] = PeerOf[c] /\ call[c].port \in Port
      BY <2>4 DEF AddSockets, PortsOwned, CallOrder, Connects
    <3>2. PortsOf(PeerOf[c])' # {}
      BY <3>1 DEF PortsOf
    <3>3. \A p \in Peer \ {PeerOf[c]} : down'[p] = down[p]
      BY <1>0, <2>4 DEF AddSockets, TableOK
    <3>4. QED
      BY <1>a, <1>b, <2>0, <3>1, <3>2, <3>3
  <2>5. CASE SpawnPeer(c)
    <3>1. call[c].port \in Port /\ ports[call[c].port] = PeerOf[c]
      BY <2>5 DEF SpawnPeer, PortsOwned, CallOrder, Connects
    <3>2. UNCHANGED <<ports, down>>
      BY <1>0, <2>5, <3>1 DEF SpawnPeer, TableOK
    <3>3. QED
      BY <1>a, <1>b, <2>0, <3>2
  <2>6. QED
    BY <1>1, <2>2, <2>3, <2>4, <2>5 DEF Connecting
<1>2. ASSUME NEW c \in Conn, PeerTask(c)
      PROVE  PortsKept'
  <2>1. UNCHANGED <<ports, down>> /\ \A x \in Caller : Losing(x) => call'[x] = call[x]
    BY <1>0, <1>2
       DEF PeerTask, Poll, HandleFrame, ForwardFails, PeerTaskPanics, StreamEnds,
           TaskDisconnects, Handles, Begin, table, CallsOK, CallOrder
  <2>2. QED
    BY <1>a, <1>b, <2>1
<1>3. ASSUME NEW x \in Caller, Disconnecting(x)
      PROVE  PortsKept'
  <2>1. CASE LookUpPort(x)
    <3>1. UNCHANGED <<ports, down>> /\ \A y \in Caller : Losing(y) => call'[y] = call[y]
      BY <1>0, <2>1 DEF LookUpPort, At, Goto, table, CallsOK
    <3>2. QED
      BY <1>a, <1>b, <3>1
  <2>2. CASE RemovePort(x)
    <3>1. /\ call[x].port \in Port /\ ports[call[x].port] = call[x].peer
          /\ ports' = [ports EXCEPT ![call[x].port] = Free]
      BY <2>2 DEF RemovePort, At, CallOrder, PortsOwned
    <3>2. call'[x].pc = "up" /\ call'[x].peer = call[x].peer
      BY <1>0, <2>2 DEF RemovePort, Goto, CallsOK, Calls
    <3>3. ASSUME NEW p \in Peer, PortsOf(p) # {}, p # call[x].peer
          PROVE  PortsOf(p)' # {}
      BY <1>0, <3>1, <3>3 DEF PortsOf, TableOK
    <3>4. \A p \in Peer : PortsOf(p) # {} => PortsOf(p)' # {} \/ LosesHalves(p)'
      BY <3>2, <3>3 DEF LosesHalves
    <3>5. UNCHANGED down /\ \A y \in Caller : Losing(y) => call'[y] = call[y]
      BY <1>0, <2>2 DEF RemovePort, At, Goto, CallsOK
    <3>6. QED
      BY <1>a, <3>4, <3>5
  <2>3. CASE RemoveUp(x)
    <3>1. UNCHANGED <<ports, down>>
      BY <2>3 DEF RemoveUp
    <3>2. \A y \in Caller : Losing(y) => call'[y].pc \in {"up", "down"} /\ call'[y].peer = call[y].peer
      BY <1>0, <2>3 DEF RemoveUp, At, Goto, CallsOK, Calls
    <3>3. QED
      BY <1>a, <1>b, <3>1, <3>2
  <2>4. CASE RemoveDown(x)
    <3>1. UNCHANGED ports /\ down' = [down EXCEPT ![call[x].peer] = None]
          /\ \A y \in Caller \ {x} : call'[y] = call[y]
      BY <1>0, <2>4 DEF RemoveDown, CallsOK
    <3>2. ASSUME NEW p \in Peer, down'[p] # None
          PROVE  p # call[x].peer /\ down[p] # None
      BY <1>0, <3>1, <3>2 DEF TableOK
    <3>3. \A p \in Peer \ {call[x].peer} : LosesHalves(p) => LosesHalves(p)'
      BY <3>1 DEF LosesHalves
    <3>4. QED
      BY <1>b, <3>1, <3>2, <3>3 DEF PortsKept
  <2>5. QED
    BY <1>3, <2>1, <2>2, <2>3, <2>4 DEF Disconnecting
<1>4. CASE Outside
  <2>1. UNCHANGED <<ports, down>> /\ \A x \in Caller : Losing(x) => call'[x] = call[x]
    BY <1>0, <1>4 DEF Outside, RemoteCloses, UserDisconnects, Stop, StopDisconnects, Begin,
                      table, CallsOK, Calls
  <2>2. QED
    BY <1>a, <1>b, <2>1
<1>5. QED
  BY <1>1, <1>2, <1>3, <1>4, NextCases

-----------------------------------------------------------------------------
(* How many ports are reserved.                                            *)

LEMMA FiniteHere == IsFiniteSet(PortsOf(Reserved)) /\ IsFiniteSet(Unnamed)
<1>1. IsFiniteSet(Port)
  BY PeeringsAssumption, FS_CardinalityType, FS_Interval DEF Port
<1>2. QED
  BY <1>1, PeeringsAssumption, FS_Subset DEF PortsOf, Unnamed

LEMMA WithoutOne ==
    ASSUME NEW S, IsFiniteSet(S), NEW x \in S
    PROVE  Cardinality(S \ {x}) = Cardinality(S) - 1
BY FS_RemoveElement

LEMMA NextKeepsCount ==
    ASSUME TypeOK, CallOrder, PortsOwned, ReservedCounted, Next, ~ raced'
    PROVE  ReservedCounted'
<1> USE ConnCalls
<1>0. TableOK /\ TasksOK /\ CallsOK
  BY TypeParts
<1>a. ASSUME PortsOf(Reserved)' = PortsOf(Reserved), Unnamed' = Unnamed
      PROVE  ReservedCounted'
  BY <1>a DEF ReservedCounted
<1>1. ASSUME NEW c \in Conn, ReservePort(c)
      PROVE  ReservedCounted'
  <2>1. PICK i \in FreePorts : ports' = [ports EXCEPT ![i] = Reserved]
    BY <1>1 DEF ReservePort
  <2>2. i \notin PortsOf(Reserved) /\ PortsOf(Reserved)' = PortsOf(Reserved) \cup {i}
    BY <1>0, <2>1, PeeringsAssumption DEF PortsOf, FreePorts, TableOK
  <2>3. c \notin Unnamed /\ Unnamed' = Unnamed \cup {c}
    BY <1>0, <1>1 DEF ReservePort, Unnamed, TasksOK
  <2>4. QED
    <3>1. /\ Cardinality(PortsOf(Reserved) \cup {i}) = Cardinality(PortsOf(Reserved)) + 1
          /\ Cardinality(Unnamed \cup {c}) = Cardinality(Unnamed) + 1
      BY <2>2, <2>3, FiniteHere, FS_AddElement
    <3>2. QED
      BY <2>2, <2>3, <3>1 DEF ReservedCounted
<1>2. ASSUME NEW c \in Conn, NamePort(c)
      PROVE  ReservedCounted'
  <2>1. /\ call[c].port \in Port /\ ports[call[c].port] = Reserved /\ at[c] = "reserved"
        /\ ports' = [ports EXCEPT ![call[c].port] = PeerOf[c]]
    BY <1>2 DEF NamePort, PortsOwned, CallOrder, Connects
  <2>2. /\ call[c].port \in PortsOf(Reserved)
        /\ PortsOf(Reserved)' = PortsOf(Reserved) \ {call[c].port}
    BY <1>0, <2>1, PeeringsAssumption DEF PortsOf, TableOK
  <2>3. c \in Unnamed /\ Unnamed' = Unnamed \ {c}
    BY <1>0, <1>2 DEF NamePort, Unnamed, TasksOK
  <2>4. QED
    <3>1. /\ Cardinality(PortsOf(Reserved) \ {call[c].port}) = Cardinality(PortsOf(Reserved)) - 1
          /\ Cardinality(Unnamed \ {c}) = Cardinality(Unnamed) - 1
      BY <2>2, <2>3, FiniteHere, WithoutOne
    <3>2. QED
      BY <2>2, <2>3, <3>1 DEF ReservedCounted
<1>3. ASSUME NEW c \in Conn, Fail(c) \/ AddSockets(c) \/ SpawnPeer(c)
      PROVE  ReservedCounted'
  <2>1. UNCHANGED ports
    BY <1>0, <1>3 DEF Fail, AddSockets, SpawnPeer, table, PortsOwned, TableOK
  <2>2. Unnamed' = Unnamed
    BY <1>0, <1>3 DEF Fail, AddSockets, SpawnPeer, Unnamed, TasksOK
  <2>3. QED
    BY <1>a, <2>1, <2>2 DEF PortsOf
<1>4. ASSUME NEW x \in Caller, Disconnecting(x)
      PROVE  ReservedCounted'
  <2>1. UNCHANGED at
    BY <1>4 DEF Disconnecting, LookUpPort, RemovePort, RemoveUp, RemoveDown
  <2>2. CASE RemovePort(x)
    <3>1. /\ call[x].port \in Port /\ ports[call[x].port] \in Peer
          /\ ports' = [ports EXCEPT ![call[x].port] = Free]
      BY <2>2 DEF RemovePort, At, CallOrder, PortsOwned, Active
    <3>2. PortsOf(Reserved)' = PortsOf(Reserved)
      BY <1>0, <3>1, PeeringsAssumption DEF PortsOf, TableOK
    <3>3. QED
      BY <1>a, <2>1, <3>2 DEF Unnamed
  <2>3. CASE UNCHANGED ports
    BY <1>a, <2>1, <2>3 DEF Unnamed, PortsOf
  <2>4. QED
    BY <1>4, <2>2, <2>3 DEF Disconnecting, LookUpPort, RemoveUp, RemoveDown, table
<1>5. ASSUME UNCHANGED <<ports, at>>
      PROVE  ReservedCounted'
  BY <1>a, <1>5 DEF Unnamed, PortsOf
<1>6. ASSUME NEW c \in Conn, PeerTask(c)
      PROVE  UNCHANGED <<ports, at>>
  BY <1>6 DEF PeerTask, Poll, HandleFrame, ForwardFails, PeerTaskPanics, StreamEnds,
              TaskDisconnects, Handles, table
<1>7. Outside => UNCHANGED <<ports, at>>
  BY DEF Outside, RemoteCloses, UserDisconnects, Stop, StopDisconnects, table
<1>8. QED
  BY <1>1, <1>2, <1>3, <1>4, <1>5, <1>6, <1>7, NextCases DEF Connecting

-----------------------------------------------------------------------------

LEMMA InitIInv == Init => IInv
<1> SUFFICES ASSUME Init PROVE IInv
  OBVIOUS
<1> USE ConnCalls
<1>1. TypeOK
  <2>1. TableOK
    BY DEF Init, TableOK
  <2>2. RestOK
    BY DEF Init, RestOK
  <2>3. TasksOK
    BY DEF Init, TasksOK
  <2>4. CallsOK
    BY DEF Init, CallsOK, Calls, NoCall
  <2>5. QED
    BY <2>1, <2>2, <2>3, <2>4, TypeParts
<1>2. CallOrder /\ EachServed
  BY DEF Init, CallOrder, EachServed, Connects, NoCall, Active
<1>3. PortsOwned /\ PortsKept
  BY DEF Init, PortsOwned, PortsKept, Owner, Connects, NoCall
<1>4. PortsOf(Reserved) = {} /\ Unnamed = {}
  BY PeeringsAssumption DEF Init, PortsOf, Unnamed
<1>5. QED
  BY <1>1, <1>2, <1>3, <1>4 DEF IInv, ReservedCounted

LEMMA NextIInv == IInv /\ [Next]_vars => IInv'
<1> SUFFICES ASSUME IInv, [Next]_vars PROVE IInv'
  OBVIOUS
<1>1. CASE Next
  BY <1>1, RaceStays, NextKeepsType, NextKeepsCallOrder, NextKeepsServed, NextKeepsOwners,
     NextKeepsPorts, NextKeepsCount DEF IInv
<1>2. CASE UNCHANGED vars
  <2>1. UNCHANGED <<running, ports, up, down, at, task, polled, remote, call, stopping, raced>>
    BY <1>2 DEF vars
  <2>2. TypeOK' /\ CallOrder' /\ EachServed'
    BY <2>1 DEF IInv, TypeOK, CallOrder, EachServed, Served, Connects
  <2>3. ~ raced => PortsOwned' /\ PortsKept' /\ ReservedCounted'
    BY <2>1 DEF IInv, PortsOwned, PortsKept, ReservedCounted, Owner, Connects, PortsOf,
                LosesHalves, Unnamed
  <2>4. QED
    BY <2>1, <2>2, <2>3 DEF IInv
<1>3. QED
  BY <1>1, <1>2

LEMMA IInvHolds == Spec => []IInv
BY InitIInv, NextIInv, PTL DEF Spec

(* Type correctness: the maps stay maps of peers, ports and connections,   *)
(* and a task waits for a socket exactly while it polls.                   *)
THEOREM TypeCorrect == Spec => []TypeOK
<1>1. IInv => TypeOK
  BY DEF IInv
<1>2. QED
  BY <1>1, IInvHolds, PTL

(* disconnect_peer and poll_peer: what is connected when nothing is under  *)
(* way is waited for by the task of that very connection, or its task has  *)
(* panicked, however calls and tasks overlapped.                           *)
THEOREM ConnectedPolled == Spec => []ConnectedIsPolled
<1>1. ASSUME IInv
      PROVE  ConnectedIsPolled
  <2> SUFFICES ASSUME AtRest, NEW p \in Peer, down[p] # None
               PROVE  \/ TaskPanicked(p)
                      \/ \E c \in Conn : PeerOf[c] = p /\ Polling(c) /\ polled[c] = down[p]
    BY DEF ConnectedIsPolled
  <2>1. down[p] \in Conn /\ PeerOf[down[p]] = p /\ Served(down[p])
    BY <1>1 DEF IInv, EachServed, TypeOK
  <2>2. down[p] \in Caller
    BY <2>1, ConnCalls
  <2>3. QED
    BY <1>1, <2>1, <2>2 DEF AtRest, Served, TaskPanicked, Polling, Active
<1>2. QED
  BY <1>1, IInvHolds, PTL

(* get_new_port, port and disconnect_peer: as long as no call removes a    *)
(* port that another has found, every connected peer has one at rest.      *)
THEOREM ConnectedPort == Spec => []ConnectedHasPort
<1>1. ASSUME IInv
      PROVE  ConnectedHasPort
  BY <1>1 DEF ConnectedHasPort, IInv, PortsKept, LosesHalves, AtRest
<1>2. QED
  BY <1>1, IInvHolds, PTL

(* connect() leaks a port for each failure after it reserved one, and no   *)
(* other: at rest the reserved ports are as many as the failed calls.      *)
THEOREM ReservedCount == Spec => []ReservedAreOfFailed
<1>1. ASSUME IInv
      PROVE  ReservedAreOfFailed
  <2>1. AtRest => Unnamed = {c \in Conn : at[c] = "failed"}
    BY <1>1 DEF AtRest, Unnamed
  <2>2. QED
    BY <1>1, <2>1 DEF ReservedAreOfFailed, IInv, ReservedCounted
<1>2. QED
  BY <1>1, IInvHolds, PTL

=============================================================================
