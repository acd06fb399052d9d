----------------------------- MODULE RouterLocks -----------------------------
(***************************************************************************)
(* The locks of one router (src/src/router.rs): what its tasks take, in    *)
(* which order, and what they wait for meanwhile.                          *)
(*                                                                         *)
(* A handler is the sequence of its lock steps and sends, one sequence for *)
(* each way through the code; what it computes is left out.  Only locks    *)
(* that are held during a wait are kept: `ports', `announcements',         *)
(* `parent', `running', `sequence' and `download_connections' are released *)
(* before anything else is waited for, so nobody waits for them for long.  *)
(* The locks are tokio's: first come, first served, for readers too.       *)
(***************************************************************************)
EXTENDS Naturals, Sequences, FiniteSets

CONSTANTS PeerTask,   \* the tasks of spawn_peer, each handles its peer's frames
          OtherTask   \* room for other tasks and calls, one after the other

Task == PeerTask \cup OtherTask
Lock == {"ascending", "descending", "paths", "candidate", "upload"}

ASSUME LocksAssumption ==
    IsFiniteSet(Task) /\ PeerTask \cap OtherTask = {}

-----------------------------------------------------------------------------
(* Steps and handlers.  A guard that is dropped before its task waits      *)
(* again is taken and dropped in one step.                                 *)

Step(op, l, drops) == [op |-> op, lock |-> l, drops |-> drops]
R(l) == Step("read", l, {})
W(l) == Step("write", l, {})
Look(l) == Step("read", l, {l})
Change(l) == Step("write", l, {l})

(* Ways that go on with one of ss after one of rs.                         *)
Then(rs, ss) == {r \o s : r \in rs, s \in ss}
Maybe(rs) == {<<>>} \cup rs

(* send: the map's guard is held until the socket has taken the frame.     *)
(* Several sends in a row are one.                                         *)
Send == {<<R("upload"), Step("send", "upload", {"upload"})>>}

TeardownPath ==
    {<<W("ascending"), W("descending"),
       Step("write", "paths", {"ascending", "descending", "paths"})>>}

(* The tasks of send_teardown_for_existing_path.                           *)
TeardownTask == Then(TeardownPath, Maybe(Send))

NextSnekHop == {<<Look("paths")>>}

BootstrapNow == Then({<<Look("ascending")>>}, Maybe(Then(NextSnekHop, Maybe(Send))))

(* Mutant: it bootstraps while it looks at the ascending path.             *)
MaintainSnekInside ==
    Then({<<R("ascending")>>},
         Then(Maybe(BootstrapNow), {<<Look("descending"), Look("paths")>>}))

MaintainSnek ==
    Then({<<Look("ascending"), Look("descending"), Look("paths")>>}, Maybe(BootstrapNow))

(* The path locks are held over the send, and until the end.               *)
HandleBootstrapAck ==
    Then({<<R("ascending"), W("paths")>>}, Maybe(Then(Send, {<<W("candidate")>>})))

(* Mutant: paths first, as in handle_setup_ack.                            *)
HandleSetupBackwards == Then({<<W("paths"), W("descending")>>}, Send)

(* A setup is sent on, acknowledged or rejected.                           *)
HandleSetup == Then({<<W("descending"), W("paths")>>}, Send)

(* The way to the ascending path's lock is that of a path of our own, for  *)
(* which nothing is sent on.                                               *)
HandleSetupAck ==
    Then({<<W("paths")>>},
         {<<>>, <<W("candidate"), W("ascending")>>}
         \cup Then(Maybe(Send), {<<W("candidate")>>}))

(* Announcements and routed packets, and bootstraps, sent on or answered.  *)
HandleOther == Send \cup Then(NextSnekHop, Send)

(* A lost ascending path is torn down.  Where there is none its guard      *)
(* lives on to the end of the block.                                       *)
TearDownOver ==
    {<<R("ascending"), Step("read", "descending", {"ascending", "descending"})>>}
    \cup Then({<<Look("ascending")>>}, Then(Maybe(TeardownPath), {<<Look("descending")>>}))

DisconnectPeer ==
    Then(Maybe(Then({<<Look("paths")>>}, TearDownOver)),
         Then({<<Change("upload")>>}, Maybe(BootstrapNow)))

AddPeer == Then({<<Change("upload")>>}, Send)

(* What a task may begin.  A peer's task that ends calls disconnect_peer,  *)
(* as others do: it counts as one of these.                                *)
Ways(t) ==
    IF t \in PeerTask
    THEN HandleBootstrapAck \cup HandleSetup \cup HandleSetupAck
         \cup TeardownPath \cup HandleOther
    ELSE MaintainSnek \cup TeardownTask \cup DisconnectPeer \cup AddPeer

-----------------------------------------------------------------------------

VARIABLES
    todo,   \* todo[t]: the ways that task t may still go on
    held,   \* held[t]: the guards it holds, <<lock, "read" or "write">>
    queue   \* queue[l]: the tasks that wait for lock l, in their order

vars == <<todo, held, queue>>

Idle == {<<>>}

Init ==
    /\ todo = [t \in Task |-> Idle]
    /\ held = [t \in Task |-> {}]
    /\ queue = [l \in Lock |-> <<>>]

Busy(t) == todo[t] # Idle
NextSteps(t) == {Head(way) : way \in todo[t] \ {<<>>}}
Waits(t, l) == \E i \in DOMAIN queue[l] : queue[l][i] = t
Waiting(t) == \E l \in Lock : Waits(t, l)

(* A guard of task u's that keeps another from lock l.                     *)
Conflicts(u, l, op) ==
    \/ <<l, "write">> \in held[u]
    \/ op = "write" /\ <<l, "read">> \in held[u]

(* Mutant: writers do not wait for readers.                                *)
FitsBeside(l, op) == \A u \in Task : <<l, "write">> \notin held[u]

Fits(l, op) == \A u \in Task : ~ Conflicts(u, l, op)

-----------------------------------------------------------------------------

(* A frame arrives, the interval ends, the task was spawned, or the call   *)
(* made.                                                                   *)
Start(t) ==
    /\ ~ Busy(t)
    /\ todo' = [todo EXCEPT ![t] = Ways(t)]
    /\ UNCHANGED <<held, queue>>

GoesOnWith(t, step) == {way \in todo[t] : way # <<>> /\ Head(way) = step}

(* The step is over.  A handler that returns drops all its guards.         *)
StepDone(t, step) ==
    LET rest == {Tail(way) : way \in GoesOnWith(t, step)}
        guards == held[t] \cup IF step.op = "send" THEN {} ELSE {<<step.lock, step.op>>}
    IN /\ todo' = [todo EXCEPT ![t] = rest]
       /\ held' = [held EXCEPT ![t] =
             IF rest = Idle THEN {} ELSE {g \in guards : g[1] \notin step.drops}]

(* The lock is free, and nobody waits for it, or the task queues.          *)
Acquire(t) ==
    /\ ~ Waiting(t)
    /\ \E step \in NextSteps(t) :
         /\ step.op # "send"
         /\ IF queue[step.lock] = <<>> /\ Fits(step.lock, step.op)
            THEN StepDone(t, step) /\ UNCHANGED queue
            ELSE /\ queue' = [queue EXCEPT ![step.lock] = Append(@, t)]
                 /\ todo' = [todo EXCEPT ![t] = GoesOnWith(t, step)]
                 /\ UNCHANGED held

(* The first that waits gets the lock.                                     *)
Granted(t) ==
    \E step \in NextSteps(t) :
        /\ Waits(t, step.lock) /\ Head(queue[step.lock]) = t
        /\ Fits(step.lock, step.op)
        /\ StepDone(t, step)
        /\ queue' = [queue EXCEPT ![step.lock] = Tail(@)]

(* The socket takes the frame: there is room, or the peer has read.        *)
SendFrame(t) ==
    /\ \E step \in NextSteps(t) : step.op = "send" /\ StepDone(t, step)
    /\ UNCHANGED queue

(* A handler returns early: it drops its guards.                           *)
Return(t) ==
    /\ Busy(t) /\ ~ Waiting(t) /\ <<>> \in todo[t]
    /\ todo' = [todo EXCEPT ![t] = Idle]
    /\ held' = [held EXCEPT ![t] = {}]
    /\ UNCHANGED queue

Goes(t) == Acquire(t) \/ Granted(t) \/ SendFrame(t) \/ Return(t)

Next == \E t \in Task : Start(t) \/ Goes(t)

Spec == Init /\ [][Next]_vars

(* The runtime runs every task that can go on, and the peers read what     *)
(* their sockets hold.  Nothing has to start.                              *)
FairSpec == Spec /\ \A t \in Task : WF_vars(Goes(t))

-----------------------------------------------------------------------------

TypeOK ==
    /\ held \in [Task -> SUBSET (Lock \X {"read", "write"})]
    /\ \A t \in Task, l \in Lock :
          /\ Waits(t, l) => \A step \in NextSteps(t) : step.lock = l
          /\ \A u \in Task \ {t}, op \in {"read", "write"} :
                <<l, op>> \in held[t] => ~ Conflicts(u, l, op)

(* t waits for lock l, which u keeps from it or asked for before.          *)
WaitsFor(t, u) ==
    \E step \in NextSteps(t) :
        /\ Waits(t, step.lock)
        /\ \/ Conflicts(u, step.lock, step.op)
           \/ \E i, j \in DOMAIN queue[step.lock] :
                i < j /\ queue[step.lock][i] = u /\ queue[step.lock][j] = t

(* Tasks each of which waits for another of them.                          *)
Deadlocked(ts) == ts # {} /\ \A t \in ts : \E u \in ts : WaitsFor(t, u)

(* In handle_setup_ack: it asks for the ascending path with paths locked,  *)
(* where all the others lock the ascending path first.                     *)
ClosesCircle(t) == Waits(t, "ascending") /\ <<"paths", "write">> \in held[t]

(* Handlers take the path locks in different orders, and keep them while   *)
(* they send, and while others queue.  Only handle_setup_ack can close a   *)
(* circle of tasks that wait for each other: without it none comes about.  *)
OnlySetupAcksDeadlock ==
    \A ts \in SUBSET Task : Deadlocked(ts) => \E t \in ts : ClosesCircle(t)

AckDeadlock == \E ts \in SUBSET Task : Deadlocked(ts) /\ \E t \in ts : ClosesCircle(t)

(* As long as the peers read, every handler ends, and no reader or writer  *)
(* is overtaken for ever, unless that circle has closed.                   *)
HandlersEnd == \A t \in Task : Busy(t) ~> ~ Busy(t) \/ AckDeadlock

=============================================================================
