----------------------------- MODULE TreeRestart -----------------------------
(***************************************************************************)
(* SpanningTree with routers that crash and start again.  A router keeps   *)
(* nothing on disk: Router::new begins with an empty state and sequence    *)
(* number 0 (src/src/router.rs), under the same key.                       *)
(***************************************************************************)
EXTENDS SpanningTree

CONSTANT Crashing    \* the routers that may crash, each of them once

VARIABLE crashed     \* the routers that did

restartVars == <<vars, crashed>>

RestartInit == Init /\ crashed = {}

(* The process ends and starts again; its sockets are closed, what it sent *)
(* can still be read.                                                      *)
Restart(n) ==
    /\ n \in Crashing \ crashed
    /\ Calm => Quiet
    /\ \A m \in Node : "connecting" \notin {conn[n][m], conn[m][n]}
    /\ crashed' = crashed \cup {n}
    /\ parent' = [parent EXCEPT ![n] = n]
    /\ ann' = [ann EXCEPT ![n] = [m \in Node |-> None]]
    /\ older' = [older EXCEPT ![n] = {}]
    /\ expired' = [expired EXCEPT ![n] = {}]
    /\ sequence' = [sequence EXCEPT ![n] = 0]
    /\ timer' = [timer EXCEPT ![n] = FALSE]
    /\ tasks' = [tasks EXCEPT ![n] = [wait |-> 0, sleep |-> 0, now |-> 0]]
    /\ conn' = [conn EXCEPT ![n] =
                  [m \in Node |-> IF conn[n][m] = "idle" THEN "idle" ELSE "closed"]]
    /\ first' = [first EXCEPT ![n] = [m \in Node |-> None]]
    /\ net' = [m \in Node |-> [net[m] EXCEPT ![n] = <<>>]]

(* Both ends saw the connection close: they call connect() again.          *)
Redial(n, m) ==
    /\ n \in crashed
    /\ conn[n][m] = "closed" /\ conn[m][n] = "closed" /\ net[n][m] = <<>>
    /\ conn' = [conn EXCEPT ![n][m] = "idle", ![m][n] = "idle"]
    /\ UNCHANGED <<router, first, net, crashed>>

RestartNext ==
    \/ Next /\ UNCHANGED crashed
    \/ \E n \in Node : Restart(n)
    \/ \E n, m \in Node : Redial(n, m)

(* As Fairness; a ticker that fires every half hour finds its router at    *)
(* rest again and again, and the user dials a router that came back.       *)
RestartFairness ==
    /\ Fairness
    /\ \A n \in Node : SF_restartVars(MaintainTree(n) /\ UNCHANGED crashed)
    /\ \A n, m \in Node : WF_restartVars(Redial(n, m))

RestartSpec == RestartInit /\ [][RestartNext]_restartVars /\ RestartFairness

(* A restarted root counts from 0 again, and routers that did not lose it  *)
(* drop its announcements as replays (router.rs 619-626) until it has      *)
(* counted up to where it was: once it has, at rest there is one tree.     *)
CaughtUpAtRest == SequenceIsIssued => OneTreeAtRest

(* Until then they may disagree about the round and the paths, but at rest *)
(* they all follow the same root key: nobody is left with a weaker root.   *)
OneRootAtRest ==
    Quiet /\ Joined => \A n, m \in Node : Current(n).root.key = Current(m).root.key

=============================================================================
