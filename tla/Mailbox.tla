------------------------------- MODULE Mailbox -------------------------------
(***************************************************************************)
(* What sessions promise their users: a stream of frames per sender, dealt *)
(* out to sessions.  Frames may be lost on the way.  Those that arrive are *)
(* served in the order of their arrival; those of a sender go, in the      *)
(* order they were written, to one session until that is given up for a    *)
(* later one; a session hands out its frames in that order.  A frame that  *)
(* arrived is lost only if a session of its sender had been closed.        *)
(***************************************************************************)
EXTENDS Naturals, Sequences

CONSTANTS Key,     \* the senders
          Chan,    \* the sessions
          None     \* no sender

VARIABLES wrote,   \* wrote[k]: the number of frames k wrote
          way,     \* way[k]: those of them on their way
          arrived, \* the frames that arrived and are not dealt out
          of,      \* of[c]: the sender of session c, once it is opened
          box,     \* box[c]: frames dealt to session c, not taken yet
          dealt,   \* dealt[c]: the last frame dealt to session c, or 0
          closed   \* sessions their user closed or refused

vars == <<wrote, way, arrived, of, box, dealt, closed>>

Init ==
    /\ wrote = [k \in Key |-> 0]
    /\ way = [k \in Key |-> <<>>]
    /\ arrived = <<>>
    /\ of = [c \in Chan |-> None]
    /\ box = [c \in Chan |-> <<>>]
    /\ dealt = [c \in Chan |-> 0]
    /\ closed = {}

(* k writes its next frame.                                                *)
Write(k) ==
    /\ wrote' = [wrote EXCEPT ![k] = @ + 1]
    /\ way' = [way EXCEPT ![k] = Append(@, wrote'[k])]
    /\ UNCHANGED <<arrived, of, box, dealt, closed>>

Travel(k) ==
    /\ way[k] # <<>>
    /\ way' = [way EXCEPT ![k] = Tail(@)]
    /\ \/ arrived' = Append(arrived, [key |-> k, no |-> Head(way[k])])
       \/ UNCHANGED arrived      \* lost
    /\ UNCHANGED <<wrote, of, box, dealt, closed>>

Open(k, c) ==
    /\ of[c] = None
    /\ of' = [of EXCEPT ![c] = k]
    /\ UNCHANGED <<wrote, way, arrived, box, dealt, closed>>

Sessions(k) == {c \in Chan : of[c] = k}

(* The next frame goes to the session of the one before, or to one that    *)
(* got none so far.                                                        *)
Deal(k, c) ==
    /\ arrived # <<>> /\ Head(arrived).key = k
    /\ of[c] \in {k, None} /\ of' = [of EXCEPT ![c] = k]
    /\ dealt[c] = 0 \/ \A d \in Sessions(k) : dealt[d] <= dealt[c]
    /\ arrived' = Tail(arrived)
    /\ box' = [box EXCEPT ![c] = Append(@, Head(arrived).no)]
    /\ dealt' = [dealt EXCEPT ![c] = Head(arrived).no]
    /\ UNCHANGED <<wrote, way, closed>>

(* The next frame was for a session that its user closed.                  *)
Refuse(k) ==
    /\ arrived # <<>> /\ Head(arrived).key = k
    /\ Sessions(k) \cap closed # {}
    /\ arrived' = Tail(arrived)
    /\ UNCHANGED <<wrote, way, of, box, dealt, closed>>

Take(c) ==
    /\ box[c] # <<>>
    /\ box' = [box EXCEPT ![c] = Tail(@)]
    /\ UNCHANGED <<wrote, way, arrived, of, dealt, closed>>

Close(S) ==
    /\ closed' = closed \cup S
    /\ box' = [c \in Chan |-> IF c \in S THEN <<>> ELSE box[c]]
    /\ UNCHANGED <<wrote, way, arrived, of, dealt>>

Next == \/ \E k \in Key : \/ Write(k) \/ Travel(k) \/ Refuse(k)
                          \/ \E c \in Chan : Open(k, c) \/ Deal(k, c)
        \/ \E c \in Chan : Take(c)
        \/ \E S \in SUBSET Chan : Close(S)

Spec == Init /\ [][Next]_vars

=============================================================================
