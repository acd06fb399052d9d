------------------------------- MODULE Sessions -------------------------------
(***************************************************************************)
(* Client, Session and SendSession: how the bytes users write on one end   *)
(* reach the sessions of another (src/src/client.rs, session.rs, the       *)
(* upload loop of Router::start, and the chat in main.rs as their user).   *)
(*                                                                         *)
(* One client is modelled with its download loop and its map of session    *)
(* senders, for every remote key the sending half of that key's client.    *)
(* Its upload loop and the network between are one step: a frame arrives,  *)
(* is lost on the way, or fails on the way out.  A frame is its number;    *)
(* its payload is abstracted to whether it fits the reader's buffer.       *)
(***************************************************************************)
EXTENDS Naturals, Sequences

CONSTANTS Key,        \* the keys of the remote clients
          Dialer,     \* user tasks, each of which dials once
          Cap,        \* capacity of a channel (100 in the code)
          MaxFrames,  \* bound: MaxFrames[k], the frames k's user writes
          MaxChan,    \* bound: session channels, one per frame and dial
          Long,       \* the frames that do not fit the reader's buffer
          Fragile,    \* the keys whose router may fail to send
          None        \* no key, no session

ASSUME SessionsAssumption ==
    /\ Cap \in Nat \ {0} /\ MaxFrames \in [Key -> Nat] /\ MaxChan \in Nat
    /\ Fragile \subseteq Key /\ None \notin Key \cup Dialer \cup Nat

Chan == 1 .. MaxChan

VARIABLES
    wrote,      \* wrote[k]: the frames k's client accepted from its user
    upload,     \* upload[k]: k's upload channel
    uploading,  \* uploading[k]: k's upload loop runs
    hung,       \* hung[k]: a poll_write returned Pending, without a waker
    download,   \* the client's download channel
    loop,       \* where the download loop is, with its frame and session
    senders,    \* session_senders: the open session of a key, or None
    chan,       \* chan[c]: key, queue and receiver of session channel c
    incoming,   \* the channel of new sessions to the SessionListener
    listening,  \* the SessionListener was not dropped
    dialing,    \* dialing[d]: where the dial of task d is, and for which key
    dealt,      \* history: dealt[c], the last frame given to channel c
    contended   \* history: keys for which two sessions were made at once

remote == <<wrote, upload, uploading, hung>>
local == <<download, loop, senders, chan, incoming, listening, dialing,
           dealt, contended>>
vars == <<wrote, upload, uploading, hung, download, loop, senders, chan,
          incoming, listening, dialing, dealt, contended>>

Frame == [key : Key, no : Nat]

(* A receiver is with the loop that made it, in `incoming', or with a user. *)
Receiver == {"unmade", "made", "listed", "held", "dropped"}

TypeOK ==
    /\ wrote \in [Key -> Nat]
    /\ upload \in [Key -> Seq(Nat)]
    /\ uploading \in [Key -> BOOLEAN] /\ hung \in [Key -> BOOLEAN]
    /\ download \in Seq(Frame)
    /\ loop \in [at : {"recv", "send", "remove", "insert", "offer"},
                 frame : Frame \cup {None}, chan : Chan \cup {None}]
    /\ loop.at # "recv" => loop.frame \in Frame /\ loop.chan \in Chan
    /\ senders \in [Key -> Chan \cup {None}]
    /\ chan \in [Chan -> [key : Key \cup {None}, queue : Seq(Nat),
                          receiver : Receiver]]
    /\ incoming \in Seq(Chan) /\ listening \in BOOLEAN
    /\ dialing \in [Dialer -> [at : {"idle", "insert", "returned"},
                               key : Key \cup {None}]]
    /\ \A k \in Key : Len(upload[k]) <= Cap
    /\ Len(download) <= Cap /\ Len(incoming) <= Cap
    /\ \A c \in Chan : Len(chan[c].queue) <= Cap

Idle == [at |-> "recv", frame |-> None, chan |-> None]

Init ==
    /\ wrote = [k \in Key |-> 0]
    /\ upload = [k \in Key |-> <<>>]
    /\ uploading = [k \in Key |-> TRUE]
    /\ hung = [k \in Key |-> FALSE]
    /\ download = <<>>
    /\ loop = Idle
    /\ senders = [k \in Key |-> None]
    /\ chan = [c \in Chan |-> [key |-> None, queue |-> <<>>, receiver |-> "unmade"]]
    /\ incoming = <<>>
    /\ listening = TRUE
    /\ dialing = [d \in Dialer |-> [at |-> "idle", key |-> None]]
    /\ dealt = [c \in Chan |-> 0]
    /\ contended = {}

-----------------------------------------------------------------------------
(* The sending half: poll_write of a Session or SendSession, upload loop.  *)

(* Mutant: the upload channel takes any number of frames.                  *)
WriteUnbounded(k) ==
    /\ wrote[k] < MaxFrames[k]
    /\ wrote' = [wrote EXCEPT ![k] = @ + 1]
    /\ upload' = [upload EXCEPT ![k] = Append(@, wrote[k] + 1)]
    /\ UNCHANGED <<uploading, hung, local>>

Write(k) ==
    /\ wrote[k] < MaxFrames[k] /\ ~ hung[k]
    /\ IF Len(upload[k]) < Cap
       THEN /\ wrote' = [wrote EXCEPT ![k] = @ + 1]
            /\ upload' = [upload EXCEPT ![k] = Append(@, wrote[k] + 1)]
            /\ UNCHANGED <<uploading, hung>>
       ELSE /\ hung' = [hung EXCEPT ![k] = TRUE]
            /\ UNCHANGED <<wrote, upload, uploading>>
    /\ UNCHANGED local

TakeUpload(k) ==
    /\ uploading[k] /\ upload[k] # <<>>
    /\ upload' = [upload EXCEPT ![k] = Tail(@)]
    /\ UNCHANGED <<wrote, hung>>

(* The frame reaches the router of its destination, which awaits room in   *)
(* the download channel.                                                   *)
Arrive(k) ==
    /\ TakeUpload(k) /\ Len(download) < Cap
    /\ download' = Append(download, [key |-> k, no |-> Head(upload[k])])
    /\ UNCHANGED <<uploading, loop, senders, chan, incoming, listening,
                   dialing, dealt, contended>>

LoseOnTheWay(k) ==
    /\ TakeUpload(k)
    /\ UNCHANGED <<uploading, local>>

(* handle_frame returns an error, and the `?' ends the upload loop.        *)
UploadFails(k) ==
    /\ k \in Fragile /\ TakeUpload(k)
    /\ uploading' = [uploading EXCEPT ![k] = FALSE]
    /\ UNCHANGED local

-----------------------------------------------------------------------------
(* The map of senders and its lock.                                        *)

(* Mutant: drop(senders) is forgotten.                                     *)
ReadHeldTooLong == loop.at \in {"send", "remove", "insert"}

(* The loop keeps the read guard while it awaits room in a session.        *)
ReadHeld == loop.at = "send"

Unmade == {c \in Chan : chan[c].receiver = "unmade"}
Fresh == CHOOSE c \in Chan : c \in Unmade

MakeChannel(k, queue, receiver) ==
    /\ Unmade # {}                \* bound
    /\ chan' = [chan EXCEPT ![Fresh] =
                    [key |-> k, queue |-> queue, receiver |-> receiver]]

(* Dropping the receiver of a channel drops what is queued in it.          *)
Closed(s) == [key |-> s.key, queue |-> <<>>, receiver |-> "dropped"]

(* Somebody else has looked for a session of k, and is about to make one.  *)
MakingElsewhere(k, d) ==
    \/ loop.at \in {"insert", "remove"} /\ loop.frame.key = k
    \/ \E e \in Dialer \ {d} : dialing[e] = [at |-> "insert", key |-> k]

Contend(k, d) ==
    contended' = IF MakingElsewhere(k, d) THEN contended \cup {k} ELSE contended

-----------------------------------------------------------------------------
(* The download loop of Client::new.                                       *)

LoopFinds ==
    /\ loop.at = "recv" /\ download # <<>>
    /\ LET f == Head(download)
       IN /\ senders[f.key] # None
          /\ loop' = [at |-> "send", frame |-> f, chan |-> senders[f.key]]
    /\ download' = Tail(download)
    /\ UNCHANGED <<remote, senders, chan, incoming, listening, dialing,
                   dealt, contended>>

LoopCreates ==
    /\ loop.at = "recv" /\ download # <<>>
    /\ LET f == Head(download)
       IN /\ senders[f.key] = None
          /\ MakeChannel(f.key, <<f.no>>, "made")
          /\ dealt' = [dealt EXCEPT ![Fresh] = f.no]
          /\ Contend(f.key, None)
          /\ loop' = [at |-> "insert", frame |-> f, chan |-> Fresh]
    /\ download' = Tail(download)
    /\ UNCHANGED <<remote, senders, incoming, listening, dialing>>

(* Mutant: try_send; a full session is taken for a dropped one.            *)
LoopTriesToSend ==
    /\ loop.at = "send"
    /\ LET c == loop.chan
       IN IF chan[c].receiver = "dropped" \/ Len(chan[c].queue) = Cap
          THEN /\ loop' = [loop EXCEPT !.at = "remove"]
               /\ UNCHANGED <<chan, dealt>>
          ELSE /\ chan' = [chan EXCEPT ![c].queue = Append(@, loop.frame.no)]
               /\ dealt' = [dealt EXCEPT ![c] = loop.frame.no]
               /\ loop' = Idle
    /\ UNCHANGED <<remote, download, senders, incoming, listening, dialing, contended>>

(* sender.send().await: the frame is lost if the session was dropped.      *)
LoopSends ==
    /\ loop.at = "send"
    /\ LET c == loop.chan
       IN IF chan[c].receiver = "dropped"
          THEN /\ loop' = [loop EXCEPT !.at = "remove"]
               /\ UNCHANGED <<chan, dealt>>
          ELSE /\ Len(chan[c].queue) < Cap
               /\ chan' = [chan EXCEPT ![c].queue = Append(@, loop.frame.no)]
               /\ dealt' = [dealt EXCEPT ![c] = loop.frame.no]
               /\ loop' = Idle
    /\ UNCHANGED <<remote, download, senders, incoming, listening, dialing, contended>>

LoopRemoves ==
    /\ loop.at = "remove" /\ ~ ReadHeld
    /\ senders' = [senders EXCEPT ![loop.frame.key] = None]
    /\ loop' = Idle
    /\ UNCHANGED <<remote, download, chan, incoming, listening, dialing,
                   dealt, contended>>

LoopInserts ==
    /\ loop.at = "insert" /\ ~ ReadHeld
    /\ senders' = [senders EXCEPT ![loop.frame.key] = loop.chan]
    /\ loop' = [loop EXCEPT !.at = "offer"]
    /\ UNCHANGED <<remote, download, chan, incoming, listening, dialing,
                   dealt, contended>>

(* new_incoming.send().await: without a listener the session is dropped,   *)
(* its sender stays.                                                       *)
LoopOffers ==
    /\ loop.at = "offer"
    /\ IF listening
       THEN /\ Len(incoming) < Cap
            /\ incoming' = Append(incoming, loop.chan)
            /\ chan' = [chan EXCEPT ![loop.chan].receiver = "listed"]
       ELSE /\ chan' = [chan EXCEPT ![loop.chan] = Closed(@)]
            /\ UNCHANGED incoming
    /\ loop' = Idle
    /\ UNCHANGED <<remote, download, senders, listening, dialing, dealt, contended>>

-----------------------------------------------------------------------------
(* Client::dial.                                                           *)

(* Mutant: no look at the map.                                             *)
DialChecksNothing(d, k) ==
    /\ dialing[d].at = "idle"
    /\ dialing' = [dialing EXCEPT ![d] = [at |-> "insert", key |-> k]]
    /\ Contend(k, d)
    /\ UNCHANGED <<remote, download, loop, senders, chan, incoming, listening, dealt>>

DialChecks(d, k) ==
    /\ dialing[d].at = "idle"
    /\ IF senders[k] # None       \* SessionAlreadyExists
       THEN /\ dialing' = [dialing EXCEPT ![d] = [at |-> "returned", key |-> k]]
            /\ UNCHANGED contended
       ELSE /\ dialing' = [dialing EXCEPT ![d] = [at |-> "insert", key |-> k]]
            /\ Contend(k, d)
    /\ UNCHANGED <<remote, download, loop, senders, chan, incoming, listening, dealt>>

DialInserts(d) ==
    /\ dialing[d].at = "insert" /\ ~ ReadHeld
    /\ LET k == dialing[d].key
       IN /\ MakeChannel(k, <<>>, "held")
          /\ senders' = [senders EXCEPT ![k] = Fresh]
    /\ dialing' = [dialing EXCEPT ![d].at = "returned"]
    /\ UNCHANGED <<remote, download, loop, incoming, listening, dealt, contended>>

-----------------------------------------------------------------------------
(* The users of the sessions.                                              *)

(* The listener hands out the next session.                                *)
Accept ==
    /\ listening /\ incoming # <<>>
    /\ incoming' = Tail(incoming)
    /\ chan' = [chan EXCEPT ![Head(incoming)].receiver = "held"]
    /\ UNCHANGED <<remote, download, loop, senders, listening, dialing,
                   dealt, contended>>

DropListener ==
    /\ listening
    /\ listening' = FALSE
    /\ incoming' = <<>>
    /\ chan' = [c \in Chan |-> IF chan[c].receiver = "listed"
                  THEN Closed(chan[c])
                  ELSE chan[c]]
    /\ UNCHANGED <<remote, download, loop, senders, dialing, dealt, contended>>

DropSession(c) ==
    /\ chan[c].receiver = "held"
    /\ chan' = [chan EXCEPT ![c] = Closed(@)]
    /\ UNCHANGED <<remote, download, loop, senders, incoming, listening,
                   dialing, dealt, contended>>

(* poll_read.  A frame that does not fit the buffer is lost with an error, *)
(* upon which the chat of main.rs drops the session.                       *)
Read(c) ==
    /\ chan[c].receiver = "held" /\ chan[c].queue # <<>>
    /\ chan' = IF Head(chan[c].queue) \in Long
               THEN [chan EXCEPT ![c] = Closed(@)]
               ELSE [chan EXCEPT ![c].queue = Tail(@)]
    /\ UNCHANGED <<remote, download, loop, senders, incoming, listening,
                   dialing, dealt, contended>>

(* Nothing can be sent to channel c any more.                              *)
SenderGone(c) ==
    /\ senders[chan[c].key] # c
    /\ loop.chan = c => loop.at \notin {"send", "insert"}

(* poll_read of a session whose sender was overwritten: BrokenPipe.        *)
ReadBroken(c) ==
    /\ chan[c].receiver = "held" /\ chan[c].queue = <<>> /\ SenderGone(c)
    /\ DropSession(c)

-----------------------------------------------------------------------------

Sending(k) == Write(k) \/ Arrive(k) \/ LoseOnTheWay(k) \/ UploadFails(k)

DownloadLoop ==
    \/ LoopFinds \/ LoopCreates \/ LoopSends
    \/ LoopRemoves \/ LoopInserts \/ LoopOffers

Dialing(d) == DialInserts(d) \/ \E k \in Key : DialChecks(d, k)

Using(c) == Read(c) \/ ReadBroken(c) \/ DropSession(c)

Next ==
    \/ \E k \in Key : Sending(k)
    \/ DownloadLoop
    \/ \E d \in Dialer : Dialing(d)
    \/ \E c \in Chan : Using(c)
    \/ Accept \/ DropListener

Spec == Init /\ [][Next]_vars

(* The loops run, dials go on, and users take and read their sessions;     *)
(* nobody has to write, dial or drop anything.                             *)
Fairness ==
    /\ \A k \in Key : WF_vars(Arrive(k))
    /\ WF_vars(DownloadLoop) /\ WF_vars(Accept)
    /\ \A d \in Dialer : WF_vars(DialInserts(d))
    /\ \A c \in Chan : WF_vars(Read(c) \/ ReadBroken(c))

FairSpec == Spec /\ Fairness

-----------------------------------------------------------------------------

(* The frames that arrived and were not dealt out: the one on the loop's   *)
(* hands and those in the download channel.                                *)
Arrived == (IF loop.at = "send" THEN <<loop.frame>> ELSE <<>>) \o download

Mail == INSTANCE Mailbox WITH
            way <- upload,
            arrived <- Arrived,
            of <- [c \in Chan |-> chan[c].key],
            box <- [c \in Chan |-> chan[c].queue],
            closed <- {c \in Chan : chan[c].receiver = "dropped"}

(* The loops, channels, dials and drops of client.rs and session.rs deal   *)
(* the frames out in the order of their arrival, those of a key in the     *)
(* order they were written and to one session after the other, and lose    *)
(* one that arrived only after a session of its key was dropped.           *)
DealsFrames == Mail!Spec

(* A session in a user's hands that the client no longer sends to, though  *)
(* nobody dropped it, comes from a dial that looked for a session of its   *)
(* key while another one was being made: dial checks and inserts under two *)
(* locks (client.rs 140-147).                                              *)
LiveSessionIsKnown ==
    \A c \in Chan : chan[c].receiver \in {"listed", "held"}
        => senders[chan[c].key] = c \/ chan[c].key \in contended

(* A frame of k waits to be dealt out.                                     *)
Waits(k) == \E i \in DOMAIN Arrived : Arrived[i].key = k

(* The read guard held over a full session, full channels and dropped      *)
(* receivers hold up the loop only until a user reads: every frame that    *)
(* was accepted gets dealt out or lost, unless its router failed to send,  *)
FramesGetThrough ==
    \A k \in Key : /\ upload[k] # <<>> ~> upload[k] = <<>> \/ ~ uploading[k]
                   /\ Waits(k) ~> ~ Waits(k)

(* and every dial returns.                                                 *)
DialsReturn ==
    \A d \in Dialer : dialing[d].at = "insert" ~> dialing[d].at = "returned"

=============================================================================
