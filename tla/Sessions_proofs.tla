---------------------------- MODULE Sessions_proofs ----------------------------
(***************************************************************************)
(* Proofs about Sessions, for any keys, dials, frames and capacities: the  *)
(* channels keep to their capacity, the session a user has is the one the  *)
(* client sends to, and the sessions implement Mailbox.                    *)
(*                                                                         *)
(* Known is what the download loop, the dials and the listener rely on of  *)
(* each other between the two locks that each of them takes.  FramesOK is  *)
(* the order of the frames, which the refinement rests on: what a session  *)
(* got was written before all that is still to be dealt out, and the one   *)
(* in the map got the latest frame of its key, or none.                    *)
(***************************************************************************)
EXTENDS Sessions, SequenceTheorems, TLAPS

Session == [key : Key \cup {None}, queue : Seq(Nat), receiver : Receiver]
At == {"recv", "send", "remove", "insert", "offer"}

(* What TypeOK says of each variable, without the capacities.              *)
LEMMA Parts ==
  ASSUME TypeOK
  PROVE  /\ wrote \in [Key -> Nat] /\ upload \in [Key -> Seq(Nat)]
         /\ uploading \in [Key -> BOOLEAN] /\ hung \in [Key -> BOOLEAN]
         /\ download \in Seq(Frame)
         /\ loop \in [at : At, frame : Frame \cup {None}, chan : Chan \cup {None}]
         /\ loop.at # "recv" => loop.frame \in Frame /\ loop.chan \in Chan
         /\ senders \in [Key -> Chan \cup {None}]
         /\ chan \in [Chan -> Session]
         /\ incoming \in Seq(Chan) /\ listening \in BOOLEAN
         /\ dialing \in [Dialer -> [at : {"idle", "insert", "returned"},
                                    key : Key \cup {None}]]
BY DEF TypeOK, Session, At

(* A new channel is one that was not made.                                 *)
LEMMA FreshUnmade ==
  ASSUME Unmade # {}
  PROVE  Fresh \in Chan /\ chan[Fresh].receiver = "unmade"
<1>1. \E c \in Chan : c \in Unmade
  BY DEF Unmade
<1>2. Fresh \in Chan /\ Fresh \in Unmade
  BY <1>1 DEF Fresh
<1> QED
  BY <1>2 DEF Unmade

LEMMA MakesFresh ==
  ASSUME TypeOK, NEW k \in Key, NEW q \in Seq(Nat), NEW r \in Receiver,
         MakeChannel(k, q, r)
  PROVE  /\ Fresh \in Chan /\ chan[Fresh].receiver = "unmade"
         /\ chan' \in [Chan -> Session]
         /\ chan'[Fresh].key = k /\ chan'[Fresh].queue = q
         /\ chan'[Fresh].receiver = r
         /\ \A c \in Chan : c # Fresh => chan'[c] = chan[c]
<1>1. Fresh \in Chan /\ chan[Fresh].receiver = "unmade"
  BY FreshUnmade DEF MakeChannel
<1> DEFINE new == [key |-> k, queue |-> q, receiver |-> r]
<1>2. chan' = [chan EXCEPT ![Fresh] = new]
  BY DEF MakeChannel
<1>3. new \in Session /\ new.key = k /\ new.queue = q /\ new.receiver = r
  BY DEF Session
<1>4. chan \in [Chan -> Session]
  BY Parts
<1> HIDE DEF new
<1>5. chan'[Fresh] = new
  BY <1>1, <1>2, <1>4
<1> QED
  BY <1>1, <1>2, <1>3, <1>4, <1>5

(* The ways the other actions change a channel.                            *)
Closes(c) == chan' = [chan EXCEPT ![c] = Closed(@)]
Hands(c, r) == chan' = [chan EXCEPT ![c].receiver = r]
Fills(c, q) == chan' = [chan EXCEPT ![c].queue = q]

LEMMA ClosesOne ==
  ASSUME TypeOK, NEW c \in Chan, Closes(c)
  PROVE  /\ chan' \in [Chan -> Session]
         /\ chan'[c].key = chan[c].key /\ chan'[c].queue = <<>>
         /\ chan'[c].receiver = "dropped"
         /\ \A d \in Chan : d # c => chan'[d] = chan[d]
<1>1. chan \in [Chan -> Session]
  BY Parts
<1>2. <<>> \in Seq(Nat)
  OBVIOUS
<1> DEFINE new == Closed(chan[c])
<1>3. new \in Session /\ new.key = chan[c].key /\ new.queue = <<>>
      /\ new.receiver = "dropped"
  BY <1>1, <1>2 DEF Session, Receiver, Closed
<1>4. chan' = [chan EXCEPT ![c] = new]
  BY <1>1 DEF Closes
<1> HIDE DEF new
<1>5. chan'[c] = new
  BY <1>1, <1>4
<1> QED
  BY <1>1, <1>3, <1>4, <1>5

LEMMA HandsOne ==
  ASSUME TypeOK, NEW c \in Chan, NEW r \in Receiver, Hands(c, r)
  PROVE  /\ chan' \in [Chan -> Session]
         /\ chan'[c].key = chan[c].key /\ chan'[c].queue = chan[c].queue
         /\ chan'[c].receiver = r
         /\ \A d \in Chan : d # c => chan'[d] = chan[d]
<1> DEFINE new == [chan[c] EXCEPT !.receiver = r]
<1>1. chan \in [Chan -> Session]
  BY Parts
<1>2. new \in Session /\ new.key = chan[c].key /\ new.queue = chan[c].queue
      /\ new.receiver = r
  BY <1>1 DEF Session
<1>3. chan' = [chan EXCEPT ![c] = new]
  BY <1>1 DEF Hands
<1> HIDE DEF new
<1>4. chan'[c] = new
  BY <1>1, <1>3
<1> QED
  BY <1>1, <1>2, <1>3, <1>4

LEMMA FillsOne ==
  ASSUME TypeOK, NEW c \in Chan, NEW q \in Seq(Nat), Fills(c, q)
  PROVE  /\ chan' \in [Chan -> Session]
         /\ chan'[c].key = chan[c].key /\ chan'[c].queue = q
         /\ chan'[c].receiver = chan[c].receiver
         /\ \A d \in Chan : d # c => chan'[d] = chan[d]
<1> DEFINE new == [chan[c] EXCEPT !.queue = q]
<1>1. chan \in [Chan -> Session]
  BY Parts
<1>2. new \in Session /\ new.key = chan[c].key /\ new.queue = q
      /\ new.receiver = chan[c].receiver
  BY <1>1 DEF Session
<1>3. chan' = [chan EXCEPT ![c] = new]
  BY <1>1 DEF Fills
<1> HIDE DEF new
<1>4. chan'[c] = new
  BY <1>1, <1>3
<1> QED
  BY <1>1, <1>2, <1>3, <1>4

(* A channel's first element and its rest, and a channel with one more.    *)
LEMMA TakesFirst ==
  ASSUME NEW S, NEW s \in Seq(S), s # <<>>
  PROVE  /\ Head(s) \in S /\ Head(s) = s[1] /\ Tail(s) \in Seq(S)
         /\ Len(s) \in Nat \ {0} /\ Len(Tail(s)) = Len(s) - 1
         /\ \A i \in 1 .. Len(Tail(s)) : Tail(s)[i] = s[i + 1]
OBVIOUS

LEMMA AddsLast ==
  ASSUME NEW S, NEW s \in Seq(S), NEW e \in S
  PROVE  /\ Append(s, e) \in Seq(S) /\ Len(s) \in Nat
         /\ Len(Append(s, e)) = Len(s) + 1
         /\ Append(s, e)[Len(s) + 1] = e
         /\ \A i \in 1 .. Len(s) : Append(s, e)[i] = s[i]
OBVIOUS

-----------------------------------------------------------------------------
(* The types, one action at a time.                                        *)

LEMMA WriteTypes == ASSUME TypeOK, NEW k \in Key, Write(k) PROVE TypeOK'
<1>1. CASE Len(upload[k]) < Cap
  <2>1. wrote' = [wrote EXCEPT ![k] = @ + 1]
        /\ upload' = [upload EXCEPT ![k] = Append(@, wrote[k] + 1)]
    BY <1>1 DEF Write
  <2>2. Append(upload[k], wrote[k] + 1) \in Seq(Nat)
        /\ Len(Append(upload[k], wrote[k] + 1)) = Len(upload[k]) + 1
        /\ Len(upload[k]) \in Nat
    BY Parts, AddsLast
  <2>3. upload' \in [Key -> Seq(Nat)] /\ wrote' \in [Key -> Nat]
    BY <2>1, <2>2, Parts
  <2>4. \A j \in Key : Len(upload'[j]) <= Cap
    BY <1>1, <2>1, <2>2, SessionsAssumption DEF TypeOK
  <2> QED
    BY <1>1, <2>3, <2>4 DEF Write, TypeOK, local
<1>2. CASE ~ (Len(upload[k]) < Cap)
  BY <1>2 DEF Write, TypeOK, local
<1> QED
  BY <1>1, <1>2

LEMMA TakesUpload ==
  ASSUME TypeOK, NEW k \in Key, TakeUpload(k)
  PROVE  /\ upload' \in [Key -> Seq(Nat)] /\ wrote' = wrote /\ hung' = hung
         /\ upload[k] \in Seq(Nat) /\ upload[k] # <<>>
         /\ upload'[k] = Tail(upload[k])
         /\ \A j \in Key : j # k => upload'[j] = upload[j]
         /\ \A j \in Key : Len(upload'[j]) <= Cap
<1>1. upload \in [Key -> Seq(Nat)] /\ upload[k] \in Seq(Nat) /\ upload[k] # <<>>
  BY Parts DEF TakeUpload
<1>2. Tail(upload[k]) \in Seq(Nat) /\ Len(Tail(upload[k])) = Len(upload[k]) - 1
      /\ Len(upload[k]) \in Nat
  BY <1>1, TakesFirst
<1>3. upload' = [upload EXCEPT ![k] = Tail(@)]
  BY DEF TakeUpload
<1>4. \A j \in Key : Len(upload'[j]) <= Cap
  BY <1>1, <1>2, <1>3, SessionsAssumption DEF TypeOK
<1> QED
  BY <1>1, <1>2, <1>3, <1>4 DEF TakeUpload

LEMMA ArriveTypes == ASSUME TypeOK, NEW k \in Key, Arrive(k) PROVE TypeOK'
<1> DEFINE f == [key |-> k, no |-> Head(upload[k])]
<1>1. f \in Frame /\ download \in Seq(Frame)
  BY TakesUpload, TakesFirst, Parts DEF Arrive, Frame
<1>2. download' = Append(download, f) /\ Len(download) < Cap
  BY DEF Arrive
<1> HIDE DEF f
<1>3. download' \in Seq(Frame) /\ Len(download') = Len(download) + 1 /\ Len(download) \in Nat
  BY <1>1, <1>2, AddsLast
<1>4. Len(download') <= Cap
  BY <1>2, <1>3, SessionsAssumption
<1> QED
  BY <1>3, <1>4, TakesUpload DEF Arrive, TypeOK

LEMMA TravelTypes ==
  ASSUME TypeOK, NEW k \in Key, LoseOnTheWay(k) \/ UploadFails(k) PROVE TypeOK'
<1>1. TakeUpload(k) /\ UNCHANGED local /\ uploading' \in [Key -> BOOLEAN]
  BY Parts DEF LoseOnTheWay, UploadFails
<1> QED
  BY <1>1, TakesUpload DEF TypeOK, local

(* The loop takes the next frame.                                          *)
LEMMA TakesDownload ==
  ASSUME TypeOK, download # <<>>, download' = Tail(download)
  PROVE  /\ download' \in Seq(Frame) /\ Len(download') <= Cap
         /\ Head(download) \in Frame
         /\ Head(download).key \in Key /\ Head(download).no \in Nat
<1>1. download \in Seq(Frame)
  BY Parts
<1>2. Tail(download) \in Seq(Frame) /\ Len(Tail(download)) = Len(download) - 1
      /\ Len(download) \in Nat /\ Head(download) \in Frame
  BY <1>1, TakesFirst
<1>3. Len(download') <= Cap
  BY <1>2, SessionsAssumption DEF TypeOK
<1> QED
  BY <1>2, <1>3 DEF Frame

LEMMA LoopFindsTypes == ASSUME TypeOK, LoopFinds PROVE TypeOK'
<1>1. senders[Head(download).key] \in Chan
  BY TakesDownload, Parts DEF LoopFinds
<1>2. loop' = [at |-> "send", frame |-> Head(download), chan |-> senders[Head(download).key]]
  BY DEF LoopFinds
<1>3. loop' \in [at : At, frame : Frame \cup {None}, chan : Chan \cup {None}]
      /\ loop'.frame \in Frame /\ loop'.chan \in Chan
  BY <1>1, <1>2, TakesDownload DEF LoopFinds, At
<1> QED
  BY <1>3, TakesDownload DEF LoopFinds, TypeOK, remote, At

(* What MakeChannel leaves of the channels' types.                         *)
LEMMA MakesTypes ==
  ASSUME TypeOK, NEW k \in Key, NEW q \in Seq(Nat), NEW r \in Receiver,
         MakeChannel(k, q, r), Len(q) <= Cap
  PROVE  chan' \in [Chan -> Session] /\ \A c \in Chan : Len(chan'[c].queue) <= Cap
<1>1. \A c \in Chan : Len(chan[c].queue) <= Cap
  BY DEF TypeOK
<1>2. chan'[Fresh].queue = q
  BY MakesFresh
<1>3. \A c \in Chan : c # Fresh => chan'[c] = chan[c]
  BY MakesFresh
<1> QED
  BY <1>1, <1>2, <1>3, MakesFresh

LEMMA LoopCreatesTypes == ASSUME TypeOK, LoopCreates PROVE TypeOK'
<1> DEFINE f == Head(download)
<1>1. f.key \in Key /\ f.no \in Nat /\ f \in Frame
  BY TakesDownload DEF LoopCreates
<1>2. <<f.no>> \in Seq(Nat) /\ Len(<<f.no>>) = 1 /\ "made" \in Receiver
  BY <1>1 DEF Receiver
<1>3. MakeChannel(f.key, <<f.no>>, "made")
  BY DEF LoopCreates
<1>4. Fresh \in Chan
  BY <1>1, <1>2, <1>3, MakesFresh
<1>5. Len(<<f.no>>) <= Cap
  BY <1>2, SessionsAssumption
<1>6. chan' \in [Chan -> Session] /\ \A c \in Chan : Len(chan'[c].queue) <= Cap
  BY <1>1, <1>2, <1>3, <1>5, MakesTypes
<1>7. loop' = [at |-> "insert", frame |-> f, chan |-> Fresh]
  BY DEF LoopCreates
<1> HIDE DEF f
<1>8. loop' \in [at : At, frame : Frame \cup {None}, chan : Chan \cup {None}]
      /\ loop'.frame \in Frame /\ loop'.chan \in Chan
  BY <1>1, <1>4, <1>7 DEF At
<1> QED
  BY <1>6, <1>8, TakesDownload DEF LoopCreates, TypeOK, remote, At, Session

LEMMA IdleTypes ==
  /\ Idle \in [at : At, frame : Frame \cup {None}, chan : Chan \cup {None}]
  /\ Idle.at = "recv"
BY DEF Idle, At

LEMMA LoopMoves ==
  ASSUME TypeOK, loop.at # "recv", NEW a \in At, loop' = [loop EXCEPT !.at = a]
  PROVE  /\ loop' = [at |-> a, frame |-> loop.frame, chan |-> loop.chan]
         /\ loop' \in [at : At, frame : Frame \cup {None}, chan : Chan \cup {None}]
         /\ loop.frame \in Frame /\ loop.chan \in Chan
         /\ loop'.frame \in Frame /\ loop'.chan \in Chan
BY Parts

(* The channel that the loop sends to takes the frame.                     *)
Delivers ==
  /\ Len(chan[loop.chan].queue) < Cap
  /\ Fills(loop.chan, Append(chan[loop.chan].queue, loop.frame.no))
  /\ dealt' = [dealt EXCEPT ![loop.chan] = loop.frame.no]
  /\ loop' = Idle

LEMMA LoopSendsCases ==
  ASSUME LoopSends
  PROVE  /\ loop.at = "send"
         /\ UNCHANGED <<remote, download, senders, incoming, listening, dialing, contended>>
         /\ \/ /\ chan[loop.chan].receiver # "dropped"
               /\ Delivers
            \/ /\ chan[loop.chan].receiver = "dropped"
               /\ loop' = [loop EXCEPT !.at = "remove"]
               /\ UNCHANGED <<chan, dealt>>
BY DEF LoopSends, Delivers, Fills

LEMMA LoopSendsTypes == ASSUME TypeOK, LoopSends PROVE TypeOK'
<1> DEFINE c == loop.chan
           q == Append(chan[c].queue, loop.frame.no)
<1>1. c \in Chan /\ loop.frame \in Frame /\ loop.at = "send"
  BY LoopSendsCases, Parts
<1>2. CASE Delivers
  <2>1. chan[c].queue \in Seq(Nat) /\ loop.frame.no \in Nat
    BY <1>1, Parts DEF Session, Frame
  <2>2. q \in Seq(Nat) /\ Len(q) = Len(chan[c].queue) + 1 /\ Len(chan[c].queue) \in Nat
    BY <2>1, AddsLast
  <2>3. Len(q) <= Cap
    BY <1>2, <2>2, SessionsAssumption DEF Delivers
  <2>4. Fills(c, q)
    BY <1>2 DEF Delivers
  <2> HIDE DEF q, c
  <2>5. chan' \in [Chan -> Session]
    BY <1>1, <2>2, <2>4, FillsOne
  <2>6. \A d \in Chan : Len(chan'[d].queue) <= Cap
    <3>1. TAKE d \in Chan
    <3>2. CASE d = c
      BY <3>2, <1>1, <2>2, <2>3, <2>4, FillsOne
    <3>3. CASE d # c
      <4>1. chan'[d] = chan[d]
        BY <3>3, <1>1, <2>2, <2>4, FillsOne
      <4> QED
        BY <4>1 DEF TypeOK
    <3> QED
      BY <3>2, <3>3
  <2>7. loop' \in [at : At, frame : Frame \cup {None}, chan : Chan \cup {None}]
        /\ loop'.at = "recv"
    BY <1>2, IdleTypes DEF Delivers
  <2> QED
    BY <2>5, <2>6, <2>7, LoopSendsCases DEF TypeOK, remote, At, Session
<1>3. CASE loop' = [loop EXCEPT !.at = "remove"] /\ chan' = chan
  <2>1. "remove" \in At
    BY DEF At
  <2> QED
    BY <1>1, <1>3, <2>1, LoopMoves, LoopSendsCases DEF TypeOK, remote, At
<1> QED
  BY <1>2, <1>3, LoopSendsCases

LEMMA LoopRemovesTypes == ASSUME TypeOK, LoopRemoves PROVE TypeOK'
<1>1. senders' \in [Key -> Chan \cup {None}]
  BY Parts DEF LoopRemoves, Frame
<1> QED
  BY <1>1, IdleTypes DEF LoopRemoves, TypeOK, remote, At

LEMMA LoopInsertsTypes == ASSUME TypeOK, LoopInserts PROVE TypeOK'
<1>1. "offer" \in At /\ loop.at # "recv" /\ loop' = [loop EXCEPT !.at = "offer"]
  BY DEF At, LoopInserts
<1>2. senders' \in [Key -> Chan \cup {None}]
  BY <1>1, Parts DEF LoopInserts, Frame
<1> QED
  BY <1>1, <1>2, LoopMoves DEF LoopInserts, TypeOK, remote, At

(* The types of the channels after one was closed, handed on or read.      *)
LEMMA ClosesTypes ==
  ASSUME TypeOK, NEW c \in Chan, Closes(c)
  PROVE  chan' \in [Chan -> Session] /\ \A d \in Chan : Len(chan'[d].queue) <= Cap
<1>1. Len(<<>>) <= Cap
  BY SessionsAssumption
<1>2. chan'[c].queue = <<>>
  BY ClosesOne
<1>3. \A d \in Chan : Len(chan[d].queue) <= Cap
  BY DEF TypeOK
<1>4. \A d \in Chan : d # c => chan'[d] = chan[d]
  BY ClosesOne
<1> QED
  BY <1>1, <1>2, <1>3, <1>4, ClosesOne

LEMMA HandsTypes ==
  ASSUME TypeOK, NEW c \in Chan, NEW r \in Receiver, Hands(c, r)
  PROVE  chan' \in [Chan -> Session] /\ \A d \in Chan : Len(chan'[d].queue) <= Cap
<1>2. chan'[c].queue = chan[c].queue
  BY HandsOne
<1>3. \A d \in Chan : Len(chan[d].queue) <= Cap
  BY DEF TypeOK
<1>4. \A d \in Chan : d # c => chan'[d] = chan[d]
  BY HandsOne
<1> QED
  BY <1>2, <1>3, <1>4, HandsOne

LEMMA LoopOffersTypes == ASSUME TypeOK, LoopOffers PROVE TypeOK'
<1>1. loop.chan \in Chan /\ "listed" \in Receiver
  BY Parts DEF LoopOffers, Receiver
<1>2. CASE listening
  <2>1. Hands(loop.chan, "listed") /\ incoming' = Append(incoming, loop.chan)
        /\ Len(incoming) < Cap
    BY <1>2 DEF LoopOffers, Hands
  <2>2. incoming' \in Seq(Chan) /\ Len(incoming') = Len(incoming) + 1 /\ Len(incoming) \in Nat
    BY <1>1, <2>1, Parts, AddsLast
  <2>3. Len(incoming') <= Cap
    BY <2>1, <2>2, SessionsAssumption
  <2> QED
    BY <1>1, <2>1, <2>2, <2>3, IdleTypes, HandsTypes DEF LoopOffers, TypeOK, remote, At, Session
<1>3. CASE ~ listening
  <2>1. Closes(loop.chan) /\ incoming' = incoming
    BY <1>3 DEF LoopOffers, Closes
  <2> QED
    BY <1>1, <2>1, IdleTypes, ClosesTypes DEF LoopOffers, TypeOK, remote, At, Session
<1> QED
  BY <1>2, <1>3

LEMMA DialChecksTypes ==
  ASSUME TypeOK, NEW d \in Dialer, NEW k \in Key, DialChecks(d, k) PROVE TypeOK'
<1>1. dialing' \in [Dialer -> [at : {"idle", "insert", "returned"}, key : Key \cup {None}]]
  <2> DEFINE D == [at : {"idle", "insert", "returned"}, key : Key \cup {None}]
             one == [at |-> "returned", key |-> k]
             two == [at |-> "insert", key |-> k]
  <2>1. one \in D /\ two \in D /\ dialing \in [Dialer -> D]
    BY Parts
  <2>2. dialing' = [dialing EXCEPT ![d] = one] \/ dialing' = [dialing EXCEPT ![d] = two]
    BY DEF DialChecks
  <2> HIDE DEF D, one, two
  <2>3. dialing' \in [Dialer -> D]
    BY <2>1, <2>2
  <2> QED
    BY <2>3 DEF D
<1> QED
  BY <1>1 DEF DialChecks, TypeOK, remote

(* A dial that is about to insert has a key.                               *)
LEMMA DialInsertsTypes ==
  ASSUME TypeOK, NEW d \in Dialer, dialing[d].key \in Key, DialInserts(d) PROVE TypeOK'
<1> DEFINE k == dialing[d].key
<1>1. dialing' \in [Dialer -> [at : {"idle", "insert", "returned"}, key : Key \cup {None}]]
  BY Parts DEF DialInserts
<1>2. <<>> \in Seq(Nat) /\ Len(<<>>) <= Cap /\ "held" \in Receiver
  BY SessionsAssumption DEF Receiver
<1>3. MakeChannel(k, <<>>, "held") /\ senders' = [senders EXCEPT ![k] = Fresh]
  BY DEF DialInserts
<1> HIDE DEF k
<1>4. k \in Key
  BY DEF k
<1>5. chan' \in [Chan -> Session] /\ \A c \in Chan : Len(chan'[c].queue) <= Cap
  BY <1>2, <1>3, <1>4, MakesTypes
<1>6. Fresh \in Chan
  BY <1>2, <1>3, <1>4, MakesFresh
<1>7. senders' \in [Key -> Chan \cup {None}]
  BY <1>3, <1>4, <1>6, Parts
<1> QED
  BY <1>1, <1>5, <1>7 DEF DialInserts, TypeOK, remote, Session

LEMMA AcceptTypes == ASSUME TypeOK, Accept PROVE TypeOK'
<1>1. incoming \in Seq(Chan) /\ incoming # <<>>
  BY Parts DEF Accept
<1>2. Head(incoming) \in Chan /\ Tail(incoming) \in Seq(Chan)
      /\ Len(Tail(incoming)) = Len(incoming) - 1 /\ Len(incoming) \in Nat
  BY <1>1, TakesFirst
<1>3. Hands(Head(incoming), "held") /\ "held" \in Receiver /\ incoming' = Tail(incoming)
  BY DEF Accept, Hands, Receiver
<1>4. Len(incoming') <= Cap
  BY <1>2, <1>3, SessionsAssumption DEF TypeOK
<1> QED
  BY <1>2, <1>3, <1>4, HandsTypes DEF Accept, TypeOK, remote, Session

LEMMA DropListenerTypes == ASSUME TypeOK, DropListener PROVE TypeOK'
<1>1. <<>> \in Seq(Nat) /\ <<>> \in Seq(Chan) /\ Len(<<>>) <= Cap
  BY SessionsAssumption
<1>2. \A c \in Chan : Closed(chan[c]) \in Session
  BY <1>1, Parts DEF Closed, Session, Receiver
<1>3. chan' \in [Chan -> Session]
  BY <1>2, Parts DEF DropListener
<1>4. \A c \in Chan : Len(chan'[c].queue) <= Cap
  <2>1. TAKE c \in Chan
  <2>2. chan'[c].queue \in {chan[c].queue, <<>>}
    BY DEF DropListener, Closed
  <2> QED
    BY <2>2, <1>1 DEF TypeOK
<1> QED
  BY <1>1, <1>3, <1>4 DEF DropListener, TypeOK, remote, Session

LEMMA DropSessionTypes == ASSUME TypeOK, NEW c \in Chan, DropSession(c) PROVE TypeOK'
<1>1. Closes(c)
  BY DEF DropSession, Closes
<1> QED
  BY <1>1, ClosesTypes DEF DropSession, TypeOK, remote, Session

LEMMA ReadCases ==
  ASSUME NEW c \in Chan, Read(c)
  PROVE  /\ chan[c].receiver = "held" /\ chan[c].queue # <<>>
         /\ Closes(c) \/ Fills(c, Tail(chan[c].queue))
BY DEF Read, Closes, Fills

LEMMA ReadTypes == ASSUME TypeOK, NEW c \in Chan, Read(c) PROVE TypeOK'
<1>1. chan[c].queue \in Seq(Nat) /\ chan[c].queue # <<>>
  BY ReadCases, Parts DEF Session
<1> DEFINE q == Tail(chan[c].queue)
<1>2. q \in Seq(Nat) /\ Len(q) = Len(chan[c].queue) - 1 /\ Len(chan[c].queue) \in Nat
  BY <1>1, TakesFirst
<1>3. Len(q) <= Cap
  BY <1>2, SessionsAssumption DEF TypeOK
<1>4. chan' \in [Chan -> Session] /\ \A d \in Chan : Len(chan'[d].queue) <= Cap
  <2>1. CASE Closes(c)
    BY <2>1, ClosesTypes
  <2>2. CASE Fills(c, q)
    <3> HIDE DEF q
    <3>1. chan'[c].queue = q
      BY <2>2, <1>2, FillsOne
    <3>2. \A d \in Chan : d # c => chan'[d] = chan[d]
      BY <2>2, <1>2, FillsOne
    <3>3. \A d \in Chan : Len(chan[d].queue) <= Cap
      BY DEF TypeOK
    <3>4. chan' \in [Chan -> Session]
      BY <2>2, <1>2, FillsOne
    <3> QED
      BY <3>1, <3>2, <3>3, <3>4, <1>3
  <2> QED
    BY <2>1, <2>2, ReadCases
<1> QED
  BY <1>4 DEF Read, TypeOK, remote, Session

-----------------------------------------------------------------------------
(* Which session of a key is known.                                        *)

(* A channel is empty until it is made, and then has a key; so has a dial  *)
(* that is about to make one.                                              *)
Made ==
  /\ dealt \in [Chan -> Nat]
  /\ \A c \in Chan : chan[c].receiver = "unmade" =>
        chan[c].key = None /\ chan[c].queue = <<>> /\ dealt[c] = 0
  /\ \A c \in Chan : chan[c].receiver # "unmade" => chan[c].key \in Key
  /\ \A d \in Dialer : dialing[d].at = "insert" => dialing[d].key \in Key

(* The map leads from a key to a channel of that key.                      *)
SendersOwn == \A k \in Key : senders[k] # None => chan[senders[k]].key = k

(* What the loop knows of the channel on its hands.                        *)
LoopKnows ==
  LET k == loop.frame.key
      c == loop.chan
  IN /\ loop.at = "send" => senders[k] = c
     /\ loop.at = "remove" => /\ chan[c].receiver = "dropped"
                              /\ senders[k] = c \/ k \in contended
     /\ loop.at \in {"insert", "offer"} => chan[c].receiver = "made" /\ chan[c].key = k
     /\ loop.at = "insert" => senders[k] = None \/ k \in contended
     /\ loop.at = "offer" => senders[k] = c \/ k \in contended

Inserts(d, k) == dialing[d].at = "insert" /\ dialing[d].key = k

(* A dial that is about to insert does so where no session is and nobody   *)
(* else inserts one, or its key is contended.                              *)
DialsAlone ==
  \A d \in Dialer, k \in Key : Inserts(d, k) /\ k \notin contended =>
      /\ senders[k] = None
      /\ loop.at = "insert" => loop.frame.key # k
      /\ \A e \in Dialer : Inserts(e, k) => e = d

(* A session waits for the listener once, until it is taken or refused.    *)
ListedOnce ==
  /\ \A i \in 1 .. Len(incoming) : chan[incoming[i]].receiver = "listed"
  /\ \A i, j \in 1 .. Len(incoming) : incoming[i] = incoming[j] => i = j

Known == /\ TypeOK /\ Made /\ SendersOwn /\ LoopKnows /\ DialsAlone
         /\ ListedOnce /\ LiveSessionIsKnown

(* A user who closes, takes or reads sessions leaves the rest as it is.    *)
UserStep ==
  /\ UNCHANGED <<loop, senders, dialing, dealt, contended>>
  /\ \A c \in Chan :
        /\ chan'[c].key = chan[c].key
        /\ chan'[c].receiver = "unmade" => chan'[c] = chan[c]
        /\ chan[c].receiver \in {"made", "dropped"} => chan'[c].receiver = chan[c].receiver
        /\ chan'[c].receiver \in {"listed", "held"}
              => chan[c].receiver \in {"listed", "held"}
        /\ chan[c].receiver = "unmade" => chan'[c].receiver = "unmade"

LEMMA UsersKeep ==
  ASSUME Known, UserStep
  PROVE  Made' /\ SendersOwn' /\ LoopKnows' /\ DialsAlone' /\ LiveSessionIsKnown'
<1>1. Made'
  BY DEF Known, UserStep, Made
<1>2. SendersOwn'
  <2>1. \A k \in Key : senders[k] # None => senders[k] \in Chan
    BY Parts DEF Known
  <2> QED
    BY <2>1 DEF Known, UserStep, SendersOwn
<1>3. LoopKnows'
  <2>1. loop.at # "recv" => loop.chan \in Chan
    BY Parts DEF Known
  <2> QED
    BY <2>1 DEF Known, UserStep, LoopKnows
<1>4. DialsAlone'
  BY DEF Known, UserStep, DialsAlone, Inserts
<1>5. LiveSessionIsKnown'
  BY DEF Known, UserStep, LiveSessionIsKnown
<1> QED
  BY <1>1, <1>2, <1>3, <1>4, <1>5

(* Closing a session that a user holds, or reading it.                     *)
LEMMA UsingKnown ==
  ASSUME Known, NEW c \in Chan, chan[c].receiver = "held",
         \/ Closes(c)
         \/ \E q \in Seq(Nat) : Fills(c, q),
         UNCHANGED <<loop, senders, incoming, dialing, dealt, contended>>
  PROVE  /\ UserStep /\ ListedOnce'
<1>1. TypeOK
  BY DEF Known
<1>2. /\ chan'[c].key = chan[c].key /\ chan'[c].receiver \in {"held", "dropped"}
      /\ \A d \in Chan : d # c => chan'[d] = chan[d]
  <2>1. CASE Closes(c)
    BY <1>1, <2>1, ClosesOne
  <2>2. ASSUME NEW q \in Seq(Nat), Fills(c, q)
        PROVE  /\ chan'[c].key = chan[c].key /\ chan'[c].receiver = "held"
               /\ \A d \in Chan : d # c => chan'[d] = chan[d]
    BY <1>1, <2>2, FillsOne
  <2> QED
    BY <2>1, <2>2
<1>3. UserStep
  BY <1>2 DEF UserStep
<1>4. \A i \in 1 .. Len(incoming) : incoming[i] \in Chan /\ incoming[i] # c
  BY <1>1, Parts DEF Known, ListedOnce
<1>5. ListedOnce'
  BY <1>2, <1>4 DEF Known, ListedOnce
<1> QED
  BY <1>3, <1>5

LEMMA DropSessionKnown == ASSUME Known, NEW c \in Chan, DropSession(c) PROVE Known'
<1>1. chan[c].receiver = "held" /\ Closes(c)
      /\ UNCHANGED <<loop, senders, incoming, dialing, dealt, contended>>
  BY DEF DropSession, Closes
<1> QED
  BY <1>1, UsingKnown, UsersKeep, DropSessionTypes DEF Known

LEMMA ReadKnown == ASSUME Known, NEW c \in Chan, Read(c) PROVE Known'
<1>1. chan[c].receiver = "held"
      /\ UNCHANGED <<loop, senders, incoming, dialing, dealt, contended>>
  BY DEF Read
<1>2. chan[c].queue \in Seq(Nat) /\ chan[c].queue # <<>>
  BY ReadCases, Parts DEF Session, Known
<1>3. Tail(chan[c].queue) \in Seq(Nat)
  BY <1>2, TakesFirst
<1>4. Closes(c) \/ \E q \in Seq(Nat) : Fills(c, q)
  BY <1>3, ReadCases
<1> QED
  BY <1>1, <1>4, UsingKnown, UsersKeep, ReadTypes DEF Known

LEMMA AcceptKnown == ASSUME Known, Accept PROVE Known'
<1> DEFINE c == Head(incoming)
<1>1. TypeOK /\ incoming \in Seq(Chan) /\ incoming # <<>> /\ incoming' = Tail(incoming)
  BY Parts DEF Known, Accept
<1>2. /\ c \in Chan /\ c = incoming[1] /\ Len(incoming) \in Nat \ {0}
      /\ Len(incoming') = Len(incoming) - 1
      /\ \A i \in 1 .. Len(incoming') : incoming'[i] = incoming[i + 1]
  BY <1>1, TakesFirst
<1>3. Hands(c, "held") /\ UNCHANGED <<loop, senders, dialing, dealt, contended>>
      /\ "held" \in Receiver
  BY DEF Accept, Hands, Receiver
<1> HIDE DEF c
<1>4. chan[c].receiver = "listed"
  BY <1>2 DEF Known, ListedOnce
<1>5. /\ chan'[c].key = chan[c].key /\ chan'[c].receiver = "held"
      /\ \A d \in Chan : d # c => chan'[d] = chan[d]
  BY <1>1, <1>2, <1>3, HandsOne
<1>6. UserStep
  BY <1>2, <1>3, <1>4, <1>5 DEF UserStep
<1>7. \A i \in 1 .. Len(incoming') : i + 1 \in 1 .. Len(incoming) /\ i + 1 # 1
  BY <1>2
<1>8. \A i \in 1 .. Len(incoming') : incoming'[i] \in Chan /\ incoming'[i] # c
  BY <1>1, <1>2, <1>7 DEF Known, ListedOnce
<1>9. \A i \in 1 .. Len(incoming') : chan'[incoming'[i]].receiver = "listed"
  BY <1>2, <1>5, <1>7, <1>8 DEF Known, ListedOnce
<1>10. \A i, j \in 1 .. Len(incoming') : incoming'[i] = incoming'[j] => i = j
  BY <1>2, <1>7 DEF Known, ListedOnce
<1> QED
  BY <1>6, <1>9, <1>10, UsersKeep, AcceptTypes DEF Known, ListedOnce

LEMMA DropListenerKnown == ASSUME Known, DropListener PROVE Known'
<1>1. \A c \in Chan : chan'[c] = IF chan[c].receiver = "listed"
                                 THEN Closed(chan[c]) ELSE chan[c]
  BY DEF DropListener
<1>2. \A c \in Chan : Closed(chan[c]).key = chan[c].key /\ Closed(chan[c]).receiver = "dropped"
  BY DEF Closed
<1>3. UserStep
  BY <1>1, <1>2 DEF UserStep, DropListener
<1>4. incoming' = <<>> /\ Len(incoming') = 0
  BY DEF DropListener
<1>5. ListedOnce'
  BY <1>4 DEF ListedOnce
<1> QED
  BY <1>3, <1>5, UsersKeep, DropListenerTypes DEF Known

(* The sending half and the way of its frames are no concern of the map.   *)
LEMMA SendingKnown == ASSUME Known, NEW k \in Key, Sending(k) PROVE Known'
<1>1. UNCHANGED <<loop, senders, chan, incoming, listening, dialing, dealt, contended>>
  BY DEF Sending, Write, Arrive, LoseOnTheWay, UploadFails, local
<1>2. TypeOK'
  BY WriteTypes, ArriveTypes, TravelTypes DEF Known, Sending
<1> QED
  BY <1>1, <1>2 DEF Known, Made, SendersOwn, LoopKnows, DialsAlone, Inserts,
                    ListedOnce, LiveSessionIsKnown

LEMMA LoopFindsKnown == ASSUME Known, LoopFinds PROVE Known'
<1> DEFINE f == Head(download)
<1>1. loop' = [at |-> "send", frame |-> f, chan |-> senders[f.key]]
      /\ UNCHANGED <<senders, chan, incoming, dialing, dealt, contended>>
  BY DEF LoopFinds
<1> HIDE DEF f
<1>2. loop'.at = "send" /\ loop'.frame = f /\ loop'.chan = senders[f.key]
  BY <1>1
<1>3. LoopKnows'
  BY <1>1, <1>2 DEF LoopKnows
<1>4. DialsAlone'
  BY <1>1, <1>2 DEF Known, DialsAlone, Inserts
<1> QED
  BY <1>1, <1>3, <1>4, LoopFindsTypes
  DEF Known, Made, SendersOwn, ListedOnce, LiveSessionIsKnown

(* What a new channel leaves true.                                         *)
LEMMA NewChannelKnown ==
  ASSUME Known, NEW k \in Key, NEW q \in Seq(Nat), NEW r \in {"made", "held"},
         MakeChannel(k, q, r), UNCHANGED incoming
  PROVE  /\ Fresh \in Chan /\ chan[Fresh].receiver = "unmade"
         /\ chan'[Fresh].key = k /\ chan'[Fresh].receiver = r
         /\ \A c \in Chan : c # Fresh => chan'[c] = chan[c]
         /\ \A j \in Key : senders[j] # None => senders[j] \in Chan /\ senders[j] # Fresh
         /\ \A c \in Chan : chan'[c].receiver # "unmade" => chan'[c].key \in Key
         /\ \A c \in Chan : chan'[c].receiver = "unmade" =>
               c # Fresh /\ chan[c].receiver = "unmade" /\ chan'[c] = chan[c]
         /\ ListedOnce'
<1>1. TypeOK /\ r \in Receiver
  BY DEF Known, Receiver
<1>2. Fresh \in Chan /\ chan[Fresh].receiver = "unmade"
      /\ chan'[Fresh].key = k /\ chan'[Fresh].receiver = r
  BY <1>1, MakesFresh
<1>3. \A c \in Chan : c # Fresh => chan'[c] = chan[c]
  BY <1>1, MakesFresh
<1>4. chan[Fresh].key = None /\ None \notin Key
  BY <1>2, SessionsAssumption DEF Known, Made
<1>5. \A j \in Key : senders[j] # None => senders[j] \in Chan /\ senders[j] # Fresh
  BY <1>1, <1>4, Parts DEF Known, SendersOwn
<1>6. \A i \in 1 .. Len(incoming) : incoming[i] \in Chan /\ incoming[i] # Fresh
  <2>1. \A i \in 1 .. Len(incoming) : incoming[i] \in Chan
    BY <1>1, Parts
  <2>2. \A i \in 1 .. Len(incoming) : chan[incoming[i]].receiver = "listed"
    BY DEF Known, ListedOnce
  <2> QED
    BY <1>2, <2>1, <2>2
<1>7. ListedOnce'
  BY <1>3, <1>6 DEF Known, ListedOnce
<1>8. \A c \in Chan : chan'[c].receiver # "unmade" => chan'[c].key \in Key
  BY <1>2, <1>3 DEF Known, Made
<1>9. r # "unmade"
  OBVIOUS
<1> QED
  BY <1>2, <1>3, <1>5, <1>7, <1>8, <1>9

LEMMA LoopCreatesKnown == ASSUME Known, LoopCreates PROVE Known'
<1> DEFINE f == Head(download)
           k == f.key
<1>1. k \in Key /\ f.no \in Nat /\ <<f.no>> \in Seq(Nat)
  BY TakesDownload DEF Known, LoopCreates
<1>2. MakeChannel(k, <<f.no>>, "made") /\ Contend(k, None) /\ senders[k] = None
      /\ loop' = [at |-> "insert", frame |-> f, chan |-> Fresh]
      /\ dealt' = [dealt EXCEPT ![Fresh] = f.no]
      /\ UNCHANGED <<senders, incoming, dialing>> /\ loop.at = "recv"
  BY DEF LoopCreates
<1> HIDE DEF f
<1>3. loop'.at = "insert" /\ loop'.frame.key = k /\ loop'.chan = Fresh
  BY <1>2
<1> DEFINE q == <<f.no>>
<1>4. q \in Seq(Nat) /\ MakeChannel(k, q, "made")
  BY <1>1, <1>2
<1> HIDE DEF q, k
<1>5. /\ Fresh \in Chan /\ chan[Fresh].receiver = "unmade"
      /\ chan'[Fresh].key = k /\ chan'[Fresh].receiver = "made"
      /\ \A c \in Chan : c # Fresh => chan'[c] = chan[c]
      /\ \A j \in Key : senders[j] # None => senders[j] \in Chan /\ senders[j] # Fresh
      /\ \A c \in Chan : chan'[c].receiver # "unmade" => chan'[c].key \in Key
      /\ \A c \in Chan : chan'[c].receiver = "unmade" =>
            c # Fresh /\ chan[c].receiver = "unmade" /\ chan'[c] = chan[c]
      /\ ListedOnce'
  BY <1>1, <1>2, <1>4, NewChannelKnown
<1>6. /\ contended \subseteq contended'
      /\ \A d \in Dialer : Inserts(d, k) => k \in contended'
  <2>1. contended \subseteq contended'
    BY <1>2 DEF Contend
  <2>2. ASSUME NEW d \in Dialer, Inserts(d, k)
        PROVE  k \in contended'
    <3>1. dialing[d] = [at |-> "insert", key |-> k]
      BY <2>2, Parts DEF Known, Inserts
    <3>2. None \notin Dialer
      BY SessionsAssumption
    <3>3. MakingElsewhere(k, None)
      BY <3>1, <3>2 DEF MakingElsewhere
    <3> QED
      BY <1>2, <3>3 DEF Contend
  <2> QED
    BY <2>1, <2>2
<1>7. Made'
  <2>1. dealt' \in [Chan -> Nat]
    BY <1>1, <1>2, <1>5 DEF Known, Made
  <2>2. \A c \in Chan : c # Fresh => dealt'[c] = dealt[c]
    BY <1>2 DEF Known, Made
  <2> QED
    BY <1>2, <1>5, <2>1, <2>2 DEF Known, Made
<1>8. SendersOwn'
  BY <1>2, <1>5 DEF Known, SendersOwn
<1>9. LoopKnows'
  BY <1>2, <1>3, <1>5 DEF LoopKnows
<1>10. DialsAlone'
  BY <1>2, <1>3, <1>6 DEF Known, DialsAlone, Inserts
<1>11. LiveSessionIsKnown'
  BY <1>2, <1>5, <1>6 DEF Known, LiveSessionIsKnown
<1> QED
  BY <1>5, <1>7, <1>8, <1>9, <1>10, <1>11, LoopCreatesTypes DEF Known

LEMMA LoopSendsKnown == ASSUME Known, LoopSends PROVE Known'
<1> DEFINE c == loop.chan
           q == Append(chan[c].queue, loop.frame.no)
<1>1. TypeOK /\ c \in Chan /\ loop.frame \in Frame /\ loop.frame.no \in Nat /\ loop.at = "send"
      /\ UNCHANGED <<senders, incoming, dialing, contended>>
  BY LoopSendsCases, Parts DEF Known, Frame
<1>2. CASE Delivers
  <2>1. chan[c].queue \in Seq(Nat)
    BY <1>1, Parts DEF Session
  <2>2. q \in Seq(Nat)
    BY <1>1, <2>1, AddsLast
  <2>3. Fills(c, q) /\ dealt' = [dealt EXCEPT ![c] = loop.frame.no] /\ loop' = Idle
    BY <1>2 DEF Delivers
  <2> HIDE DEF q
  <2>4. /\ chan'[c].key = chan[c].key /\ chan'[c].receiver = chan[c].receiver
        /\ \A d \in Chan : d # c => chan'[d] = chan[d]
    BY <1>1, <2>2, <2>3, FillsOne
  <2>5. loop'.at = "recv"
    BY <2>3, IdleTypes
  <2>6. chan[c].receiver # "unmade"
    <3>1. senders[loop.frame.key] = c /\ loop.frame.key \in Key /\ c # None
      BY <1>1, SessionsAssumption DEF Known, LoopKnows, Frame, Chan
    <3> QED
      BY <1>1, <3>1, SessionsAssumption DEF Known, SendersOwn, Made
  <2> HIDE DEF c
  <2>7. Made'
    <3>1. dealt' \in [Chan -> Nat] /\ \A d \in Chan : d # c => dealt'[d] = dealt[d]
      BY <1>1, <2>3 DEF Known, Made
    <3> QED
      BY <1>1, <2>4, <2>6, <3>1 DEF Known, Made
  <2>8. SendersOwn'
    <3>1. \A k \in Key : senders[k] # None => senders[k] \in Chan
      BY <1>1, Parts
    <3> QED
      BY <1>1, <2>4, <3>1 DEF Known, SendersOwn
  <2>9. LoopKnows' /\ DialsAlone'
    BY <1>1, <2>5 DEF Known, LoopKnows, DialsAlone, Inserts
  <2>10. ListedOnce'
    <3>1. \A i \in 1 .. Len(incoming) : incoming[i] \in Chan
      BY <1>1, Parts
    <3> QED
      BY <1>1, <2>4, <3>1 DEF Known, ListedOnce
  <2>11. LiveSessionIsKnown'
    BY <1>1, <2>4 DEF Known, LiveSessionIsKnown
  <2> QED
    BY <2>7, <2>8, <2>9, <2>10, <2>11, LoopSendsTypes DEF Known
<1>3. CASE /\ chan[c].receiver = "dropped" /\ loop' = [loop EXCEPT !.at = "remove"]
           /\ UNCHANGED <<chan, dealt>>
  <2>1. loop'.at = "remove" /\ loop'.frame = loop.frame /\ loop'.chan = c
    BY <1>1, <1>3, Parts
  <2>2. LoopKnows' /\ DialsAlone'
    BY <1>1, <1>3, <2>1 DEF Known, LoopKnows, DialsAlone, Inserts
  <2> QED
    BY <1>1, <1>3, <2>2, LoopSendsTypes DEF Known, Made, SendersOwn, ListedOnce, LiveSessionIsKnown
<1> QED
  BY <1>2, <1>3, LoopSendsCases

LEMMA LoopRemovesKnown == ASSUME Known, LoopRemoves PROVE Known'
<1> DEFINE k == loop.frame.key
<1>1. k \in Key /\ loop.at = "remove" /\ senders' = [senders EXCEPT ![k] = None]
      /\ loop'.at = "recv" /\ UNCHANGED <<chan, incoming, dialing, dealt, contended>>
  BY Parts, IdleTypes DEF Known, LoopRemoves, Frame
<1>2. chan[loop.chan].receiver = "dropped" /\ (senders[k] = loop.chan \/ k \in contended)
  BY <1>1 DEF Known, LoopKnows
<1> HIDE DEF k
<1>3. senders'[k] = None /\ \A j \in Key : j # k => senders'[j] = senders[j]
  BY <1>1, Parts DEF Known
<1>4. SendersOwn'
  BY <1>1, <1>3 DEF Known, SendersOwn
<1>5. LoopKnows' /\ DialsAlone'
  BY <1>1, <1>3 DEF Known, LoopKnows, DialsAlone, Inserts
<1>6. LiveSessionIsKnown'
  <2> SUFFICES ASSUME NEW c \in Chan, chan[c].receiver \in {"listed", "held"},
                      chan[c].key \notin contended
               PROVE  senders'[chan[c].key] = c
    BY <1>1 DEF LiveSessionIsKnown
  <2>1. senders[chan[c].key] = c /\ chan[c].key \in Key
    BY DEF Known, LiveSessionIsKnown, Made
  <2>2. chan[c].key # k
    BY <1>2, <2>1
  <2> QED
    BY <1>3, <2>1, <2>2
<1> QED
  BY <1>1, <1>4, <1>5, <1>6, LoopRemovesTypes DEF Known, Made, ListedOnce

LEMMA LoopInsertsKnown == ASSUME Known, LoopInserts PROVE Known'
<1> DEFINE k == loop.frame.key
           c == loop.chan
<1>1. k \in Key /\ c \in Chan /\ loop.at = "insert" /\ senders' = [senders EXCEPT ![k] = c]
      /\ UNCHANGED <<chan, incoming, dialing, dealt, contended>>
  BY Parts DEF Known, LoopInserts, Frame
<1>2. loop'.at = "offer" /\ loop'.frame.key = k /\ loop'.chan = c
  BY Parts DEF Known, LoopInserts
<1>3. chan[c].receiver = "made" /\ chan[c].key = k /\ (senders[k] = None \/ k \in contended)
  BY <1>1 DEF Known, LoopKnows
<1>4. \A d \in Dialer : Inserts(d, k) => k \in contended
  BY <1>1 DEF Known, DialsAlone
<1> HIDE DEF k, c
<1>5. senders'[k] = c /\ \A j \in Key : j # k => senders'[j] = senders[j]
  BY <1>1, Parts DEF Known
<1>6. SendersOwn'
  BY <1>1, <1>3, <1>5 DEF Known, SendersOwn
<1>7. LoopKnows'
  BY <1>1, <1>2, <1>3, <1>5 DEF LoopKnows
<1>8. DialsAlone'
  BY <1>1, <1>2, <1>4, <1>5 DEF Known, DialsAlone, Inserts
<1>9. LiveSessionIsKnown'
  <2> SUFFICES ASSUME NEW d \in Chan, chan[d].receiver \in {"listed", "held"},
                      chan[d].key \notin contended
               PROVE  senders'[chan[d].key] = d
    BY <1>1 DEF LiveSessionIsKnown
  <2>1. senders[chan[d].key] = d /\ chan[d].key \in Key
    BY DEF Known, LiveSessionIsKnown, Made
  <2>2. d # None
    BY SessionsAssumption DEF Chan
  <2>3. chan[d].key # k
    BY <1>3, <2>1, <2>2
  <2> QED
    BY <1>5, <2>1, <2>3
<1> QED
  BY <1>1, <1>6, <1>7, <1>8, <1>9, LoopInsertsTypes DEF Known, Made, ListedOnce

LEMMA LoopOffersKnown == ASSUME Known, LoopOffers PROVE Known'
<1> DEFINE c == loop.chan
<1>1. TypeOK /\ c \in Chan /\ loop.at = "offer" /\ loop'.at = "recv" /\ incoming \in Seq(Chan)
      /\ UNCHANGED <<senders, dialing, dealt, contended>>
  BY Parts, IdleTypes DEF Known, LoopOffers
<1>2. chan[c].receiver = "made" /\ (senders[chan[c].key] = c \/ chan[c].key \in contended)
  BY <1>1 DEF Known, LoopKnows
<1>3. \/ /\ Hands(c, "listed") /\ incoming' = Append(incoming, c)
      \/ /\ Closes(c) /\ incoming' = incoming
  BY DEF LoopOffers, Hands, Closes
<1> HIDE DEF c
<1>4. /\ chan'[c].key = chan[c].key /\ chan'[c].receiver \in {"listed", "dropped"}
      /\ \A d \in Chan : d # c => chan'[d] = chan[d]
  <2>1. "listed" \in Receiver
    BY DEF Receiver
  <2> QED
    BY <1>1, <1>3, <2>1, HandsOne, ClosesOne
<1>5. Made'
  BY <1>1, <1>2, <1>4 DEF Known, Made
<1>6. SendersOwn'
  <2>1. \A k \in Key : senders[k] # None => senders[k] \in Chan
    BY <1>1, Parts
  <2> QED
    BY <1>1, <1>4, <2>1 DEF Known, SendersOwn
<1>7. LoopKnows' /\ DialsAlone'
  BY <1>1 DEF Known, LoopKnows, DialsAlone, Inserts
<1>8. LiveSessionIsKnown'
  BY <1>1, <1>2, <1>4 DEF Known, LiveSessionIsKnown
<1>9. \A i \in 1 .. Len(incoming) : incoming[i] \in Chan /\ incoming[i] # c
  BY <1>1, <1>2, Parts DEF Known, ListedOnce
<1>10. ListedOnce'
  <2>1. CASE Hands(c, "listed") /\ incoming' = Append(incoming, c)
    <3>1. "listed" \in Receiver
      BY DEF Receiver
    <3>2. chan'[c].receiver = "listed"
      BY <1>1, <2>1, <3>1, HandsOne
    <3>3. /\ Len(incoming) \in Nat /\ Len(incoming') = Len(incoming) + 1
          /\ incoming'[Len(incoming) + 1] = c
          /\ \A i \in 1 .. Len(incoming) : incoming'[i] = incoming[i]
      BY <1>1, <2>1, AddsLast
    <3> QED
      BY <1>4, <1>9, <3>2, <3>3 DEF Known, ListedOnce
  <2>2. CASE incoming' = incoming
    BY <1>4, <1>9, <2>2 DEF Known, ListedOnce
  <2> QED
    BY <1>3, <2>1, <2>2
<1> QED
  BY <1>5, <1>6, <1>7, <1>8, <1>10, LoopOffersTypes DEF Known

LEMMA DialChecksKnown ==
  ASSUME Known, NEW d \in Dialer, NEW k \in Key, DialChecks(d, k) PROVE Known'
<1>1. UNCHANGED <<loop, senders, chan, incoming, dealt>> /\ dialing[d].at = "idle"
      /\ dialing \in [Dialer -> [at : {"idle", "insert", "returned"}, key : Key \cup {None}]]
  BY Parts DEF Known, DialChecks
<1>2. contended \subseteq contended'
  BY DEF DialChecks, Contend
<1>3. \A e \in Dialer : e # d => dialing'[e] = dialing[e]
  BY <1>1 DEF DialChecks
<1>4. Made' /\ DialsAlone'
  <2>1. CASE senders[k] # None
    <3>1. dialing'[d].at = "returned"
      BY <1>1, <2>1 DEF DialChecks
    <3> QED
      <4>1. \A e \in Dialer, j \in Key : Inserts(e, j)' => e # d /\ Inserts(e, j)
        BY <1>3, <3>1 DEF Inserts
      <4>2. DialsAlone'
        BY <1>1, <1>2, <4>1 DEF Known, DialsAlone
      <4>3. \A e \in Dialer : dialing'[e].at = "insert" => dialing'[e].key \in Key
        BY <1>3, <3>1 DEF Known, Made
      <4>4. Made'
        BY <1>1, <4>3 DEF Known, Made
      <4> QED
        BY <4>2, <4>4
  <2>2. CASE senders[k] = None
    <3>1. dialing'[d].at = "insert" /\ dialing'[d].key = k /\ Contend(k, d)
      BY <1>1, <2>2 DEF DialChecks
    <3>2. MakingElsewhere(k, d) => k \in contended'
      BY <3>1 DEF Contend
    <3>3. loop.at = "insert" /\ loop.frame.key = k => k \in contended'
      BY <3>2 DEF MakingElsewhere
    <3>4. ASSUME NEW e \in Dialer, e # d, Inserts(e, k)
          PROVE  k \in contended'
      <4>1. dialing[e] = [at |-> "insert", key |-> k]
        BY <1>1, <3>4 DEF Inserts
      <4> QED
        BY <3>2, <3>4, <4>1 DEF MakingElsewhere
    <3>5. Made'
      BY <1>1, <1>3, <3>1 DEF Known, Made
    <3>6. DialsAlone'
      BY <1>1, <1>2, <1>3, <2>2, <3>1, <3>3, <3>4 DEF Known, DialsAlone, Inserts
    <3> QED
      BY <3>5, <3>6
  <2> QED
    BY <2>1, <2>2
<1>5. LoopKnows' /\ LiveSessionIsKnown'
  BY <1>1, <1>2 DEF Known, LoopKnows, LiveSessionIsKnown
<1> QED
  BY <1>1, <1>4, <1>5, DialChecksTypes DEF Known, SendersOwn, ListedOnce

LEMMA DialInsertsKnown == ASSUME Known, NEW d \in Dialer, DialInserts(d) PROVE Known'
<1> DEFINE k == dialing[d].key
<1>1. /\ dialing[d].at = "insert" /\ k \in Key /\ loop.at # "send"
      /\ MakeChannel(k, <<>>, "held") /\ senders' = [senders EXCEPT ![k] = Fresh]
      /\ dialing' = [dialing EXCEPT ![d].at = "returned"]
      /\ UNCHANGED <<loop, incoming, dealt, contended>>
  BY DEF DialInserts, ReadHeld, Known, Made
<1>2. dialing'[d].at = "returned" /\ \A e \in Dialer : e # d => dialing'[e] = dialing[e]
  BY <1>1, Parts DEF Known
<1>3. k \notin contended => senders[k] = None /\ (loop.at = "insert" => loop.frame.key # k)
                            /\ \A e \in Dialer : Inserts(e, k) => e = d
  BY <1>1 DEF Known, DialsAlone, Inserts
<1>4. TypeOK'
  BY <1>1, DialInsertsTypes DEF Known
<1> HIDE DEF k
<1>5. <<>> \in Seq(Nat)
  OBVIOUS
<1>6. /\ Fresh \in Chan /\ chan[Fresh].receiver = "unmade"
      /\ chan'[Fresh].key = k /\ chan'[Fresh].receiver = "held"
      /\ \A c \in Chan : c # Fresh => chan'[c] = chan[c]
      /\ \A j \in Key : senders[j] # None => senders[j] \in Chan /\ senders[j] # Fresh
      /\ \A c \in Chan : chan'[c].receiver # "unmade" => chan'[c].key \in Key
      /\ \A c \in Chan : chan'[c].receiver = "unmade" =>
            c # Fresh /\ chan[c].receiver = "unmade" /\ chan'[c] = chan[c]
      /\ ListedOnce'
  BY <1>1, <1>5, NewChannelKnown
<1>7. senders'[k] = Fresh /\ \A j \in Key : j # k => senders'[j] = senders[j]
  BY <1>1, Parts DEF Known
<1>8. Made'
  BY <1>1, <1>2, <1>6 DEF Known, Made
<1>9. SendersOwn'
  BY <1>6, <1>7 DEF Known, SendersOwn
<1>10. LoopKnows'
  <2>1. loop.at # "recv" => loop.chan \in Chan /\ loop.frame.key \in Key
    BY Parts DEF Known, Frame
  <2>2. loop.at \in {"remove", "insert", "offer"} => chan[loop.chan].receiver \in {"made", "dropped"}
    BY DEF Known, LoopKnows
  <2>3. loop.at \in {"remove", "insert", "offer"} => chan'[loop.chan] = chan[loop.chan]
    BY <1>6, <2>1, <2>2
  <2>4. \A c \in Chan : c # None
    BY SessionsAssumption DEF Chan
  <2>5. CASE loop.frame.key = k
    BY <1>1, <1>3, <1>7, <2>1, <2>3, <2>4, <2>5 DEF Known, LoopKnows
  <2>6. CASE loop.frame.key # k
    BY <1>1, <1>7, <2>1, <2>3, <2>6 DEF Known, LoopKnows
  <2> QED
    BY <2>5, <2>6
<1>11. DialsAlone'
  BY <1>1, <1>2, <1>3, <1>7 DEF Known, DialsAlone, Inserts
<1>12. LiveSessionIsKnown'
  <2> SUFFICES ASSUME NEW c \in Chan, chan'[c].receiver \in {"listed", "held"},
                      chan'[c].key \notin contended
               PROVE  senders'[chan'[c].key] = c
    BY <1>1 DEF LiveSessionIsKnown
  <2>1. CASE c = Fresh
    BY <1>6, <1>7, <2>1
  <2>2. CASE c # Fresh
    <3>1. chan'[c] = chan[c] /\ senders[chan[c].key] = c /\ chan[c].key \in Key /\ c # None
      BY <1>6, <2>2, SessionsAssumption DEF Known, LiveSessionIsKnown, Made, Chan
    <3>2. chan[c].key # k
      BY <1>3, <3>1
    <3> QED
      BY <1>7, <3>1, <3>2
  <2> QED
    BY <2>1, <2>2
<1> QED
  BY <1>4, <1>6, <1>8, <1>9, <1>10, <1>11, <1>12 DEF Known

LEMMA InitKnown == ASSUME Init PROVE Known
<1>1. TypeOK
  <2>1. <<>> \in Seq(Nat) /\ <<>> \in Seq(Frame) /\ <<>> \in Seq(Chan) /\ Len(<<>>) = 0
    OBVIOUS
  <2>2. Cap \in Nat
    BY SessionsAssumption
  <2>3. chan \in [Chan -> Session] /\ \A c \in Chan : Len(chan[c].queue) <= Cap
    BY <2>1, <2>2 DEF Init, Session, Receiver
  <2> QED
    BY <2>1, <2>2, <2>3, IdleTypes DEF Init, TypeOK, Session, At
<1>2. Made /\ SendersOwn /\ LoopKnows /\ DialsAlone
  BY IdleTypes DEF Init, Made, SendersOwn, LoopKnows, DialsAlone, Inserts
<1>3. ListedOnce /\ LiveSessionIsKnown
  BY DEF Init, ListedOnce, LiveSessionIsKnown
<1> QED
  BY <1>1, <1>2, <1>3 DEF Known

LEMMA StepKnown == ASSUME Known, [Next]_vars PROVE Known'
<1>1. CASE DownloadLoop
  BY <1>1, LoopFindsKnown, LoopCreatesKnown, LoopSendsKnown, LoopRemovesKnown,
     LoopInsertsKnown, LoopOffersKnown DEF DownloadLoop
<1>2. ASSUME NEW d \in Dialer, Dialing(d) PROVE Known'
  BY <1>2, DialInsertsKnown, DialChecksKnown DEF Dialing
<1>3. ASSUME NEW c \in Chan, Using(c) PROVE Known'
  BY <1>3, ReadKnown, DropSessionKnown DEF Using, ReadBroken
<1>4. CASE UNCHANGED vars
  BY <1>4 DEF vars, Known, TypeOK, Made, SendersOwn, LoopKnows, DialsAlone, Inserts,
              ListedOnce, LiveSessionIsKnown
<1> QED
  BY <1>1, <1>2, <1>3, <1>4, SendingKnown, AcceptKnown, DropListenerKnown DEF Next

LEMMA AlwaysKnown == Spec => []Known
  BY InitKnown, StepKnown, PTL DEF Spec

(* No channel of client.rs holds more than it has room for, whatever is    *)
(* written, dialed, dropped or lost, and the loop is never without the     *)
(* frame and the session it is about to serve.                             *)
THEOREM TypeCorrect == Spec => []TypeOK
<1>1. Known => TypeOK
  BY DEF Known
<1> QED
  BY <1>1, AlwaysKnown, PTL

(* A session that nobody dropped is the one the client sends to, unless    *)
(* two were made for its key at once (Client::dial, client.rs 139-154, and *)
(* the loop of Client::new, 58-91).                                        *)
THEOREM LiveSessionKnown == Spec => []LiveSessionIsKnown
<1>1. Known => LiveSessionIsKnown
  BY DEF Known
<1> QED
  BY <1>1, AlwaysKnown, PTL

-----------------------------------------------------------------------------
(* The order of the frames.                                                *)

(* Of w frames written per key, those in u are on their way and those in a *)
(* have arrived: frame n of k was written before all of these.             *)
Before(n, k, w, u, a) ==
  /\ n <= w[k]
  /\ \A i \in 1 .. Len(u[k]) : n < u[k][i]
  /\ \A i \in 1 .. Len(a) : a[i].key = k => n < a[i].no

(* Frames travel and arrive in the order they were written.                *)
Ordered(w, u, a) ==
  /\ \A k \in Key, i \in Nat : i \in 1 .. Len(u[k]) =>
        /\ 0 < u[k][i] /\ u[k][i] <= w[k]
        /\ \A j \in 1 .. Len(u[k]) : i < j => u[k][i] < u[k][j]
  /\ \A i \in 1 .. Len(a) :
        /\ 0 < a[i].no /\ a[i].no <= w[a[i].key]
        /\ \A j \in 1 .. Len(u[a[i].key]) : a[i].no < u[a[i].key][j]
        /\ \A j \in 1 .. Len(a) : i < j /\ a[j].key = a[i].key => a[i].no < a[j].no

(* t is s without its first element; t is s with e at its end.             *)
Rest(t, s) == /\ Len(s) \in Nat \ {0} /\ Len(t) = Len(s) - 1
              /\ \A i \in 1 .. Len(t) : t[i] = s[i + 1]
Longer(t, s, e) == /\ Len(s) \in Nat /\ Len(t) = Len(s) + 1 /\ t[Len(s) + 1] = e
                   /\ \A i \in 1 .. Len(s) : t[i] = s[i]

LEMMA TailIsRest == ASSUME NEW S, NEW s \in Seq(S), s # <<>> PROVE Rest(Tail(s), s)
BY TakesFirst DEF Rest

LEMMA AppendIsLonger ==
  ASSUME NEW S, NEW s \in Seq(S), NEW e \in S PROVE Longer(Append(s, e), s, e)
BY AddsLast DEF Longer

LEMMA FrameParts ==
  ASSUME NEW a \in Seq(Frame), NEW i \in 1 .. Len(a)
  PROVE  a[i] \in Frame /\ a[i].key \in Key /\ a[i].no \in Nat
<1>1. a[i] \in Frame
  BY ElementOfSeq
<1> QED
  BY <1>1 DEF Frame

(* What came before all frames on their way still does.                    *)
StaysBefore(w, u, a, x, v, b) ==
  \A n \in Nat, j \in Key : Before(n, j, w, u, a) => Before(n, j, x, v, b)

(* One more frame is written.                                              *)
LEMMA WriteOrdered ==
  ASSUME NEW w \in [Key -> Nat], NEW u \in [Key -> Seq(Nat)], NEW a \in Seq(Frame),
         NEW x, NEW v, NEW k \in Key,
         Ordered(w, u, a), x[k] = w[k] + 1, Longer(v[k], u[k], x[k]),
         \A j \in Key : j # k => x[j] = w[j] /\ v[j] = u[j]
  PROVE  Ordered(x, v, a) /\ StaysBefore(w, u, a, x, v, a)
<1>1. /\ x[k] = w[k] + 1 /\ w[k] \in Nat /\ \A j \in Key : j # k => x[j] = w[j] /\ v[j] = u[j]
      /\ \A j \in Key : w[j] \in Nat /\ w[j] <= x[j]
  <2>1. \A j \in Key : w[j] \in Nat
    OBVIOUS
  <2>2. w[k] <= x[k]
    BY <2>1
  <2>3. \A j \in Key : j # k => w[j] <= x[j]
    BY <2>1
  <2> QED
    BY <2>1, <2>2, <2>3
<1>2. /\ Len(u[k]) \in Nat /\ Len(v[k]) = Len(u[k]) + 1 /\ v[k][Len(u[k]) + 1] = x[k]
      /\ \A i \in 1 .. Len(u[k]) : v[k][i] = u[k][i] /\ u[k][i] \in Nat
  BY DEF Longer
<1>3. \A i \in 1 .. Len(a) : a[i].key \in Key /\ a[i].no \in Nat
  BY FrameParts
<1>4. \A i \in 1 .. Len(v[k]) : i \in 1 .. Len(u[k]) \/ i = Len(u[k]) + 1
  BY <1>2
<1>5. ASSUME NEW n \in Nat, NEW j \in Key, Before(n, j, w, u, a)
      PROVE  Before(n, j, x, v, a)
  <2>1. CASE j # k
    BY <1>1, <1>5, <2>1 DEF Before
  <2>2. CASE j = k
    <3>0. n <= w[k] /\ \A i \in 1 .. Len(u[k]) : n < u[k][i]
      BY <1>5, <2>2 DEF Before
    <3>1. n < x[k] /\ \A i \in 1 .. Len(u[k]) : n < v[k][i]
      <4>1. n < x[k]
        BY <1>1, <3>0
      <4> QED
        BY <1>2, <3>0, <4>1
    <3>2. \A i \in 1 .. Len(v[k]) : n < v[k][i]
      BY <1>2, <1>4, <3>1
    <3> QED
      BY <1>5, <2>2, <3>1, <3>2, <1>1 DEF Before
  <2> QED
    BY <2>1, <2>2
<1>6. ASSUME NEW j \in Key, NEW i \in Nat, i \in 1 .. Len(v[j])
      PROVE  /\ 0 < v[j][i] /\ v[j][i] <= x[j]
             /\ \A l \in 1 .. Len(v[j]) : i < l => v[j][i] < v[j][l]
  <2>1. CASE j # k
    BY <1>1, <1>6, <2>1 DEF Ordered
  <2>2. CASE j = k /\ i \in 1 .. Len(u[k])
    <3>1. 0 < u[k][i] /\ u[k][i] <= w[k]
          /\ \A l \in 1 .. Len(u[k]) : i < l => u[k][i] < u[k][l]
      BY <2>2 DEF Ordered
    <3> QED
      <4>1. v[k][i] = u[k][i] /\ u[k][i] \in Nat /\ x[k] = w[k] + 1 /\ w[k] \in Nat
        BY <1>1, <1>2, <2>2
      <4>2. 0 < v[k][i] /\ v[k][i] <= x[k]
        BY <3>1, <4>1
      <4>3. \A l \in 1 .. Len(u[k]) : i < l => v[k][i] < v[k][l]
        BY <1>2, <3>1, <4>1
      <4>4. v[k][i] < v[k][Len(u[k]) + 1]
        BY <1>2, <3>1, <4>1
      <4> QED
        BY <1>4, <2>2, <4>2, <4>3, <4>4
  <2>3. CASE j = k /\ i = Len(u[k]) + 1
    BY <1>1, <1>2, <2>3
  <2> QED
    BY <1>4, <1>6, <2>1, <2>2, <2>3
<1>7. ASSUME NEW i \in 1 .. Len(a)
      PROVE  /\ 0 < a[i].no /\ a[i].no <= x[a[i].key]
             /\ \A j \in 1 .. Len(v[a[i].key]) : a[i].no < v[a[i].key][j]
  <2>1. 0 < a[i].no /\ Before(a[i].no, a[i].key, w, u, <<>>)
    BY DEF Ordered, Before
  <2>2. a[i].no <= w[a[i].key] /\ \A j \in 1 .. Len(u[a[i].key]) : a[i].no < u[a[i].key][j]
    BY DEF Ordered
  <2>3. CASE a[i].key # k
    BY <1>1, <1>3, <2>1, <2>2, <2>3
  <2>4. CASE a[i].key = k
    <3>1. \A j \in 1 .. Len(v[k]) : a[i].no < v[k][j]
      <4>1. \A j \in 1 .. Len(u[k]) : a[i].no < v[k][j]
        BY <1>2, <2>2, <2>4
      <4>2. a[i].no < v[k][Len(u[k]) + 1]
        BY <1>1, <1>2, <1>3, <2>2, <2>4
      <4> QED
        BY <1>4, <4>1, <4>2
    <3> QED
      BY <1>1, <1>3, <2>1, <2>2, <2>4, <3>1
  <2> QED
    BY <2>3, <2>4
<1>8. Ordered(x, v, a)
  BY <1>6, <1>7 DEF Ordered
<1> QED
  BY <1>5, <1>8 DEF StaysBefore

(* The first of key k leaves u, which becomes v.                           *)
Leaves(w, u, a, v, k) ==
  /\ Ordered(w, v, a) /\ StaysBefore(w, u, a, w, v, a)
  /\ u[k][1] \in Nat /\ 0 < u[k][1] /\ Before(u[k][1], k, w, v, <<>>)
  /\ \A n \in Nat, j \in Key : Before(n, j, w, u, a) /\ j = k => n < u[k][1]

(* A frame leaves the upload channel.                                      *)
LEMMA TravelOrdered ==
  ASSUME NEW w \in [Key -> Nat], NEW u \in [Key -> Seq(Nat)], NEW a \in Seq(Frame),
         NEW v, NEW k \in Key, Ordered(w, u, a),
         Rest(v[k], u[k]), \A j \in Key : j # k => v[j] = u[j]
  PROVE  Leaves(w, u, a, v, k)
<1>1. \A j \in Key : j # k => v[j] = u[j]
  OBVIOUS
<1>2. /\ Len(u[k]) \in Nat \ {0} /\ Len(v[k]) = Len(u[k]) - 1
      /\ \A i \in 1 .. Len(v[k]) : v[k][i] = u[k][i + 1]
  BY DEF Rest
<1>3. \A i \in 1 .. Len(v[k]) : i + 1 \in 1 .. Len(u[k]) /\ 1 < i + 1 /\ i + 1 \in Nat
  BY <1>2
<1>4. \A i \in 1 .. Len(u[k]) :
         /\ 0 < u[k][i] /\ u[k][i] <= w[k] /\ u[k][i] \in Nat
         /\ \A j \in 1 .. Len(u[k]) : i < j => u[k][i] < u[k][j]
  BY DEF Ordered
<1>5. 1 \in 1 .. Len(u[k])
  BY <1>2
<1>6. \A i \in 1 .. Len(v[k]) : /\ 0 < v[k][i] /\ v[k][i] <= w[k] /\ u[k][1] < v[k][i]
                                /\ \A j \in 1 .. Len(v[k]) : i < j => v[k][i] < v[k][j]
  <2> TAKE i \in 1 .. Len(v[k])
  <2>1. PICK l \in 1 .. Len(u[k]) : l = i + 1 /\ 1 < l /\ v[k][i] = u[k][l]
    BY <1>2, <1>3
  <2>2. 0 < v[k][i] /\ v[k][i] <= w[k] /\ u[k][1] < v[k][i]
    BY <1>4, <1>5, <2>1
  <2>3. ASSUME NEW j \in 1 .. Len(v[k]), i < j PROVE v[k][i] < v[k][j]
    <3>1. PICK h \in 1 .. Len(u[k]) : h = j + 1 /\ v[k][j] = u[k][h]
      BY <1>2, <1>3
    <3>2. l < h
      BY <2>1, <2>3, <3>1
    <3> QED
      BY <1>4, <2>1, <3>1, <3>2
  <2> QED
    BY <2>2, <2>3
<1>7. \A n \in Nat, j \in Key : Before(n, j, w, u, a) => Before(n, j, w, v, a)
  BY <1>1, <1>2, <1>3 DEF Before
<1>8. Ordered(w, v, a)
  <2>1. ASSUME NEW i \in 1 .. Len(a), NEW j \in 1 .. Len(v[a[i].key])
        PROVE  a[i].no < v[a[i].key][j]
    <3> DEFINE q == a[i].key
    <3>1. q \in Key /\ \A l \in 1 .. Len(u[q]) : a[i].no < u[q][l]
      BY FrameParts DEF Ordered
    <3>2. j \in 1 .. Len(v[q])
      OBVIOUS
    <3> HIDE DEF q
    <3>3. a[i].no < v[q][j]
      <4>1. CASE q = k
        BY <1>2, <1>3, <3>1, <3>2, <4>1
      <4>2. CASE q # k
        BY <1>1, <3>1, <3>2, <4>2
      <4> QED
        BY <4>1, <4>2
    <3> QED
      BY <3>3 DEF q
  <2>2. ASSUME NEW j \in Key, NEW i \in Nat, i \in 1 .. Len(v[j])
        PROVE  /\ 0 < v[j][i] /\ v[j][i] <= w[j]
               /\ \A l \in 1 .. Len(v[j]) : i < l => v[j][i] < v[j][l]
    BY <1>1, <1>6, <2>2 DEF Ordered
  <2> QED
    BY <2>1, <2>2 DEF Ordered
<1>9. Before(u[k][1], k, w, v, <<>>)
  BY <1>4, <1>5, <1>6 DEF Before
<1>10. \A n \in Nat, j \in Key : Before(n, j, w, u, a) /\ j = k => n < u[k][1]
  BY <1>5 DEF Before
<1> QED
  BY <1>4, <1>5, <1>7, <1>8, <1>9, <1>10 DEF StaysBefore, Leaves

(* What is less than m comes before b too, if its key is k.                *)
IsBefore(w, u, a, b, k, m) ==
  \A n \in Nat, j \in Key :
      Before(n, j, w, u, a) /\ (j = k => n < m) => Before(n, j, w, u, b)

(* The frame that left it arrives.                                         *)
LEMMA ArriveOrdered ==
  ASSUME NEW w \in [Key -> Nat], NEW u \in [Key -> Seq(Nat)], NEW a \in Seq(Frame),
         NEW k \in Key, NEW m \in Nat, Ordered(w, u, a), 0 < m, Before(m, k, w, u, <<>>),
         \A i \in 1 .. Len(a) : a[i].key = k => a[i].no < m,
         NEW f \in Frame, f.key = k, f.no = m, NEW b \in Seq(Frame), Longer(b, a, f)
  PROVE  Ordered(w, u, b) /\ IsBefore(w, u, a, b, k, m)
<1>1. f.key = k /\ f.no = m
  OBVIOUS
<1>2. /\ Len(a) \in Nat /\ Len(b) = Len(a) + 1 /\ b[Len(a) + 1] = f
      /\ \A i \in 1 .. Len(a) : b[i] = a[i] /\ a[i].no \in Nat
  BY FrameParts DEF Longer
<1>3. \A i \in 1 .. Len(b) : i \in 1 .. Len(a) \/ i = Len(a) + 1
  BY <1>2
<1>4. ASSUME NEW n \in Nat, NEW j \in Key, Before(n, j, w, u, a), j = k => n < m
      PROVE  Before(n, j, w, u, b)
  BY <1>1, <1>2, <1>3, <1>4 DEF Before
<1>5. ASSUME NEW i \in 1 .. Len(b)
      PROVE  /\ 0 < b[i].no /\ b[i].no <= w[b[i].key]
             /\ \A j \in 1 .. Len(u[b[i].key]) : b[i].no < u[b[i].key][j]
             /\ \A j \in 1 .. Len(b) : i < j /\ b[j].key = b[i].key => b[i].no < b[j].no
  <2>1. CASE i = Len(a) + 1
    BY <1>1, <1>2, <2>1 DEF Before
  <2>2. CASE i \in 1 .. Len(a)
    <3>1. /\ b[i] = a[i] /\ 0 < a[i].no /\ a[i].no <= w[a[i].key]
          /\ \A j \in 1 .. Len(u[a[i].key]) : a[i].no < u[a[i].key][j]
          /\ \A j \in 1 .. Len(a) : i < j /\ a[j].key = a[i].key => a[i].no < a[j].no
      BY <1>2, <2>2 DEF Ordered
    <3>2. \A j \in 1 .. Len(b) : i < j /\ b[j].key = b[i].key => b[i].no < b[j].no
      BY <1>1, <1>2, <1>3, <2>2, <3>1
    <3> QED
      BY <3>1, <3>2
  <2> QED
    BY <1>3, <2>1, <2>2
<1>6. Ordered(w, u, b)
  BY <1>5 DEF Ordered
<1> QED
  BY <1>4, <1>6 DEF IsBefore

(* The first frame that arrived is dealt out, or lost.                     *)
LEMMA DealOrdered ==
  ASSUME NEW w \in [Key -> Nat], NEW u \in [Key -> Seq(Nat)], NEW a \in Seq(Frame),
         Ordered(w, u, a), NEW b \in Seq(Frame), Rest(b, a)
  PROVE  /\ Ordered(w, u, b)
         /\ \A n \in Nat, j \in Key : Before(n, j, w, u, a) => Before(n, j, w, u, b)
         /\ Before(a[1].no, a[1].key, w, u, b)
         /\ \A n \in Nat : Before(n, a[1].key, w, u, a) => n < a[1].no
<1>1. /\ Len(a) \in Nat \ {0} /\ Len(b) = Len(a) - 1
      /\ \A i \in 1 .. Len(b) : b[i] = a[i + 1]
  BY DEF Rest
<1>2. \A i \in 1 .. Len(b) : i + 1 \in 1 .. Len(a) /\ 1 < i + 1
  BY <1>1
<1>3. 1 \in 1 .. Len(a)
  BY <1>1
<1>4. ASSUME NEW n \in Nat, NEW j \in Key, Before(n, j, w, u, a)
      PROVE  Before(n, j, w, u, b)
  <2>1. ASSUME NEW i \in 1 .. Len(b), b[i].key = j
        PROVE  n < b[i].no
    <3>1. i + 1 \in 1 .. Len(a) /\ b[i] = a[i + 1]
      BY <1>1, <1>2
    <3> QED
      BY <1>4, <2>1, <3>1 DEF Before
  <2> QED
    BY <1>4, <2>1 DEF Before
<1>5. Before(a[1].no, a[1].key, w, u, b)
  BY <1>1, <1>2, <1>3 DEF Before, Ordered
<1>6. \A i \in 1 .. Len(b) :
        /\ 0 < b[i].no /\ b[i].no <= w[b[i].key]
        /\ \A j \in 1 .. Len(u[b[i].key]) : b[i].no < u[b[i].key][j]
  BY <1>1, <1>2 DEF Ordered
<1>7. ASSUME NEW i \in 1 .. Len(b), NEW j \in 1 .. Len(b), i < j, b[j].key = b[i].key
      PROVE  b[i].no < b[j].no
  <2>1. i + 1 \in 1 .. Len(a) /\ j + 1 \in 1 .. Len(a)
        /\ b[i] = a[i + 1] /\ b[j] = a[j + 1]
    BY <1>1, <1>2
  <2>2. i + 1 < j + 1
    BY <1>1, <1>7
  <2> QED
    BY <1>7, <2>1, <2>2 DEF Ordered
<1>8. Ordered(w, u, b)
  BY <1>6, <1>7 DEF Ordered
<1>9. \A n \in Nat : Before(n, a[1].key, w, u, a) => n < a[1].no
  BY <1>3 DEF Before
<1> QED
  BY <1>4, <1>5, <1>8, <1>9

(* No session of the key of c got a later frame than c.                    *)
LatestIn(c, ch, last) == \A d \in Chan : ch[d].key = ch[c].key => last[d] <= last[c]
Latest(c) == LatestIn(c, chan, dealt)

(* The frames a session got were written before all that are still to be   *)
(* dealt out; the session in the map, and the one the loop is about to put *)
(* there, got no frame or the latest of its key.                           *)
FramesOK ==
  /\ Ordered(wrote, upload, Arrived)
  /\ \A c \in Chan : chan[c].key \in Key =>
        Before(dealt[c], chan[c].key, wrote, upload, Arrived)
  /\ \A k \in Key : senders[k] # None => dealt[senders[k]] = 0 \/ Latest(senders[k])
  /\ loop.at = "insert" => Latest(loop.chan)

LEMMA ArrivedParts ==
  ASSUME TypeOK
  PROVE  /\ Arrived \in Seq(Frame)
         /\ loop.at # "send" => Arrived = download
         /\ loop.at = "send" => Arrived = <<loop.frame>> \o download
<1>1. download \in Seq(Frame) /\ (loop.at = "send" => loop.frame \in Frame)
  BY Parts
<1>2. CASE loop.at = "send"
  <2>1. <<loop.frame>> \in Seq(Frame)
    BY <1>1, <1>2
  <2>2. <<loop.frame>> \o download \in Seq(Frame)
    BY <1>1, <2>1, ConcatProperties
  <2> QED
    BY <1>2, <2>2 DEF Arrived
<1>3. CASE loop.at # "send"
  <2>1. <<>> \o download = download
    BY <1>1, ConcatEmptySeq
  <2> QED
    BY <1>1, <1>3, <2>1 DEF Arrived
<1> QED
  BY <1>2, <1>3

(* What one appends to the end, or takes from the front, of a whole.       *)
LEMMA ConcatAppend ==
  ASSUME NEW S, NEW s \in Seq(S), NEW t \in Seq(S), NEW e \in S
  PROVE  s \o Append(t, e) = Append(s \o t, e)
OBVIOUS

LEMMA ConcatOne ==
  ASSUME NEW S, NEW t \in Seq(S), NEW e \in S
  PROVE  /\ <<e>> \o t # <<>> /\ (<<e>> \o t)[1] = e /\ Head(<<e>> \o t) = e
         /\ Tail(<<e>> \o t) = t
<1>1. <<e>> \in Seq(S) /\ Len(<<e>>) = 1 /\ <<e>>[1] = e
  OBVIOUS
<1> DEFINE s == <<e>> \o t
<1>2. /\ s \in Seq(S) /\ Len(s) = 1 + Len(t) /\ s[1] = e /\ Len(t) \in Nat
      /\ \A i \in 1 .. Len(t) : s[i + 1] = t[i]
  <2>1. s \in Seq(S) /\ Len(s) = Len(<<e>>) + Len(t) /\ Len(t) \in Nat
    BY <1>1, ConcatProperties
  <2>2. \A i \in 1 .. Len(<<e>>) + Len(t) :
           s[i] = IF i <= Len(<<e>>) THEN <<e>>[i] ELSE t[i - Len(<<e>>)]
    BY <1>1, ConcatProperties
  <2> HIDE DEF s
  <2>3. s[1] = e
    BY <1>1, <2>1, <2>2
  <2>4. ASSUME NEW i \in 1 .. Len(t) PROVE s[i + 1] = t[i]
    <3>1. i + 1 \in 1 .. Len(<<e>>) + Len(t) /\ ~ (i + 1 <= Len(<<e>>)) /\ (i + 1) - Len(<<e>>) = i
      BY <1>1, <2>1
    <3> QED
      BY <2>2, <3>1
  <2> QED
    BY <1>1, <2>1, <2>3, <2>4
<1> HIDE DEF s
<1>3. s # <<>> /\ Head(s) = e
  BY <1>2
<1>4. Tail(s) = t
  <2>1. Tail(s) \in Seq(S) /\ Len(Tail(s)) = Len(t) /\ \A i \in 1 .. Len(t) : Tail(s)[i] = t[i]
    BY <1>2, <1>3, TakesFirst
  <2> QED
    BY <2>1, SeqEqual
<1> QED
  BY <1>2, <1>3, <1>4 DEF s

LEMMA HeadAndTail ==
  ASSUME NEW S, NEW s \in Seq(S), s # <<>>
  PROVE  <<Head(s)>> \o Tail(s) = s
OBVIOUS

(* The steps that deal out nothing and make no channel.                    *)
LEMMA QuietOrder ==
  ASSUME Known, FramesOK, UNCHANGED <<wrote, upload, dealt>>, Arrived' = Arrived,
         \A c \in Chan : chan'[c].key = chan[c].key,
         \A k \in Key : senders'[k] # None =>
             senders'[k] \in Chan /\ (senders'[k] = senders[k] \/ Latest(senders'[k])),
         loop'.at = "insert" => loop.at = "insert" /\ loop'.chan = loop.chan
  PROVE  FramesOK'
<1>1. \A c \in Chan : Latest(c) => LatestIn(c, chan', dealt')
  BY DEF Latest, LatestIn
<1>2. \A k \in Key : senders'[k] # None =>
         dealt'[senders'[k]] = 0 \/ LatestIn(senders'[k], chan', dealt')
  <2> SUFFICES ASSUME NEW k \in Key, senders'[k] # None
               PROVE  dealt[senders'[k]] = 0 \/ Latest(senders'[k])
    BY <1>1
  <2> QED
    BY DEF FramesOK
<1>4. loop'.at = "insert" => LatestIn(loop'.chan, chan', dealt')
  <2>1. loop.at = "insert" => loop.chan \in Chan
    BY Parts DEF Known
  <2> QED
    BY <1>1, <2>1 DEF FramesOK
<1>5. \A c \in Chan : chan'[c].key \in Key =>
         Before(dealt'[c], chan'[c].key, wrote', upload', Arrived')
  BY DEF FramesOK
<1>6. Ordered(wrote', upload', Arrived')
  BY DEF FramesOK
<1> QED
  BY <1>2, <1>4, <1>5, <1>6 DEF FramesOK, Latest

(* What Mailbox does not see.                                              *)
LEMMA QuietMail ==
  ASSUME UNCHANGED <<wrote, upload, dealt>>, Arrived' = Arrived,
         \A c \in Chan : /\ chan'[c].key = chan[c].key /\ chan'[c].queue = chan[c].queue
                         /\ chan'[c].receiver = "dropped" <=> chan[c].receiver = "dropped"
  PROVE  UNCHANGED Mail!vars
<1>1. [c \in Chan |-> chan'[c].key] = [c \in Chan |-> chan[c].key]
  OBVIOUS
<1>2. [c \in Chan |-> chan'[c].queue] = [c \in Chan |-> chan[c].queue]
  OBVIOUS
<1>3. {c \in Chan : chan'[c].receiver = "dropped"} = {c \in Chan : chan[c].receiver = "dropped"}
  OBVIOUS
<1> QED
  BY <1>1, <1>2, <1>3 DEF Mail!vars

LEMMA CloseMail ==
  ASSUME UNCHANGED <<wrote, upload, dealt>>, Arrived' = Arrived, NEW S \in SUBSET Chan,
         \A c \in Chan : chan'[c].key = chan[c].key,
         \A c \in S : chan'[c].queue = <<>> /\ chan'[c].receiver = "dropped",
         \A c \in Chan \ S :
             /\ chan'[c].queue = chan[c].queue
             /\ chan'[c].receiver = "dropped" <=> chan[c].receiver = "dropped"
  PROVE  Mail!Next
<1>1. [c \in Chan |-> chan'[c].key] = [c \in Chan |-> chan[c].key]
  OBVIOUS
<1>2. [c \in Chan |-> chan'[c].queue]
      = [c \in Chan |-> IF c \in S THEN <<>> ELSE [d \in Chan |-> chan[d].queue][c]]
  OBVIOUS
<1>3. {c \in Chan : chan'[c].receiver = "dropped"}
      = {c \in Chan : chan[c].receiver = "dropped"} \cup S
  OBVIOUS
<1>4. Mail!Close(S)
  BY <1>1, <1>2, <1>3 DEF Mail!Close
<1> QED
  BY <1>4 DEF Mail!Next

(* A step keeps the frames in order and is one that Mailbox allows.        *)
Deals == FramesOK' /\ (Mail!Next \/ UNCHANGED Mail!vars)

LEMMA SameArrived ==
  ASSUME UNCHANGED <<loop, download>> PROVE Arrived' = Arrived
BY DEF Arrived

LEMMA AcceptDeals == ASSUME Known, FramesOK, Accept PROVE Deals
<1> DEFINE c == Head(incoming)
<1>1. TypeOK /\ incoming \in Seq(Chan) /\ incoming # <<>>
  BY Parts DEF Known, Accept
<1>2. c \in Chan /\ c = incoming[1] /\ Len(incoming) \in Nat \ {0}
  BY <1>1, TakesFirst
<1>3. chan[c].receiver = "listed"
  BY <1>2 DEF Known, ListedOnce
<1>4. Hands(c, "held") /\ "held" \in Receiver
      /\ UNCHANGED <<wrote, upload, download, loop, senders, dealt>>
  BY DEF Accept, Hands, Receiver, remote
<1> HIDE DEF c
<1>5. /\ chan'[c].key = chan[c].key /\ chan'[c].queue = chan[c].queue
      /\ chan'[c].receiver = "held"
      /\ \A d \in Chan : d # c => chan'[d] = chan[d]
  BY <1>1, <1>2, <1>4, HandsOne
<1>6. \A k \in Key : senders[k] # None => senders[k] \in Chan
  BY <1>1, Parts
<1>7. FramesOK'
  BY <1>2, <1>4, <1>5, <1>6, SameArrived, QuietOrder
<1>8. UNCHANGED Mail!vars
  BY <1>2, <1>3, <1>4, <1>5, SameArrived, QuietMail
<1> QED
  BY <1>7, <1>8 DEF Deals

LEMMA DropListenerDeals == ASSUME Known, FramesOK, DropListener PROVE Deals
<1> DEFINE S == {c \in Chan : chan[c].receiver = "listed"}
<1>1. \A c \in Chan : chan'[c] = IF c \in S THEN Closed(chan[c]) ELSE chan[c]
  BY DEF DropListener
<1>2. \A c \in Chan : /\ Closed(chan[c]).key = chan[c].key /\ Closed(chan[c]).queue = <<>>
                      /\ Closed(chan[c]).receiver = "dropped"
  BY DEF Closed
<1>3. UNCHANGED <<wrote, upload, download, loop, senders, dealt>> /\ S \in SUBSET Chan
  BY DEF DropListener, remote
<1> HIDE DEF S
<1>4. /\ \A c \in Chan : chan'[c].key = chan[c].key
      /\ \A c \in S : chan'[c].queue = <<>> /\ chan'[c].receiver = "dropped"
      /\ \A c \in Chan \ S : chan'[c] = chan[c]
  BY <1>1, <1>2, <1>3
<1>5. \A k \in Key : senders[k] # None => senders[k] \in Chan
  BY Parts DEF Known
<1>6. FramesOK'
  BY <1>3, <1>4, <1>5, SameArrived, QuietOrder
<1>7. Mail!Next
  BY <1>3, <1>4, SameArrived, CloseMail
<1> QED
  BY <1>6, <1>7 DEF Deals

(* A session is closed by its user, or refused by the loop.                *)
LEMMA ClosesDeals ==
  ASSUME Known, FramesOK, NEW c \in Chan, Closes(c), Arrived' = Arrived,
         loop'.at # "insert" \/ loop' = loop, UNCHANGED <<wrote, upload, senders, dealt>>
  PROVE  Deals
<1>1. TypeOK
  BY DEF Known
<1>2. /\ chan'[c].key = chan[c].key /\ chan'[c].queue = <<>> /\ chan'[c].receiver = "dropped"
      /\ \A d \in Chan : d # c => chan'[d] = chan[d]
  BY <1>1, ClosesOne
<1>3. \A k \in Key : senders[k] # None => senders[k] \in Chan
  BY <1>1, Parts
<1>4. FramesOK'
  BY <1>2, <1>3, QuietOrder
<1> DEFINE S == {c}
<1>5. S \in SUBSET Chan
  OBVIOUS
<1>6. /\ \A d \in Chan : chan'[d].key = chan[d].key
      /\ \A d \in S : chan'[d].queue = <<>> /\ chan'[d].receiver = "dropped"
      /\ \A d \in Chan \ S : chan'[d] = chan[d]
  BY <1>2
<1> HIDE DEF S
<1>7. Mail!Next
  BY <1>5, <1>6, CloseMail
<1> QED
  BY <1>4, <1>7 DEF Deals

LEMMA DropSessionDeals ==
  ASSUME Known, FramesOK, NEW c \in Chan, DropSession(c) PROVE Deals
<1>1. Closes(c) /\ UNCHANGED <<wrote, upload, download, loop, senders, dealt>>
  BY DEF DropSession, Closes, remote
<1> QED
  BY <1>1, SameArrived, ClosesDeals

LEMMA ReadDeals == ASSUME Known, FramesOK, NEW c \in Chan, Read(c) PROVE Deals
<1>1. TypeOK /\ UNCHANGED <<wrote, upload, download, loop, senders, dealt>>
  BY DEF Read, remote, Known
<1>2. CASE Closes(c)
  BY <1>1, <1>2, SameArrived, ClosesDeals
<1>3. CASE Fills(c, Tail(chan[c].queue))
  <2> DEFINE q == Tail(chan[c].queue)
  <2>1. chan[c].queue \in Seq(Nat) /\ chan[c].queue # <<>>
    BY <1>1, ReadCases, Parts DEF Session
  <2>2. q \in Seq(Nat) /\ Fills(c, q)
    BY <1>3, <2>1, TakesFirst
  <2> HIDE DEF q
  <2>3. /\ chan'[c].key = chan[c].key /\ chan'[c].queue = q
        /\ chan'[c].receiver = chan[c].receiver
        /\ \A d \in Chan : d # c => chan'[d] = chan[d]
    BY <1>1, <2>2, FillsOne
  <2>4. \A k \in Key : senders[k] # None => senders[k] \in Chan
    BY <1>1, Parts
  <2>5. FramesOK'
    BY <1>1, <2>3, <2>4, SameArrived, QuietOrder
  <2>6. Mail!Take(c)
    <3>1. [d \in Chan |-> chan'[d].key] = [d \in Chan |-> chan[d].key]
      BY <2>3
    <3>2. [d \in Chan |-> chan'[d].queue] = [[d \in Chan |-> chan[d].queue] EXCEPT ![c] = q]
      BY <2>3
    <3>3. {d \in Chan : chan'[d].receiver = "dropped"}
          = {d \in Chan : chan[d].receiver = "dropped"}
      BY <2>3
    <3>4. [d \in Chan |-> chan[d].queue][c] = chan[c].queue
      OBVIOUS
    <3> QED
      BY <1>1, <2>1, <3>1, <3>2, <3>3, <3>4, SameArrived DEF Mail!Take, q
  <2> QED
    BY <2>5, <2>6 DEF Deals, Mail!Next
<1> QED
  BY <1>2, <1>3, ReadCases

(* Where the sessions stay as they are, frames in order are enough.        *)
LEMMA RemoteOrder ==
  ASSUME FramesOK, UNCHANGED <<chan, dealt, senders, loop>>,
         Ordered(wrote', upload', Arrived'),
         \A c \in Chan : chan[c].key \in Key
             /\ Before(dealt[c], chan[c].key, wrote, upload, Arrived)
             => Before(dealt[c], chan[c].key, wrote', upload', Arrived')
  PROVE  FramesOK'
<1>1. \A c \in Chan : chan'[c].key \in Key =>
         Before(dealt'[c], chan'[c].key, wrote', upload', Arrived')
  BY DEF FramesOK
<1> QED
  BY <1>1 DEF FramesOK, Latest, LatestIn

LEMMA WriteDeals == ASSUME Known, FramesOK, NEW k \in Key, Write(k) PROVE Deals
<1>1. wrote \in [Key -> Nat] /\ upload \in [Key -> Seq(Nat)] /\ Arrived \in Seq(Frame)
      /\ dealt \in [Chan -> Nat]
  BY Parts, ArrivedParts DEF Known, Made
<1>2. UNCHANGED <<chan, dealt, senders, loop, download>> /\ Arrived' = Arrived
  BY SameArrived DEF Write, local
<1>3. CASE Len(upload[k]) < Cap
  <2>1. wrote' = [wrote EXCEPT ![k] = @ + 1]
        /\ upload' = [upload EXCEPT ![k] = Append(@, wrote[k] + 1)]
    BY <1>3 DEF Write
  <2>2. Ordered(wrote, upload, Arrived)
    BY DEF FramesOK
  <2>3. /\ Ordered(wrote', upload', Arrived)
        /\ \A n \in Nat, j \in Key : Before(n, j, wrote, upload, Arrived)
              => Before(n, j, wrote', upload', Arrived)
    <3>1. /\ wrote' \in [Key -> Nat] /\ upload' \in [Key -> Seq(Nat)]
          /\ wrote'[k] = wrote[k] + 1 /\ Longer(upload'[k], upload[k], wrote'[k])
          /\ \A j \in Key : j # k => wrote'[j] = wrote[j] /\ upload'[j] = upload[j]
      <4> DEFINE s == Append(upload[k], wrote[k] + 1)
      <4>1. s \in Seq(Nat) /\ Longer(s, upload[k], wrote[k] + 1)
        BY <1>1, AddsLast, AppendIsLonger
      <4> HIDE DEF s
      <4>2. upload' = [upload EXCEPT ![k] = s]
        BY <2>1 DEF s
      <4>3. upload'[k] = s /\ \A j \in Key : j # k => upload'[j] = upload[j]
        BY <1>1, <4>2
      <4>4. upload' \in [Key -> Seq(Nat)]
        BY <1>1, <4>1, <4>2
      <4>5. wrote' \in [Key -> Nat] /\ wrote'[k] = wrote[k] + 1
            /\ \A j \in Key : j # k => wrote'[j] = wrote[j]
        BY <1>1, <2>1
      <4> QED
        BY <4>1, <4>3, <4>4, <4>5
    <3> QED
      <4> DEFINE x == wrote'
                 v == upload'
      <4>1. /\ x[k] = wrote[k] + 1 /\ Longer(v[k], upload[k], x[k])
            /\ \A j \in Key : j # k => x[j] = wrote[j] /\ v[j] = upload[j]
        BY <3>1
      <4> HIDE DEF x, v
      <4>2. Ordered(x, v, Arrived) /\ StaysBefore(wrote, upload, Arrived, x, v, Arrived)
        BY <1>1, <2>2, <4>1, WriteOrdered
      <4> QED
        BY <4>2 DEF x, v, StaysBefore
  <2>4. FramesOK'
    BY <1>1, <1>2, <2>3, RemoteOrder
  <2>5. wrote'[k] = wrote[k] + 1
    BY <1>1, <2>1
  <2>6. Mail!Write(k)
    BY <1>2, <2>1, <2>5 DEF Mail!Write
  <2> QED
    BY <2>4, <2>6 DEF Deals, Mail!Next
<1>4. CASE ~ (Len(upload[k]) < Cap)
  <2>1. UNCHANGED <<wrote, upload>>
    BY <1>4 DEF Write
  <2>2. FramesOK'
    BY <1>2, <2>1 DEF FramesOK, Latest, LatestIn
  <2>3. UNCHANGED Mail!vars
    BY <1>2, <2>1, QuietMail
  <2> QED
    BY <2>2, <2>3 DEF Deals
<1> QED
  BY <1>3, <1>4

LEMMA LoseDeals ==
  ASSUME Known, FramesOK, NEW k \in Key, LoseOnTheWay(k) \/ UploadFails(k) PROVE Deals
<1>1. wrote \in [Key -> Nat] /\ upload \in [Key -> Seq(Nat)] /\ Arrived \in Seq(Frame)
      /\ dealt \in [Chan -> Nat]
  BY Parts, ArrivedParts DEF Known, Made
<1>2. UNCHANGED <<wrote, chan, dealt, senders, loop, download>> /\ Arrived' = Arrived
      /\ upload[k] # <<>> /\ upload' = [upload EXCEPT ![k] = Tail(@)]
  BY SameArrived DEF LoseOnTheWay, UploadFails, TakeUpload, local
<1>3. Ordered(wrote, upload, Arrived)
  BY DEF FramesOK
<1>4. /\ Ordered(wrote, upload', Arrived)
      /\ \A n \in Nat, j \in Key : Before(n, j, wrote, upload, Arrived)
            => Before(n, j, wrote, upload', Arrived)
  <2>1. /\ upload' \in [Key -> Seq(Nat)] /\ Rest(upload'[k], upload[k])
        /\ \A j \in Key : j # k => upload'[j] = upload[j]
    BY TakesUpload, TailIsRest DEF Known, LoseOnTheWay, UploadFails
  <2>2. PICK v : v = upload'
    OBVIOUS
  <2>3. Leaves(wrote, upload, Arrived, v, k)
    BY <1>1, <1>3, <2>1, <2>2, TravelOrdered
  <2> QED
    BY <2>2, <2>3 DEF Leaves, StaysBefore
<1>5. FramesOK'
  BY <1>1, <1>2, <1>4, RemoteOrder
<1>6. Mail!Travel(k)
  BY <1>2 DEF Mail!Travel
<1> QED
  BY <1>5, <1>6 DEF Deals, Mail!Next

LEMMA ArriveDeals == ASSUME Known, FramesOK, NEW k \in Key, Arrive(k) PROVE Deals
<1>1. wrote \in [Key -> Nat] /\ upload \in [Key -> Seq(Nat)] /\ Arrived \in Seq(Frame)
      /\ dealt \in [Chan -> Nat] /\ download \in Seq(Frame) /\ TypeOK
      /\ (loop.at # "recv" => loop.frame \in Frame)
  BY Parts, ArrivedParts DEF Known, Made
<1> DEFINE m == Head(upload[k])
           f == [key |-> k, no |-> m]
           b == Arrived'
<1>2. UNCHANGED <<wrote, chan, dealt, senders, loop>>
      /\ upload[k] # <<>> /\ upload' = [upload EXCEPT ![k] = Tail(@)]
      /\ download' = Append(download, f)
  BY DEF Arrive, TakeUpload
<1>3. upload[k] \in Seq(Nat) /\ upload'[k] = Tail(upload[k])
  BY <1>1, <1>2
<1>4. /\ m = upload[k][1] /\ m \in Nat /\ upload' \in [Key -> Seq(Nat)]
      /\ \A j \in Key : j # k => upload'[j] = upload[j]
      /\ Rest(upload'[k], upload[k])
  <2>1. m = upload[k][1] /\ m \in Nat
    BY <1>2, <1>3, TakesFirst
  <2>2. /\ upload' \in [Key -> Seq(Nat)] /\ Rest(upload'[k], upload[k])
        /\ \A j \in Key : j # k => upload'[j] = upload[j]
    BY TakesUpload, TailIsRest DEF Known, Arrive
  <2> QED
    BY <2>1, <2>2
<1>5. f \in Frame
  BY <1>4 DEF Frame
<1>6. Arrived' = Append(Arrived, f)
  <2> HIDE DEF f
  <2>1. CASE loop.at = "send"
    <3>1. <<loop.frame>> \in Seq(Frame)
      BY <1>1, <2>1
    <3>2. <<loop.frame>> \o Append(download, f) = Append(<<loop.frame>> \o download, f)
      BY <1>1, <1>5, <3>1, ConcatAppend
    <3> QED
      BY <1>2, <2>1, <3>2 DEF Arrived
  <2>2. CASE loop.at # "send"
    <3>1. <<>> \in Seq(Frame)
      OBVIOUS
    <3>2. <<>> \o Append(download, f) = Append(<<>> \o download, f)
      BY <1>1, <1>5, <3>1, ConcatAppend
    <3> QED
      BY <1>2, <2>2, <3>2 DEF Arrived
  <2> QED
    BY <2>1, <2>2
<1>7. Ordered(wrote, upload, Arrived)
  BY DEF FramesOK
<1>8. /\ Ordered(wrote, upload', Arrived)
      /\ \A n \in Nat, j \in Key : Before(n, j, wrote, upload, Arrived)
            => Before(n, j, wrote, upload', Arrived)
      /\ 0 < m /\ Before(m, k, wrote, upload', <<>>)
      /\ \A n \in Nat, j \in Key : Before(n, j, wrote, upload, Arrived) /\ j = k => n < m
  <2> HIDE DEF m
  <2> QED
    <3> DEFINE v == upload'
    <3>1. Rest(v[k], upload[k]) /\ \A j \in Key : j # k => v[j] = upload[j]
      BY <1>4
    <3> HIDE DEF v
    <3>2. Leaves(wrote, upload, Arrived, v, k)
      BY <1>1, <1>7, <3>1, TravelOrdered
    <3> QED
      BY <1>4, <3>2 DEF v, StaysBefore, Leaves
<1>9. \A i \in 1 .. Len(Arrived) : Arrived[i].key = k => Arrived[i].no < m
  <2> SUFFICES ASSUME NEW i \in 1 .. Len(Arrived), Arrived[i].key = k
               PROVE  Arrived[i].no < m
    OBVIOUS
  <2>1. 1 \in 1 .. Len(upload[k])
    BY <1>2, <1>3, TakesFirst
  <2> HIDE DEF m
  <2> QED
    BY <1>4, <1>7, <2>1 DEF Ordered
<1>10. /\ Ordered(wrote, upload', Arrived')
       /\ \A n \in Nat, j \in Key :
             Before(n, j, wrote, upload', Arrived) /\ (j = k => n < m)
             => Before(n, j, wrote, upload', Arrived')
  <2> HIDE DEF m
  <2>1. b \in Seq(Frame) /\ Longer(b, Arrived, f) /\ f.key = k /\ f.no = m
    BY <1>1, <1>5, <1>6, AddsLast, AppendIsLonger
  <2> HIDE DEF b, f
  <2>2. /\ Ordered(wrote, upload', b)
        /\ \A n \in Nat, j \in Key :
              Before(n, j, wrote, upload', Arrived) /\ (j = k => n < m)
              => Before(n, j, wrote, upload', b)
    <3> DEFINE v == upload'
    <3>1. v \in [Key -> Seq(Nat)] /\ Ordered(wrote, v, Arrived)
          /\ Before(m, k, wrote, v, <<>>) /\ 0 < m /\ m \in Nat
      BY <1>4, <1>8
    <3> HIDE DEF v
    <3>2. Ordered(wrote, v, b) /\ IsBefore(wrote, v, Arrived, b, k, m)
      BY <1>1, <1>5, <1>9, <2>1, <3>1, ArriveOrdered
    <3> QED
      BY <3>2 DEF v, IsBefore
  <2> QED
    BY <2>2 DEF b
<1>11. FramesOK'
  <2> HIDE DEF m, f
  <2>1. \A n \in Nat, j \in Key : Before(n, j, wrote, upload, Arrived)
            => Before(n, j, wrote, upload', Arrived')
    BY <1>8, <1>10
  <2> QED
    BY <1>1, <1>2, <1>10, <2>1, RemoteOrder
<1>12. Mail!Travel(k)
  BY <1>2, <1>6 DEF Mail!Travel
<1> QED
  BY <1>11, <1>12 DEF Deals, Mail!Next

LEMMA LoopFindsDeals == ASSUME Known, FramesOK, LoopFinds PROVE Deals
<1> DEFINE f == Head(download)
<1>1. download \in Seq(Frame) /\ download # <<>> /\ loop.at = "recv"
      /\ download' = Tail(download)
      /\ loop' = [at |-> "send", frame |-> f, chan |-> senders[f.key]]
      /\ UNCHANGED <<wrote, upload, senders, chan, dealt>>
  BY Parts DEF Known, LoopFinds, remote
<1>2. <<f>> \o Tail(download) = download
  BY <1>1, HeadAndTail
<1> HIDE DEF f
<1>3. loop'.at = "send" /\ loop'.frame = f
  BY <1>1
<1>4. Arrived = download
  BY <1>1, ArrivedParts DEF Known
<1>5. Arrived' = Arrived
  BY <1>1, <1>2, <1>3, <1>4 DEF Arrived
<1>6. \A k \in Key : senders[k] # None => senders[k] \in Chan
  BY Parts DEF Known
<1>7. FramesOK'
  BY <1>1, <1>3, <1>5, <1>6, QuietOrder
<1>8. UNCHANGED Mail!vars
  BY <1>1, <1>5, QuietMail
<1> QED
  BY <1>7, <1>8 DEF Deals

LEMMA LoopRemovesDeals == ASSUME Known, FramesOK, LoopRemoves PROVE Deals
<1>1. TypeOK /\ loop.at = "remove" /\ loop'.at = "recv"
      /\ UNCHANGED <<wrote, upload, download, chan, dealt>>
  BY IdleTypes DEF Known, LoopRemoves, remote
<1>2. Arrived' = Arrived
  BY <1>1 DEF Arrived
<1>3. \A k \in Key : senders'[k] # None => senders'[k] \in Chan /\ senders'[k] = senders[k]
  BY <1>1, Parts DEF LoopRemoves
<1>4. FramesOK'
  BY <1>1, <1>2, <1>3, QuietOrder
<1>5. UNCHANGED Mail!vars
  BY <1>1, <1>2, QuietMail
<1> QED
  BY <1>4, <1>5 DEF Deals

LEMMA LoopInsertsDeals == ASSUME Known, FramesOK, LoopInserts PROVE Deals
<1>1. TypeOK /\ loop.at = "insert" /\ loop.chan \in Chan
      /\ senders' = [senders EXCEPT ![loop.frame.key] = loop.chan]
      /\ UNCHANGED <<wrote, upload, download, chan, dealt>>
  BY Parts DEF Known, LoopInserts, remote
<1>2. loop'.at = "offer"
  BY <1>1, Parts DEF LoopInserts
<1>3. Arrived' = Arrived
  BY <1>1, <1>2 DEF Arrived
<1>4. Latest(loop.chan)
  BY <1>1 DEF FramesOK
<1>5. \A k \in Key : senders'[k] # None =>
         senders'[k] \in Chan /\ (senders'[k] = senders[k] \/ Latest(senders'[k]))
  BY <1>1, <1>4, Parts
<1>6. FramesOK'
  BY <1>1, <1>2, <1>3, <1>5, QuietOrder
<1>7. UNCHANGED Mail!vars
  BY <1>1, <1>3, QuietMail
<1> QED
  BY <1>6, <1>7 DEF Deals

LEMMA LoopOffersDeals == ASSUME Known, FramesOK, LoopOffers PROVE Deals
<1> DEFINE c == loop.chan
<1>1. TypeOK /\ loop.at = "offer" /\ c \in Chan /\ loop'.at = "recv"
      /\ UNCHANGED <<wrote, upload, download, senders, dealt>>
  BY Parts, IdleTypes DEF Known, LoopOffers, remote
<1>2. Arrived' = Arrived
  BY <1>1 DEF Arrived
<1>3. chan[c].receiver = "made" /\ "listed" \in Receiver
  BY <1>1 DEF Known, LoopKnows, Receiver
<1>4. Hands(c, "listed") \/ Closes(c)
  BY DEF LoopOffers, Hands, Closes
<1> HIDE DEF c
<1>5. CASE Hands(c, "listed")
  <2>1. /\ chan'[c].key = chan[c].key /\ chan'[c].queue = chan[c].queue
        /\ chan'[c].receiver = "listed"
        /\ \A d \in Chan : d # c => chan'[d] = chan[d]
    BY <1>1, <1>3, <1>5, HandsOne
  <2>2. \A k \in Key : senders[k] # None => senders[k] \in Chan
    BY <1>1, Parts
  <2>3. FramesOK'
    BY <1>1, <1>2, <2>1, <2>2, QuietOrder
  <2>4. UNCHANGED Mail!vars
    BY <1>1, <1>2, <1>3, <2>1, QuietMail
  <2> QED
    BY <2>3, <2>4 DEF Deals
<1>6. CASE Closes(c)
  BY <1>1, <1>2, <1>6, ClosesDeals
<1> QED
  BY <1>4, <1>5, <1>6

LEMMA DialChecksDeals ==
  ASSUME Known, FramesOK, NEW d \in Dialer, NEW k \in Key, DialChecks(d, k) PROVE Deals
<1>1. UNCHANGED <<wrote, upload, download, loop, senders, chan, dealt>>
  BY DEF DialChecks, remote
<1>2. Arrived' = Arrived
  BY <1>1, SameArrived
<1>3. \A j \in Key : senders[j] # None => senders[j] \in Chan
  BY Parts DEF Known
<1>4. FramesOK'
  BY <1>1, <1>2, <1>3, QuietOrder
<1>5. UNCHANGED Mail!vars
  BY <1>1, <1>2, QuietMail
<1> QED
  BY <1>4, <1>5 DEF Deals

(* A channel made for key k, of which frames up to n were dealt out.       *)
LEMMA NewChannelOrder ==
  ASSUME Known, FramesOK, NEW k \in Key, NEW n \in Nat,
         NEW q \in Seq(Nat), NEW r \in {"made", "held"}, MakeChannel(k, q, r),
         UNCHANGED <<wrote, upload, incoming>>, Ordered(wrote, upload, Arrived'),
         dealt' = [dealt EXCEPT ![Fresh] = n],
         Before(n, k, wrote, upload, Arrived'),
         \A c \in Chan : chan[c].key \in Key
             /\ Before(dealt[c], chan[c].key, wrote, upload, Arrived)
             => Before(dealt[c], chan[c].key, wrote, upload, Arrived')
  PROVE  /\ dealt'[Fresh] = n /\ \A c \in Chan : c # Fresh => dealt'[c] = dealt[c]
         /\ \A c \in Chan : chan'[c].key \in Key =>
               Before(dealt'[c], chan'[c].key, wrote', upload', Arrived')
         /\ \A c \in Chan : c # Fresh /\ Latest(c) /\ (chan[c].key = k => n <= dealt[c])
               => LatestIn(c, chan', dealt')
         /\ \A c \in Chan : c # Fresh => chan'[c] = chan[c]
         /\ Fresh \in Chan /\ chan'[Fresh].key = k
<1>1. /\ Fresh \in Chan /\ chan'[Fresh].key = k
      /\ \A c \in Chan : c # Fresh => chan'[c] = chan[c]
  BY NewChannelKnown
<1>2. dealt'[Fresh] = n /\ \A c \in Chan : c # Fresh => dealt'[c] = dealt[c]
  BY <1>1 DEF Known, Made
<1>3. \A c \in Chan : chan'[c].key \in Key =>
         Before(dealt'[c], chan'[c].key, wrote', upload', Arrived')
  BY <1>1, <1>2 DEF FramesOK
<1>4. \A c \in Chan : c # Fresh /\ Latest(c) /\ (chan[c].key = k => n <= dealt[c])
         => LatestIn(c, chan', dealt')
  BY <1>1, <1>2 DEF Latest, LatestIn
<1> QED
  BY <1>1, <1>2, <1>3, <1>4

(* How Mailbox sees the new channel.                                       *)
LEMMA NewChannelMail ==
  ASSUME Known, NEW k \in Key, NEW q \in Seq(Nat), NEW r \in {"made", "held"},
         MakeChannel(k, q, r), UNCHANGED incoming
  PROVE  /\ Fresh \in Chan /\ chan[Fresh].key = None /\ chan[Fresh].queue = <<>>
         /\ dealt[Fresh] = 0
         /\ [c \in Chan |-> chan'[c].key] = [[c \in Chan |-> chan[c].key] EXCEPT ![Fresh] = k]
         /\ [c \in Chan |-> chan'[c].queue]
            = [[c \in Chan |-> chan[c].queue] EXCEPT ![Fresh] = q]
         /\ {c \in Chan : chan'[c].receiver = "dropped"}
            = {c \in Chan : chan[c].receiver = "dropped"}
<1>1. /\ Fresh \in Chan /\ chan[Fresh].receiver = "unmade"
      /\ chan'[Fresh].key = k /\ chan'[Fresh].receiver = r
      /\ \A c \in Chan : c # Fresh => chan'[c] = chan[c]
  BY NewChannelKnown
<1>2. r \in Receiver
  BY DEF Receiver
<1>3. chan'[Fresh].queue = q
  BY <1>2, MakesFresh DEF Known
<1>4. chan[Fresh].key = None /\ chan[Fresh].queue = <<>> /\ dealt[Fresh] = 0
  BY <1>1 DEF Known, Made
<1>5. r # "dropped"
  OBVIOUS
<1> QED
  BY <1>1, <1>3, <1>4, <1>5

LEMMA MailSteps ==
  ASSUME NEW k \in Key, NEW c \in Chan, Mail!Open(k, c) \/ Mail!Deal(k, c)
  PROVE  Mail!Next
BY Zenon DEF Mail!Next

LEMMA DialInsertsDeals ==
  ASSUME Known, FramesOK, NEW d \in Dialer, DialInserts(d) PROVE Deals
<1> DEFINE k == dialing[d].key
           q == <<>>
<1>1. /\ TypeOK /\ k \in Key /\ MakeChannel(k, <<>>, "held")
      /\ senders' = [senders EXCEPT ![k] = Fresh]
      /\ UNCHANGED <<wrote, upload, download, loop, incoming, dealt>>
  BY DEF DialInserts, Known, Made, remote
<1>2. Arrived' = Arrived
  BY <1>1, SameArrived
<1>3. q \in Seq(Nat) /\ MakeChannel(k, q, "held")
  BY <1>1
<1>4. Ordered(wrote, upload, Arrived) /\ Arrived \in Seq(Frame)
      /\ wrote \in [Key -> Nat] /\ upload \in [Key -> Seq(Nat)]
      /\ senders \in [Key -> Chan \cup {None}]
  BY <1>1, Parts, ArrivedParts DEF FramesOK
<1> HIDE DEF k
<1>5. Before(0, k, wrote, upload, Arrived)
  <2>1. wrote[k] \in Nat /\ Len(upload[k]) \in Nat
    BY <1>1, <1>4
  <2>2. \A i \in 1 .. Len(upload[k]) : 0 < upload[k][i]
    BY <1>1, <1>4 DEF Ordered
  <2>3. \A i \in 1 .. Len(Arrived) : 0 < Arrived[i].no
    BY <1>4 DEF Ordered
  <2> QED
    BY <2>1, <2>2, <2>3 DEF Before
<1>6. /\ Fresh \in Chan /\ chan[Fresh].key = None /\ chan[Fresh].queue = <<>> /\ dealt[Fresh] = 0
      /\ [c \in Chan |-> chan'[c].key] = [[c \in Chan |-> chan[c].key] EXCEPT ![Fresh] = k]
      /\ [c \in Chan |-> chan'[c].queue] = [[c \in Chan |-> chan[c].queue] EXCEPT ![Fresh] = q]
      /\ {c \in Chan : chan'[c].receiver = "dropped"} = {c \in Chan : chan[c].receiver = "dropped"}
  <2> HIDE DEF q
  <2> QED
    BY <1>1, <1>3, NewChannelMail
<1>7. dealt' = [dealt EXCEPT ![Fresh] = 0] /\ dealt \in [Chan -> Nat]
  BY <1>1, <1>6 DEF Known, Made
<1>8. /\ \A c \in Chan : chan'[c].key \in Key =>
            Before(dealt'[c], chan'[c].key, wrote', upload', Arrived')
      /\ \A c \in Chan : c # Fresh /\ Latest(c) /\ (chan[c].key = k => 0 <= dealt[c])
            => LatestIn(c, chan', dealt')
      /\ \A c \in Chan : c # Fresh => chan'[c] = chan[c]
  <2> HIDE DEF q
  <2>1. \A c \in Chan : chan[c].key \in Key
            /\ Before(dealt[c], chan[c].key, wrote, upload, Arrived)
            => Before(dealt[c], chan[c].key, wrote, upload, Arrived')
    BY <1>2
  <2>2. Ordered(wrote, upload, Arrived') /\ Before(0, k, wrote, upload, Arrived')
    BY <1>2, <1>4, <1>5
  <2> QED
    BY <1>1, <1>3, <1>7, <2>1, <2>2, NewChannelOrder
<1>9. ASSUME NEW c \in Chan, c # Fresh, Latest(c)
      PROVE  LatestIn(c, chan', dealt')
  <2>1. 0 <= dealt[c]
    BY <1>7
  <2> QED
    BY <1>8, <1>9, <2>1
<1>10. ASSUME NEW j \in Key, senders'[j] # None
       PROVE  dealt'[senders'[j]] = 0 \/ LatestIn(senders'[j], chan', dealt')
  <2>1. CASE j = k
    <3>1. senders'[j] = Fresh
      BY <1>1, <1>4, <2>1
    <3> QED
      BY <1>1, <1>6, <3>1
  <2>2. CASE j # k
    <3>1. senders'[j] = senders[j]
      BY <1>1, <1>4, <2>2
    <3>2. senders[j] \in Chan /\ chan[senders[j]].key = j
      BY <1>4, <1>10, <3>1 DEF Known, SendersOwn
    <3>3. senders[j] # Fresh
      BY <1>6, <3>2, SessionsAssumption
    <3>4. dealt[senders[j]] = 0 \/ Latest(senders[j])
      BY <1>10, <3>1 DEF FramesOK
    <3> QED
      BY <1>1, <1>9, <3>1, <3>2, <3>3, <3>4
  <2> QED
    BY <2>1, <2>2
<1>11. loop'.at = "insert" => LatestIn(loop'.chan, chan', dealt')
  <2> SUFFICES ASSUME loop.at = "insert" PROVE LatestIn(loop.chan, chan', dealt')
    BY <1>1
  <2>1. loop.chan \in Chan /\ chan[loop.chan].key \in Key
    BY <1>1, Parts DEF Known, LoopKnows, Frame
  <2>2. loop.chan # Fresh
    BY <1>6, <2>1, SessionsAssumption
  <2> QED
    BY <1>9, <2>1, <2>2 DEF FramesOK
<1>12. FramesOK'
  <2>1. Ordered(wrote', upload', Arrived')
    BY <1>1, <1>2, <1>4
  <2> QED
    BY <1>8, <1>10, <1>11, <2>1 DEF FramesOK, Latest
<1> PICK key \in Key : key = k
  BY <1>1
<1> PICK new \in Chan : new = Fresh
  BY <1>6
<1>13. Mail!Open(key, new)
  <2>1. [[c \in Chan |-> chan[c].queue] EXCEPT ![Fresh] = q] = [c \in Chan |-> chan[c].queue]
    BY <1>6
  <2>2. [c \in Chan |-> chan[c].key][Fresh] = None
    BY <1>6
  <2> QED
    BY <1>1, <1>2, <1>6, <2>1, <2>2 DEF Mail!Open
<1>14. Mail!Next
  BY <1>13, MailSteps
<1> QED
  BY <1>12, <1>14 DEF Deals

LEMMA LoopCreatesDeals == ASSUME Known, FramesOK, LoopCreates PROVE Deals
<1> DEFINE f == Head(download)
           k == f.key
           n == f.no
           q == <<n>>
<1>1. /\ TypeOK /\ loop.at = "recv" /\ download # <<>> /\ download' = Tail(download)
      /\ MakeChannel(k, q, "made") /\ senders[k] = None
      /\ dealt' = [dealt EXCEPT ![Fresh] = n]
      /\ loop' = [at |-> "insert", frame |-> f, chan |-> Fresh]
      /\ UNCHANGED <<wrote, upload, senders, incoming>>
  BY DEF LoopCreates, Known, remote
<1>2. /\ f \in Frame /\ k \in Key /\ n \in Nat /\ download \in Seq(Frame)
      /\ download' \in Seq(Frame) /\ f = download[1] /\ Rest(download', download)
  BY <1>1, TakesDownload, TakesFirst, TailIsRest, Parts
<1>3. q \in Seq(Nat) /\ Append(<<>>, n) = q
  BY <1>2
<1>4. Arrived = download
  BY <1>1, ArrivedParts
<1> HIDE DEF f
<1>5. loop'.at = "insert" /\ loop'.chan = Fresh
  BY <1>1
<1>6. Arrived' = download'
  BY <1>1, <1>2, <1>5, ConcatEmptySeq DEF Arrived
<1>7. Ordered(wrote, upload, download) /\ wrote \in [Key -> Nat]
      /\ upload \in [Key -> Seq(Nat)] /\ senders \in [Key -> Chan \cup {None}]
  BY <1>1, <1>4, Parts DEF FramesOK
<1>8. /\ Ordered(wrote, upload, download')
      /\ \A m \in Nat, j \in Key : Before(m, j, wrote, upload, download)
            => Before(m, j, wrote, upload, download')
      /\ Before(n, k, wrote, upload, download')
      /\ \A m \in Nat : Before(m, k, wrote, upload, download) => m < n
  BY <1>2, <1>7, DealOrdered
<1> HIDE DEF k, n, q
<1>9. /\ Fresh \in Chan /\ chan[Fresh].key = None /\ chan[Fresh].queue = <<>> /\ dealt[Fresh] = 0
      /\ [c \in Chan |-> chan'[c].key] = [[c \in Chan |-> chan[c].key] EXCEPT ![Fresh] = k]
      /\ [c \in Chan |-> chan'[c].queue] = [[c \in Chan |-> chan[c].queue] EXCEPT ![Fresh] = q]
      /\ {c \in Chan : chan'[c].receiver = "dropped"} = {c \in Chan : chan[c].receiver = "dropped"}
  BY <1>1, <1>2, <1>3, NewChannelMail
<1>10. dealt \in [Chan -> Nat]
  BY DEF Known, Made
<1>11. /\ dealt'[Fresh] = n /\ \A c \in Chan : c # Fresh => dealt'[c] = dealt[c]
       /\ \A c \in Chan : chan'[c].key \in Key =>
             Before(dealt'[c], chan'[c].key, wrote', upload', Arrived')
       /\ \A c \in Chan : c # Fresh /\ Latest(c) /\ (chan[c].key = k => n <= dealt[c])
             => LatestIn(c, chan', dealt')
       /\ \A c \in Chan : c # Fresh => chan'[c] = chan[c]
       /\ chan'[Fresh].key = k
  <2>1. \A c \in Chan : chan[c].key \in Key
            /\ Before(dealt[c], chan[c].key, wrote, upload, Arrived)
            => Before(dealt[c], chan[c].key, wrote, upload, Arrived')
    BY <1>4, <1>6, <1>8, <1>10
  <2>2. Ordered(wrote, upload, Arrived') /\ Before(n, k, wrote, upload, Arrived')
    BY <1>6, <1>8
  <2> QED
    BY <1>1, <1>2, <1>3, <2>1, <2>2, NewChannelOrder
<1>12. ASSUME NEW j \in Key, senders[j] # None
       PROVE  dealt'[senders[j]] = 0 \/ LatestIn(senders[j], chan', dealt')
  <2>1. senders[j] \in Chan /\ chan[senders[j]].key = j
    BY <1>7, <1>12 DEF Known, SendersOwn
  <2>2. senders[j] # Fresh /\ j # k
    BY <1>1, <1>9, <1>12, <2>1, SessionsAssumption
  <2>3. dealt[senders[j]] = 0 \/ Latest(senders[j])
    BY <1>12 DEF FramesOK
  <2> QED
    BY <1>11, <2>1, <2>2, <2>3
<1>13. LatestIn(Fresh, chan', dealt')
  <2> SUFFICES ASSUME NEW c \in Chan, chan'[c].key = k
               PROVE  dealt'[c] <= n
    BY <1>11 DEF LatestIn
  <2>1. CASE c = Fresh
    BY <1>2, <1>11, <2>1
  <2>2. CASE c # Fresh
    <3>1. dealt[c] \in Nat /\ Before(dealt[c], k, wrote, upload, download)
      BY <1>2, <1>4, <1>10, <1>11, <2>2 DEF FramesOK
    <3> QED
      BY <1>2, <1>8, <1>11, <2>2, <3>1
  <2> QED
    BY <2>1, <2>2
<1>14. FramesOK'
  <2>1. Ordered(wrote', upload', Arrived')
    BY <1>1, <1>6, <1>8
  <2>2. \A j \in Key : senders'[j] # None =>
           dealt'[senders'[j]] = 0 \/ LatestIn(senders'[j], chan', dealt')
    BY <1>1, <1>12
  <2>3. loop'.at = "insert" => LatestIn(loop'.chan, chan', dealt')
    BY <1>5, <1>13
  <2> QED
    BY <1>11, <2>1, <2>2, <2>3 DEF FramesOK, Latest
<1> PICK key \in Key : key = k
  BY <1>2
<1> PICK new \in Chan : new = Fresh
  BY <1>9
<1>15. Mail!Deal(key, new)
  <2>1. Arrived # <<>> /\ Head(Arrived).key = k /\ Head(Arrived).no = n
        /\ Arrived' = Tail(Arrived)
    BY <1>1, <1>4, <1>6 DEF f, k, n
  <2>2. [c \in Chan |-> chan[c].key][Fresh] = None
        /\ [c \in Chan |-> chan[c].queue][Fresh] = <<>>
    BY <1>9
  <2>3. [c \in Chan |-> chan'[c].queue]
        = [[c \in Chan |-> chan[c].queue] EXCEPT ![Fresh] = Append(@, n)]
    BY <1>3, <1>9, <2>2
  <2> QED
    BY <1>1, <1>9, <2>1, <2>2, <2>3 DEF Mail!Deal
<1>16. Mail!Next
  BY <1>15, MailSteps
<1> QED
  BY <1>14, <1>16 DEF Deals

LEMMA LoopSendsDeals == ASSUME Known, FramesOK, LoopSends PROVE Deals
<1> DEFINE c == loop.chan
           f == loop.frame
           k == f.key
           n == f.no
<1>1. /\ TypeOK /\ loop.at = "send" /\ c \in Chan /\ f \in Frame /\ k \in Key /\ n \in Nat
      /\ UNCHANGED <<wrote, upload, download, senders, incoming>>
  BY LoopSendsCases, Parts DEF Known, Frame, remote
<1>2. senders[k] = c /\ c # None /\ chan[c].key = k
  BY <1>1, SessionsAssumption DEF Known, LoopKnows, SendersOwn, Chan
<1>3. /\ Arrived \in Seq(Frame) /\ download \in Seq(Frame) /\ Arrived # <<>>
      /\ Arrived[1] = f /\ Head(Arrived) = f /\ Tail(Arrived) = download
      /\ Rest(download, Arrived)
  <2>1. Arrived \in Seq(Frame) /\ Arrived = <<f>> \o download /\ download \in Seq(Frame)
    BY <1>1, ArrivedParts, Parts
  <2>2. /\ <<f>> \o download # <<>> /\ (<<f>> \o download)[1] = f
        /\ Head(<<f>> \o download) = f /\ Tail(<<f>> \o download) = download
    BY <1>1, <2>1, ConcatOne
  <2> HIDE DEF f
  <2>3. /\ Arrived # <<>> /\ Arrived[1] = f /\ Head(Arrived) = f /\ Tail(Arrived) = download
    BY <2>1, <2>2
  <2> QED
    BY <2>1, <2>3, TailIsRest
<1>4. Ordered(wrote, upload, Arrived) /\ wrote \in [Key -> Nat]
      /\ upload \in [Key -> Seq(Nat)] /\ senders \in [Key -> Chan \cup {None}]
      /\ dealt \in [Chan -> Nat]
  BY <1>1, Parts DEF FramesOK, Known, Made
<1>5. /\ Ordered(wrote, upload, download)
      /\ \A m \in Nat, j \in Key : Before(m, j, wrote, upload, Arrived)
            => Before(m, j, wrote, upload, download)
      /\ Before(n, k, wrote, upload, download)
      /\ \A m \in Nat : Before(m, k, wrote, upload, Arrived) => m < n
  <2> HIDE DEF f
  <2>1. /\ Ordered(wrote, upload, download)
        /\ \A m \in Nat, j \in Key : Before(m, j, wrote, upload, Arrived)
              => Before(m, j, wrote, upload, download)
    BY <1>3, <1>4, DealOrdered
  <2>2. /\ Before(Arrived[1].no, Arrived[1].key, wrote, upload, download)
        /\ \A m \in Nat : Before(m, Arrived[1].key, wrote, upload, Arrived)
              => m < Arrived[1].no
    BY <1>3, <1>4, DealOrdered
  <2> QED
    BY <1>3, <2>1, <2>2
<1>6. loop'.at # "send" => Arrived' = download
  BY <1>1, <1>3, ConcatEmptySeq DEF Arrived
<1>7. CASE Delivers
  <2> DEFINE q == Append(chan[c].queue, n)
  <2>1. loop'.at = "recv" /\ dealt' = [dealt EXCEPT ![c] = n] /\ Fills(c, q)
    BY <1>7, IdleTypes DEF Delivers
  <2>2. chan[c].queue \in Seq(Nat)
    BY <1>1, Parts DEF Session
  <2>3. q \in Seq(Nat)
    BY <1>1, <2>2, AddsLast
  <2> HIDE DEF q, c, f, k, n
  <2>4. /\ chan'[c].key = chan[c].key /\ chan'[c].queue = q
        /\ chan'[c].receiver = chan[c].receiver
        /\ \A d \in Chan : d # c => chan'[d] = chan[d]
    BY <1>1, <2>1, <2>3, FillsOne
  <2>5. dealt'[c] = n /\ \A d \in Chan : d # c => dealt'[d] = dealt[d]
    BY <1>1, <1>4, <2>1
  <2>6. Arrived' = download
    BY <1>6, <2>1
  <2>7. \A d \in Chan : chan'[d].key = chan[d].key
    BY <2>4
  <2>8. ASSUME NEW d \in Chan, chan'[d].key \in Key
        PROVE  Before(dealt'[d], chan'[d].key, wrote', upload', Arrived')
    <3>1. CASE d = c
      BY <1>1, <1>2, <1>5, <2>4, <2>5, <2>6, <3>1
    <3>2. CASE d # c
      <4>1. Before(dealt[d], chan[d].key, wrote, upload, Arrived) /\ dealt[d] \in Nat
        BY <1>4, <2>7, <2>8 DEF FramesOK
      <4> QED
        BY <1>1, <1>5, <2>5, <2>6, <2>7, <2>8, <3>2, <4>1
    <3> QED
      BY <3>1, <3>2
  <2>9. ASSUME NEW d \in Chan, chan[d].key = k
        PROVE  dealt'[d] <= n
    <3>1. dealt[d] \in Nat /\ Before(dealt[d], k, wrote, upload, Arrived)
      BY <1>1, <1>4, <2>9 DEF FramesOK
    <3>2. dealt[d] < n
      BY <1>5, <3>1
    <3> QED
      BY <1>1, <2>5, <3>1, <3>2
  <2>10. ASSUME NEW j \in Key, senders[j] # None
         PROVE  dealt'[senders[j]] = 0 \/ LatestIn(senders[j], chan', dealt')
    <3>1. CASE j = k
      BY <1>1, <1>2, <2>5, <2>7, <2>9, <3>1 DEF LatestIn
    <3>2. CASE j # k
      <4>1. senders[j] \in Chan /\ chan[senders[j]].key = j
        BY <1>4, <2>10 DEF Known, SendersOwn
      <4>2. senders[j] # c /\ \A d \in Chan : chan[d].key = j => d # c
        BY <1>2, <3>2, <4>1
      <4>3. dealt[senders[j]] = 0 \/ Latest(senders[j])
        BY <2>10 DEF FramesOK
      <4> QED
        BY <2>5, <2>7, <4>1, <4>2, <4>3 DEF Latest, LatestIn
    <3> QED
      BY <3>1, <3>2
  <2>11. FramesOK'
    <3>1. \A j \in Key : senders'[j] # None =>
             dealt'[senders'[j]] = 0 \/ LatestIn(senders'[j], chan', dealt')
      BY <1>1, <2>10
    <3>2. Ordered(wrote', upload', Arrived')
      BY <1>1, <1>5, <2>6
    <3> QED
      BY <2>1, <2>8, <3>1, <3>2 DEF FramesOK, Latest
  <2> PICK key \in Key : key = k
    BY <1>1
  <2> PICK to \in Chan : to = c
    BY <1>1
  <2>12. Mail!Deal(key, to)
    <3>1. Arrived # <<>> /\ Head(Arrived).key = k /\ Head(Arrived).no = n
          /\ Arrived' = Tail(Arrived)
      BY <1>3, <2>6 DEF k, n
    <3>2. [d \in Chan |-> chan[d].key][c] = k /\ [d \in Chan |-> chan[d].queue][c] = chan[c].queue
      BY <1>1, <1>2
    <3>3. [d \in Chan |-> chan'[d].key] = [[d \in Chan |-> chan[d].key] EXCEPT ![c] = k]
      BY <1>2, <2>7
    <3>4. [d \in Chan |-> chan'[d].queue]
          = [[d \in Chan |-> chan[d].queue] EXCEPT ![c] = Append(@, n)]
      <4>1. q = Append(chan[c].queue, n)
        BY DEF q
      <4>2. [[d \in Chan |-> chan[d].queue] EXCEPT ![c] = q]
            = [[d \in Chan |-> chan[d].queue] EXCEPT ![c] = Append(@, n)]
        BY <3>2, <4>1
      <4>3. [d \in Chan |-> chan'[d].queue] = [[d \in Chan |-> chan[d].queue] EXCEPT ![c] = q]
        BY <2>4
      <4> QED
        BY <4>2, <4>3
    <3>5. {d \in Chan : chan'[d].receiver = "dropped"} = {d \in Chan : chan[d].receiver = "dropped"}
      BY <2>4
    <3>6. dealt[c] = 0 \/ \A d \in {e \in Chan : [x \in Chan |-> chan[x].key][e] = k} :
                             dealt[d] <= dealt[c]
      <4>1. dealt[c] = 0 \/ Latest(c)
        BY <1>1, <1>2 DEF FramesOK
      <4> QED
        BY <1>2, <4>1 DEF Latest, LatestIn
    <3> QED
      BY <1>1, <2>1, <3>1, <3>2, <3>3, <3>4, <3>5, <3>6 DEF Mail!Deal, Mail!Sessions
  <2>13. Mail!Next
    BY <2>12, MailSteps
  <2> QED
    BY <2>11, <2>13 DEF Deals
<1>8. CASE /\ chan[c].receiver = "dropped" /\ loop' = [loop EXCEPT !.at = "remove"]
           /\ UNCHANGED <<chan, dealt>>
  <2>1. loop'.at = "remove"
    BY <1>1, <1>8, Parts
  <2>2. Arrived' = download
    BY <1>6, <2>1
  <2> HIDE DEF f
  <2>3. FramesOK'
    <3>1. ASSUME NEW d \in Chan, chan[d].key \in Key
          PROVE  Before(dealt[d], chan[d].key, wrote, upload, download)
      BY <1>4, <1>5, <3>1 DEF FramesOK
    <3> QED
      BY <1>1, <1>5, <1>8, <2>1, <2>2, <3>1 DEF FramesOK, Latest, LatestIn
  <2>4. Mail!Refuse(k)
    <3>1. [d \in Chan |-> chan[d].key][c] = k
      BY <1>1, <1>2
    <3>2. c \in {d \in Chan : chan[d].receiver = "dropped"}
      BY <1>1, <1>8
    <3>3. Arrived # <<>> /\ Head(Arrived).key = k /\ Arrived' = Tail(Arrived)
      BY <1>3, <2>2
    <3> QED
      BY <1>1, <1>8, <3>1, <3>2, <3>3 DEF Mail!Refuse, Mail!Sessions
  <2> QED
    BY <1>1, <2>3, <2>4 DEF Deals, Mail!Next
<1> QED
  BY <1>7, <1>8, LoopSendsCases

LEMMA StepDeals == ASSUME Known, FramesOK, [Next]_vars PROVE Deals
<1>1. CASE DownloadLoop
  BY <1>1, LoopFindsDeals, LoopCreatesDeals, LoopSendsDeals, LoopRemovesDeals,
     LoopInsertsDeals, LoopOffersDeals DEF DownloadLoop
<1>2. ASSUME NEW d \in Dialer, Dialing(d) PROVE Deals
  BY <1>2, DialInsertsDeals, DialChecksDeals DEF Dialing
<1>3. ASSUME NEW c \in Chan, Using(c) PROVE Deals
  BY <1>3, ReadDeals, DropSessionDeals DEF Using, ReadBroken
<1>4. ASSUME NEW k \in Key, Sending(k) PROVE Deals
  BY <1>4, WriteDeals, ArriveDeals, LoseDeals DEF Sending
<1>5. CASE UNCHANGED vars
  <2>1. Arrived' = Arrived
    BY <1>5, SameArrived DEF vars
  <2>2. FramesOK'
    BY <1>5, <2>1 DEF vars, FramesOK, Latest, LatestIn
  <2>3. UNCHANGED Mail!vars
    BY <1>5, <2>1, QuietMail DEF vars
  <2> QED
    BY <2>2, <2>3 DEF Deals
<1> QED
  BY <1>1, <1>2, <1>3, <1>4, <1>5, AcceptDeals, DropListenerDeals DEF Next

LEMMA InitDeals == ASSUME Init PROVE FramesOK /\ Mail!Init
<1>1. Arrived = <<>>
  <2>1. <<>> \in Seq(Frame) /\ loop.at # "send" /\ download = <<>>
    BY IdleTypes DEF Init
  <2> QED
    BY <2>1, ConcatEmptySeq DEF Arrived
<1>2. \A k \in Key : Len(upload[k]) = 0
  BY DEF Init
<1>3. FramesOK
  <2>1. Ordered(wrote, upload, Arrived)
    BY <1>1, <1>2 DEF Ordered
  <2>2. \A c \in Chan : chan[c].key \notin Key
    BY SessionsAssumption DEF Init
  <2>3. \A k \in Key : senders[k] = None
    BY DEF Init
  <2>4. loop.at = "recv"
    BY IdleTypes DEF Init
  <2> QED
    BY <2>1, <2>2, <2>3, <2>4 DEF FramesOK
<1>4. Mail!Init
  <2>1. [c \in Chan |-> chan[c].key] = [c \in Chan |-> None]
        /\ [c \in Chan |-> chan[c].queue] = [c \in Chan |-> <<>>]
        /\ {c \in Chan : chan[c].receiver = "dropped"} = {}
    BY DEF Init
  <2> QED
    BY <1>1, <2>1 DEF Init, Mail!Init
<1> QED
  BY <1>3, <1>4

(* The loops, channels, dials and drops of client.rs and session.rs        *)
(* implement Mailbox: frames are dealt out in order, to one session after  *)
(* the other, and one that arrived is lost only where its session was      *)
(* dropped.                                                                *)
THEOREM SessionsDealFrames == Spec => DealsFrames
<1>1. Init => FramesOK /\ Mail!Init
  BY InitDeals
<1>2. Known /\ FramesOK /\ [Next]_vars => FramesOK' /\ [Mail!Next]_(Mail!vars)
  BY StepDeals DEF Deals
<1> QED
  BY <1>1, <1>2, AlwaysKnown, PTL DEF Spec, DealsFrames, Mail!Spec

===============================================================================
