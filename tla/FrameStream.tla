----------------------------- MODULE FrameStream -----------------------------
(***************************************************************************)
(* One direction of a peering: frames written by a FramedWrite to a TCP    *)
(* stream, which delivers them in parts of any size to the FramedRead that *)
(* the peer task polls (connection.rs, wire_frame.rs, poll_peer).          *)
(*                                                                         *)
(* send() holds the socket's lock until the frame is flushed, so the write *)
(* buffer encode finds is empty.  After an error of the decoder FramedRead *)
(* ends the stream, and the peer task with it.                             *)
(***************************************************************************)
EXTENDS Codec

CONSTANTS Sample,    \* the frames that may be sent
          MaxSent    \* bound: the frames that are sent

(* What a frame holds in a field of each kind.                             *)
Values(kind) ==
    CASE kind \in {"key", "word"} -> Nat
      [] kind \in {"path", "payload"} -> Seq(Nat)
      [] kind = "signatures" -> Seq([key : Nat, port : Nat])

FieldNames(type) == {EncodedFields[type][i] : i \in DOMAIN EncodedFields[type]}

IsFrame(f) ==
    /\ f = [type |-> f.type, fields |-> f.fields]
    /\ f.type \in DOMAIN EncodedType
    /\ f.fields = [name \in FieldNames(f.type) |-> f.fields[name]]
    /\ \A name \in FieldNames(f.type) : f.fields[name] \in Values(Kind(name))

ASSUME SampleAssumption == (\A f \in Sample : IsFrame(f)) /\ MaxSent \in Nat

Encoded == [f \in Sample |-> Encode(f)]

VARIABLES sent,      \* the frames sent so far
          pipe,      \* the bytes written and not read
          buffer,    \* the read buffer of FramedRead
          readable,  \* FramedRead has to try and decode before it reads on
          got,       \* the frames the peer task handled
          state,     \* reading, ended after an error, or panicked
          torn       \* history: a read ended inside the body of a frame

vars == <<sent, pipe, buffer, readable, got, state, torn>>

Init ==
    /\ sent = <<>> /\ pipe = <<>> /\ buffer = <<>> /\ got = <<>>
    /\ readable = FALSE /\ torn = FALSE
    /\ state = "reading"

TypeOK ==
    /\ sent \in Seq(Sample) /\ Len(got) <= MaxSent
    /\ readable \in BOOLEAN /\ torn \in BOOLEAN
    /\ state \in {"reading", "ended", "panicked"}
    /\ Len(pipe) + Len(buffer)
          <= Len(FlattenSeq([i \in DOMAIN sent |-> Encoded[sent[i]]]))

Send(f) ==
    /\ Len(sent) < MaxSent
    /\ sent' = Append(sent, f)
    /\ pipe' = pipe \o Encoded[f]
    /\ UNCHANGED <<buffer, readable, got, state, torn>>

(* The bytes that were written for the first i frames.                     *)
WrittenFor(i) == Len(FlattenSeq([j \in 1 .. i |-> Encoded[sent[j]]]))

(* Byte n is the last one of no frame, and not in a header's beginning.    *)
InsideBody(n) ==
    \E i \in DOMAIN sent : WrittenFor(i - 1) + HeaderLen <= n /\ n < WrittenFor(i)

(* Mutant: bytes that were read are read again.                            *)
ReadAgain(n) ==
    /\ state = "reading" /\ ~ readable
    /\ n \in 1 .. Len(pipe)
    /\ buffer' = buffer \o SubSeq(pipe, 1, n)
    /\ readable' = TRUE
    /\ UNCHANGED <<sent, pipe, got, state, torn>>

Read(n) ==
    /\ state = "reading" /\ ~ readable
    /\ n \in 1 .. Len(pipe)
    /\ buffer' = buffer \o SubSeq(pipe, 1, n)
    /\ pipe' = Skip(pipe, n)
    /\ readable' = TRUE
    /\ torn' = (torn \/ InsideBody(WrittenFor(Len(sent)) - Len(pipe')))
    /\ UNCHANGED <<sent, got, state>>

(* Mutant: one frame is decoded per read.                                  *)
PollPeerOnce ==
    /\ state = "reading" /\ readable
    /\ LET d == Decode(buffer)
       IN /\ buffer' = d.rest
          /\ got' = IF d.result = "frame" THEN Append(got, d.frame) ELSE got
          /\ state' = IF d.result \in {"error", "panic"} THEN "ended" ELSE state
    /\ readable' = FALSE
    /\ UNCHANGED <<sent, pipe, torn>>

(* One poll of the stream.  FramedRead goes on decoding what it holds      *)
(* before it reads again; an error ends it, a panic ends the peer task.    *)
PollPeer ==
    /\ state = "reading" /\ readable
    /\ LET d == Decode(buffer)
       IN /\ buffer' = d.rest
          /\ got' = IF d.result = "frame" THEN Append(got, d.frame) ELSE got
          /\ readable' = (d.result = "frame")
          /\ state' = CASE d.result = "error" -> "ended"
                        [] d.result = "panic" -> "panicked"
                        [] OTHER -> "reading"
    /\ UNCHANGED <<sent, pipe, torn>>

Next == \/ \E f \in Sample : Send(f)
        \/ \E n \in 1 .. Len(pipe) : Read(n)
        \/ PollPeer

Spec == Init /\ [][Next]_vars

-----------------------------------------------------------------------------

(* Frames the format can carry.  The source path of a TreePacket is read   *)
(* with the length of its destination (wire_frame.rs 240), and the header  *)
(* has 16 bits for the length, which the encoder cuts off (line 67).       *)
Proper ==
    {f \in Sample :
        /\ DeclaredLength(f) < Mod
        /\ f.type = "TreeRouted" => Len(f.fields["source"]) = Len(f.fields["destination"])}

AllProper == \A i \in DOMAIN sent : sent[i] \in Proper

(* However TCP cuts the stream, the frames that come out are those that    *)
(* went in, in order, up to the first one the format cannot carry: a       *)
(* decoder that took off too little or too much would go on with rubbish.  *)
DecodesWhatWasSent ==
    \A i \in DOMAIN got :
        (\A j \in 1 .. i : j \in DOMAIN sent => sent[j] \in Proper)
        => i \in DOMAIN sent /\ got[i] = sent[i]

(* The decoder does not wait for the rest of a frame (line 203).  That is  *)
(* the only way in which it fails on frames the format can carry: a peering *)
(* whose reads end between frames, or within their headers, goes on.       *)
FailsOnlyOnTornFrames == AllProper /\ state # "reading" => torn

(* An announcement's length does not count its signatures (line 47), so    *)
(* of a torn one the check may miss that bytes are missing: the peer task  *)
(* then panics, and disconnect_peer is never called.  No other frame does  *)
(* that.                                                                   *)
OnlyAnnouncementsPanic ==
    AllProper /\ state = "panicked"
    => sent[Len(got) + 1].type = "TreeAnnouncement"

(* Once the bytes are read and the peer task waits for more, every frame   *)
(* was handled and no byte is left over, unless a frame was torn.          *)
NothingStaysBehind ==
    AllProper /\ ~ torn /\ state = "reading" /\ pipe = <<>> /\ ~ readable
    => got = sent /\ buffer = <<>>

=============================================================================
