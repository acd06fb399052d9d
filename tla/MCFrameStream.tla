---------------------------- MODULE MCFrameStream ----------------------------
(***************************************************************************)
(* Frames of each type for FrameStream, with narrow fields and lengths     *)
(* that wrap at 32: two payloads are as long as a header can say, and one  *)
(* byte longer.                                                            *)
(***************************************************************************)
EXTENDS FrameStream, TLC

Frame(type, fields) == [type |-> type, fields |-> fields]

RootIs(k, s) == "root_key" :> k @@ "root_sequence" :> s

Announcement(sigs) == Frame("TreeAnnouncement", RootIs(3, 4) @@ "signatures" :> sigs)

TreePacket(destination, source) ==
    Frame("TreeRouted",
          "destination" :> destination @@ "source" :> source @@ "payload" :> <<5>>)

SnekPacket(n) ==
    Frame("SnekRouted",
          "destination_key" :> 1 @@ "source_key" :> 2 @@ "payload" :> [i \in 1 .. n |-> 5])

Longest == Mod - 1 - HeaderLen - 2 * KeyLen

Samples ==
    { Announcement(<<[key |-> 3, port |-> 1]>>),
      Announcement(<<[key |-> 3, port |-> 1], [key |-> 2, port |-> 4]>>),
      TreePacket(<<1>>, <<2>>), TreePacket(<<1, 2>>, <<>>), TreePacket(<<>>, <<2>>),
      SnekPacket(1), SnekPacket(Longest), SnekPacket(Longest + 1),
      Frame("SnekBootstrap", "destination_key" :> 1 @@ "source" :> <<2>>
                @@ RootIs(3, 4) @@ "path_id" :> 5),
      Frame("SnekBootstrapACK", "destination_key" :> 1 @@ "destination" :> <<1>>
                @@ "source_key" :> 2 @@ "source" :> <<>> @@ RootIs(3, 4) @@ "path_id" :> 5),
      Frame("SnekSetup", "destination_key" :> 1 @@ "destination" :> <<1>>
                @@ "source_key" :> 2 @@ RootIs(3, 4) @@ "path_id" :> 5),
      Frame("SnekSetupACK", "destination_key" :> 1 @@ RootIs(3, 4) @@ "path_id" :> 5),
      Frame("SnekTeardown", "destination_key" :> 2 @@ RootIs(3, 4) @@ "path_id" :> 5) }

=============================================================================
