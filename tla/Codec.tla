-------------------------------- MODULE Codec --------------------------------
(***************************************************************************)
(* PineconeCodec (src/src/wire_frame.rs): frames to bytes and back.        *)
(*                                                                         *)
(* A byte sequence keeps the widths of its fields, as constants, and one   *)
(* value per field, in each of its bytes.  A frame is its type and its     *)
(* fields by name; a signature is the key and port it signs; the receive   *)
(* time and order, which decode fills in afresh, are left out.             *)
(***************************************************************************)
EXTENDS Integers, Sequences, SequencesExt

CONSTANTS MagicLen,  \* 4 bytes
          ExtraLen,  \* 2 bytes
          NumLen,    \* u16, 2 bytes
          WordLen,   \* u64, 8 bytes: ports, sequence numbers and path ids
          KeyLen,    \* 32 bytes
          SigLen,    \* 64 bytes
          Mod,       \* 2^16, the numbers a u16 tells apart
          Checked    \* a build with overflow checks (debug)

ASSUME WidthAssumption ==
    /\ {MagicLen, ExtraLen, NumLen, WordLen, KeyLen, SigLen, Mod} \subseteq Nat \ {0}
    /\ Checked \in BOOLEAN

HeaderLen == MagicLen + 2 + ExtraLen + NumLen    \* FRAME_HEADER_LENGTH

Bytes(value, width) == [i \in 1 .. width |-> value]

Magic == -1     \* a byte of FRAME_MAGIC_BYTES; nothing else holds it
Version == 0

-----------------------------------------------------------------------------
(* What encode writes: the number of a type, and its fields in order.      *)

EncodedType ==
    [TreeAnnouncement |-> 1, TreeRouted |-> 2, SnekBootstrap |-> 3, SnekBootstrapACK |-> 4,
     SnekSetup |-> 5, SnekSetupACK |-> 6, SnekTeardown |-> 7, SnekRouted |-> 8]

EncodedFields ==
    [TreeAnnouncement |-> << "root_key", "root_sequence", "signatures" >>,
     TreeRouted       |-> << "destination", "source", "payload" >>,
     SnekBootstrap    |-> << "destination_key", "source", "root_key", "root_sequence",
                             "path_id" >>,
     SnekBootstrapACK |-> << "destination", "destination_key", "source", "source_key",
                             "root_key", "root_sequence", "path_id" >>,
     SnekSetup        |-> << "destination", "destination_key", "source_key", "root_key",
                             "root_sequence", "path_id" >>,
     SnekSetupACK     |-> << "destination_key", "root_key", "root_sequence", "path_id" >>,
     SnekTeardown     |-> << "destination_key", "root_key", "root_sequence", "path_id" >>,
     SnekRouted       |-> << "destination_key", "source_key", "payload" >>]

(* What a field holds: a key, a u64, a list of ports, of signatures, or of *)
(* bytes.                                                                  *)
Kind(name) ==
    CASE name \in {"root_key", "destination_key", "source_key"} -> "key"
      [] name \in {"root_sequence", "path_id"} -> "word"
      [] name \in {"destination", "source"} -> "path"
      [] OTHER -> name

EncodeSignature(s) ==
    Bytes(s.key, KeyLen) \o Bytes(s.port, WordLen) \o Bytes(s.key, SigLen)

Encode1(kind, v) ==
    CASE kind = "key" -> Bytes(v, KeyLen)
      [] kind = "word" -> Bytes(v, WordLen)
      [] kind = "payload" -> v
      [] kind = "path" ->
            Bytes(Len(v) % Mod, NumLen)
                \o FlattenSeq([i \in DOMAIN v |-> Bytes(v[i], WordLen)])
      [] kind = "signatures" ->
            Bytes(Len(v) % Mod, NumLen)
                \o FlattenSeq([i \in DOMAIN v |-> EncodeSignature(v[i])])

Body(f) ==
    FlattenSeq([i \in DOMAIN EncodedFields[f.type] |->
        LET name == EncodedFields[f.type][i] IN Encode1(Kind(name), f.fields[name])])

(* Mutant: the last field of a frame is forgotten.                         *)
DeclaredLengthShort(f) == HeaderLen + Len(Body(f)) - WordLen

(* The length in the header, a u16.  Of the signatures of an announcement  *)
(* it counts the key and the port, and not the 64 bytes that sign them.    *)
DeclaredLength(f) ==
    HeaderLen + Len(Body(f))
    - IF f.type = "TreeAnnouncement" THEN Len(f.fields["signatures"]) * SigLen ELSE 0

Encode(f) ==
    Bytes(Magic, MagicLen) \o <<Version, EncodedType[f.type]>> \o Bytes(0, ExtraLen)
    \o Bytes(DeclaredLength(f) % Mod, NumLen) \o Body(f)

-----------------------------------------------------------------------------
(* What decode reads.                                                      *)

DecodedFields ==
    << << "root_key", "root_sequence", "signatures" >>,
       << "destination", "source", "payload" >>,
       << "destination_key", "source", "root_key", "root_sequence", "path_id" >>,
       << "destination", "destination_key", "source", "source_key", "root_key",
          "root_sequence", "path_id" >>,
       << "destination", "destination_key", "source_key", "root_key", "root_sequence",
          "path_id" >>,
       << "destination_key", "root_key", "root_sequence", "path_id" >>,
       << "destination_key", "root_key", "root_sequence", "path_id" >>,
       << "destination_key", "source_key", "payload" >> >>

(* The ports of a tree packet's source are counted by its destination.     *)
DecodedKind(type, name) ==
    IF type = 2 /\ name = "source" THEN "path_as_destination" ELSE Kind(name)

(* Mutant: two types with the same fields are swapped.                     *)
DecodedTypeSwapped ==
    << "TreeAnnouncement", "TreeRouted", "SnekBootstrap", "SnekBootstrapACK",
       "SnekSetup", "SnekTeardown", "SnekSetupACK", "SnekRouted" >>

DecodedType ==
    << "TreeAnnouncement", "TreeRouted", "SnekBootstrap", "SnekBootstrapACK",
       "SnekSetup", "SnekSetupACK", "SnekTeardown", "SnekRouted" >>

Skip(s, n) == SubSeq(s, n + 1, Len(s))

ItemLen(kind) ==
    CASE kind = "key" -> KeyLen
      [] kind = "payload" -> 1
      [] kind = "signatures" -> KeyLen + WordLen + SigLen
      [] OTHER -> WordLen

IsList(kind) == kind \in {"path", "path_as_destination", "signatures"}

(* The bytes of the payload, in u16 arithmetic: what the header declares   *)
(* less what was read, as the counts of the paths say.  It wraps, or       *)
(* panics in a build that checks.                                          *)
PayloadLength(c) ==
    LET fixed == IF c.lists = 0 THEN 2 * KeyLen ELSE c.lists * NumLen + c.items * WordLen
    IN c.len - HeaderLen - fixed

(* The value of a field, in number items from the start-th byte on.        *)
ValueAt(rest, kind, start, number) ==
    LET at(i) == start + (i - 1) * ItemLen(kind) + 1
    IN CASE kind \in {"key", "word"} -> rest[1]
         [] kind = "signatures" ->
                [i \in 1 .. number |-> [key |-> rest[at(i)], port |-> rest[at(i) + KeyLen]]]
         [] OTHER -> [i \in 1 .. number |-> rest[at(i)]]

With(fields, name, value) ==
    [n \in DOMAIN fields \cup {name} |-> IF n = name THEN value ELSE fields[n]]

(* The number of items of the next field, as it is read.                   *)
Count(c) == Head(c.rest) % Mod

Number(c, kind) ==
    CASE kind \in {"key", "word"} -> 1
      [] kind \in {"path", "signatures"} -> Count(c)
      [] kind = "payload" -> PayloadLength(c) % Mod
      [] OTHER -> Len(c.fields["destination"])

(* One field, read off the cursor c = [rest, fields, ok, len, lists,       *)
(* items].  Reading past the end of the buffer panics.                     *)
Decode1(c, name, kind) ==
    LET start == IF IsList(kind) THEN NumLen ELSE 0
        size == start + Number(c, kind) * ItemLen(kind)
    IN IF \/ ~ c.ok \/ Len(c.rest) < start \/ Len(c.rest) < size
          \/ kind = "payload" /\ Checked /\ PayloadLength(c) < 0
       THEN [c EXCEPT !.ok = FALSE]
       ELSE [c EXCEPT !.rest = Skip(@, size),
                      !.fields = With(@, name, ValueAt(c.rest, kind, start, Number(c, kind))),
                      !.lists = IF IsList(kind) THEN @ + 1 ELSE @,
                      !.items = IF IsList(kind) THEN @ + Count(c) ELSE @]

(* The cursor when all fields of a frame of that type are read.            *)
DecodeFields(type, rest, len) ==
    LET names == DecodedFields[type]
        read[i \in 0 .. Len(names)] ==
            IF i = 0 THEN [rest |-> rest, fields |-> <<>>, ok |-> TRUE,
                           len |-> len, lists |-> 0, items |-> 0]
            ELSE Decode1(read[i - 1], names[i], DecodedKind(type, names[i]))
    IN read[Len(names)]

Outcome(result, rest) == [result |-> result, rest |-> rest, frame |-> <<>>]

(* decode of a frame whose header is complete: the header is taken off the *)
(* buffer before the rest is known to be there.                            *)
DecodeBody(src) ==
    LET rest == Skip(src, HeaderLen)
        type == src[MagicLen + 2]
        len == src[HeaderLen] % Mod
        need == IF len < HeaderLen THEN len - HeaderLen + Mod ELSE len - HeaderLen
        end == DecodeFields(type, rest, len)
    IN IF src[MagicLen + 1] # Version THEN Outcome("error", Skip(src, MagicLen + 1))
       ELSE IF len < HeaderLen /\ Checked THEN Outcome("panic", rest)
       ELSE IF Len(rest) < need THEN Outcome("error", rest)
       ELSE IF type \notin DOMAIN DecodedType THEN Outcome("error", rest)
       ELSE IF ~ end.ok THEN Outcome("panic", rest)
       ELSE [result |-> "frame", rest |-> end.rest,
             frame |-> [type |-> DecodedType[type], fields |-> end.fields]]

(* Mutant: an incomplete header is an error.                               *)
DecodeImpatient(src) ==
    IF Len(src) < HeaderLen THEN Outcome("error", src) ELSE DecodeBody(src)

Decode(src) ==
    IF Len(src) < MagicLen THEN Outcome("none", src)
    ELSE IF \E i \in 1 .. MagicLen : src[i] # Magic THEN Outcome("error", src)
    ELSE IF Len(src) < HeaderLen THEN Outcome("none", src)
    ELSE DecodeBody(src)

=============================================================================
