---------------------------- MODULE TreeRouting -----------------------------
(***************************************************************************)
(* Tree routing of rust_pinecone: coordinates, their distance and the next *)
(* hop towards coordinates (src/src/coordinates.rs, next_tree_hop in       *)
(* src/src/router.rs).  Operators only: TreeForwarding forwards packets    *)
(* with them, Snek sends its frames with them.                             *)
(*                                                                         *)
(* An announcement is a record with the fields root (key and sequence      *)
(* number) and sigs, the signatures, root first, each with the port the    *)
(* signer sent it from.                                                    *)
(***************************************************************************)
EXTENDS Integers, Sequences, FiniteSets

CONSTANT None       \* no announcement

(* Coordinates are sequences of ports, one for each hop from the root.     *)
CommonPrefix(c, d) ==
    Cardinality({i \in DOMAIN c \cap DOMAIN d : \A j \in 1 .. i : c[j] = d[j]})

DistanceTo(c, d) == Len(c) + Len(d) - 2 * CommonPrefix(c, d)

(* The coordinates of the router that received an announcement with these  *)
(* signatures, and of the peer that sent it.                               *)
Coordinates(sigs) == [i \in 1 .. Len(sigs) |-> sigs[i].port]

(* Mutant: the first signature is left out, not the last.                  *)
PeerCoordinatesAfterRoot(sigs) == [i \in 1 .. Len(sigs) - 1 |-> sigs[i + 1].port]

PeerCoordinates(sigs) == [i \in 1 .. Len(sigs) - 1 |-> sigs[i].port]

-----------------------------------------------------------------------------
(* next_tree_hop, at a router with the given peers, the announcements row  *)
(* it stored of them and its current announcement cur, for a frame to      *)
(* coordinates dest that came from the router `from'.                      *)

(* Mutant: the distance from the parent.                                   *)
OwnDistanceOfParent(cur, dest) == DistanceTo(dest, PeerCoordinates(cur.sigs))

OwnDistance(cur, dest) == DistanceTo(dest, Coordinates(cur.sigs))
PeerDistance(row, m, dest) == DistanceTo(PeerCoordinates(row[m].sigs), dest)

(* The router takes the frame itself.                                      *)
Arrived(cur, dest) == OwnDistance(cur, dest) = 0

(* Peers that follow the same root with the same sequence number.          *)
Usable(row, cur, peers, from) ==
    {m \in peers \ {from} : row[m] # None /\ row[m].root = cur.root}

Closer(row, cur, peers, dest, from) ==
    {m \in Usable(row, cur, peers, from) :
        PeerDistance(row, m, dest) < OwnDistance(cur, dest)}

(* The closest peers: next_tree_hop returns the one whose announcement was *)
(* received first, and no hop if there are none.                           *)
Closest(row, cur, peers, dest, from) ==
    LET C == Closer(row, cur, peers, dest, from)
    IN {m \in C : \A k \in C :
            PeerDistance(row, m, dest) <= PeerDistance(row, k, dest)}

=============================================================================
