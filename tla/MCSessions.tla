----------------------------- MODULE MCSessions -----------------------------
(***************************************************************************)
(* Two remote clients for Sessions: one that writes enough to fill a       *)
(* session of capacity 1 and to hold up the other's frame.                 *)
(***************************************************************************)
EXTENDS Sessions, TLC

CONSTANTS a, b

TwoAndOne == (a :> 2) @@ (b :> 1)

=============================================================================
