----------------------------- MODULE Connection -----------------------------
(***************************************************************************)
(* What a sketch may rely on when it asks Spider_CheckConnected and          *)
(* Spider_CheckDHCP: an address is got over a connection, never out of       *)
(* nothing, and is gone with it.                                             *)
(***************************************************************************)
VARIABLE link

Init == link = "down"

Join  == link = "down" /\ link' = "associated"
Lease == link = "associated" /\ link' = "addressed"
Leave == link # "down" /\ link' = "down"

Next == Join \/ Lease \/ Leave
Spec == Init /\ [][Next]_link
=============================================================================
