----------------------------- MODULE MCClients -----------------------------
(***************************************************************************)
(* The programs two at a time.                                               *)
(***************************************************************************)
EXTENDS ClientsInv

Pairs == {{"server", "client"}, {"server", "ntp"}, {"client", "ntp"}}
=============================================================================
