--------------------------- MODULE MCReachability ---------------------------
(* One server, two addresses on two ports and room for one of them, one client. *)
EXTENDS Reachability, TLC

CONSTANTS s1, a1, a2, c1

MCPortOf == (a1 :> "tcp") @@ (a2 :> "quic")
=============================================================================
