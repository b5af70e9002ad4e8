------------------------------ MODULE MCGateway ------------------------------
(* Safety: two tabs that drive the seat, one of them with two sockets (it    *)
(* reconnects before the gateway noticed that the first is gone), and one    *)
(* that only watches.  Liveness: the two tabs that drive, a socket each.     *)
EXTENDS Gateway

CONSTANTS v1, v2, v3, s1, s2, s3, s4

MCTabs == {v1, v2}
MCVids == {v1, v2, v3}
MCShared == {v3}
MCSocks == {s1, s2, s3, s4}
MCTabOf == (s1 :> v1) @@ (s2 :> v1) @@ (s3 :> v2) @@ (s4 :> v3)
MCTwoSocks == {s1, s3}
MCTwoTabOf == (s1 :> v1) @@ (s3 :> v2)
MCSizes == {"small", "large"}
MCFirstWindow == [v \in Vids |-> IF v = v1 THEN "small" ELSE "large"]
MCScales == {"x1", "x2"}
=============================================================================
