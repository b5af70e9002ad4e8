------------------------- MODULE MCWorkstationSeat -------------------------
(* Two users, one of them an admin, two or three portal requests, and      *)
(* heartbeats of which one may be overtaken by the next: on a desktop that *)
(* is free in WorkstationSeat.cfg, in use in SeatOrders.cfg.               *)
EXTENDS WorkstationSeat

CONSTANTS u1, u2

MCUsers == {u1, u2}
MCAdmins == {u2}
MCRemovable == {u1}
=============================================================================
