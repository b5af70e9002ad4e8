------------------------------ MODULE MCAgent ------------------------------
(***************************************************************************)
(* Small instances of the machines of Agent for TLC.  What a part leaves   *)
(* open at its start is fixed while another one moves, so that TLC meets   *)
(* each part's states once.                                                *)
(***************************************************************************)
EXTENDS Agent

MCInit ==
  /\ InitAll
  /\ part # "update" => auto = FALSE /\ sound = FALSE
  /\ part # "helper" => size = "s"
  /\ part # "labwc" => index = 1 /\ others = {}

MCSpec == MCInit /\ [][NextAll]_allVars /\ FairnessAll
=============================================================================
