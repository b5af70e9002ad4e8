----------------------------- MODULE MCServices -----------------------------
(***************************************************************************)
(* Small instances of the machines of Services for TLC.  What a part       *)
(* leaves open at its start is fixed while another one moves, so that TLC  *)
(* meets each part's states once.                                          *)
(*                                                                         *)
(* For the tab: a path app, a focus app that may be framed (g) and one of  *)
(* either kind (f).                                                        *)
(***************************************************************************)
EXTENDS Services

MCInit ==
  /\ InitAll
  /\ up
  /\ part # "tunnel" => live = {}
  /\ part # "pull" => wanted = {} /\ sets = {} /\ sync["s"].at # "off"
  /\ doors["f"].frame = (part # "apps")
  /\ session /\ doors["g"].frame

MCSpec == MCInit /\ [][NextAll]_allVars /\ FairnessAll
=============================================================================
