------------------------------ MODULE MCPortal ------------------------------
(***************************************************************************)
(* Small instances of the machines of Portal for TLC, in Portal.cfg.  What *)
(* a part leaves open at its start is fixed while another one moves, so    *)
(* that TLC meets each part's states once.                                 *)
(*                                                                         *)
(* For the routes: two desktops of which one name begins with the other, a *)
(* workstation, an app under a path and one behind the focus cookie; two   *)
(* refreshers.                                                             *)
(***************************************************************************)
EXTENDS Portal, TLC

MCSegment == ("d1" :> "dev") @@ ("d2" :> "devx") @@ ("w1" :> "dev") @@ ("a1" :> "son")
             @@ ("a2" :> "wiki")
MCLonger == {<<"dev", "devx">>, <<"son", "sonarr">>}

MCInit ==
  /\ InitAll
  /\ part # "routes" => ~k8s /\ rows = Desks /\ stored = "seed"
  /\ part # "sign-in" => card = "off"

MCSpec == MCInit /\ [][NextAll]_allVars
=============================================================================
