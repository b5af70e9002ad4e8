------------------------ MODULE MCInstanceLifecycle ------------------------
(* One desktop and a few requests.  The two desktops of one user, on one     *)
(* profile, are the instance that refutes OneInstancePerProfile.             *)
EXTENDS InstanceLifecycle, TLC

CONSTANTS i1, i2, b1, b2, b3, b4, n1, n2, p1

TwoInstances == {i1, i2}
FourBoxes == {b1, b2, b3, b4}
Names == i1 :> n1 @@ i2 :> n2
Profiles == i1 :> p1 @@ i2 :> p1
FirstBoxes == i1 :> b1 @@ i2 :> b2
NewBoxes == <<b3, b4>>

OneInstance == {i1}
ThreeBoxes == {b1, b3, b4}
OneName == i1 :> n1
OneProfile == i1 :> p1
OneFirstBox == i1 :> b1
=============================================================================
