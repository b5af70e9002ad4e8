--------------------------- MODULE UpdateContract ---------------------------
(***************************************************************************)
(* What a remote update of an agent promises (docs/superpowers/plans/      *)
(* 2026-11-01-agent-update.md): the install goes from one version to the   *)
(* other in one step, a version that did not prove healthy is taken back,  *)
(* and the outcome tells which of the two is installed.                    *)
(***************************************************************************)
VARIABLES
  install,  \* "old" or "new", "mixed" after a power loss
  outcome   \* "none", "updating", "ok", "failed", "rolled_back", "unknown"

contractVars == <<install, outcome>>

Init == install = "old" /\ outcome = "none"

\* An order is taken up; also again after a failure.
Begin == install = "old" /\ outcome' = "updating" /\ UNCHANGED install

\* Nothing was changed.
Fail == outcome = "updating" /\ install = "old" /\ outcome' = "failed" /\ UNCHANGED install

Commit == outcome = "updating" /\ install = "old" /\ install' = "new" /\ UNCHANGED outcome

\* The new version proved healthy.
Accept == outcome = "updating" /\ install = "new" /\ outcome' = "ok" /\ UNCHANGED install

\* The new version did not prove healthy in time: first the files, then the outcome.
TakeBack == outcome = "updating" /\ install = "new" /\ install' = "old" /\ UNCHANGED outcome

Report == outcome = "updating" /\ install = "old" /\ outcome' = "rolled_back" /\ UNCHANGED install

\* The power is lost during an update: nothing is promised.  A loss at any other time is
\* no step of this specification.
Kill == outcome = "updating" /\ outcome' = "unknown" /\ install' \in {"old", "new", "mixed"}

Unknown == outcome = "unknown" /\ UNCHANGED outcome /\ install' \in {"old", "new", "mixed"}

Next == Kill \/ Unknown \/ Begin \/ Fail \/ Commit \/ Accept \/ TakeBack \/ Report

Contract == Init /\ [][Next]_contractVars
=============================================================================
