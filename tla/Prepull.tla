------------------------------- MODULE Prepull -----------------------------
(***************************************************************************)
(* Images pulled ahead on Kubernetes (services/k8s_prepull.py): a          *)
(* DaemonSet per image of the templates members share.  Every change of a  *)
(* template starts a sync, and so do the boot and each night; syncs run    *)
(* beside each other, and each goes by the rows it read at its start.      *)
(***************************************************************************)
EXTENDS Naturals, FiniteSets

CONSTANTS
  Images,
  Syncs,       \* bound: syncs alive at once
  MaxChanges,  \* bound: template changes
  MaxFails     \* bound: calls that fail

VARIABLES
  wanted,   \* images of the shared and admin-owned templates
  sets,     \* images the cluster has a DaemonSet of
  sync,     \* per sync: [at: "off", "start", "apply", "list", "delete", desired, todo]
  changes, failed

vars == <<wanted, sets, sync, changes, failed>>
Off == [at |-> "off", desired |-> {}, todo |-> {}]
Starting == [Off EXCEPT !.at = "start"]

\* The boot's sync is the first.
Init ==
  /\ wanted \in SUBSET Images /\ sets \in SUBSET Images
  /\ \E s \in Syncs : sync = [t \in Syncs |-> IF t = s THEN Starting ELSE Off]
  /\ changes = 0 /\ failed = 0

Begin == \E s \in Syncs : sync[s].at = "off" /\ sync' = [sync EXCEPT ![s] = Starting]

\* create_template, update_template, delete_template: committed, then schedule_sync
Change ==
  /\ changes < MaxChanges /\ changes' = changes + 1
  /\ \E i \in Images : wanted' = IF i \in wanted THEN wanted \ {i} ELSE wanted \cup {i}
  /\ Begin
  /\ UNCHANGED <<sets, failed>>

\* prepull_loop
Nightly ==
  /\ Begin
  /\ UNCHANGED <<wanted, sets, changes, failed>>

\* sync_prepull reads the templates,
Read(s) ==
  /\ sync[s].at = "start"
  /\ sync' = [sync EXCEPT ![s] = [at |-> "apply", desired |-> wanted, todo |-> wanted]]
  /\ UNCHANGED <<wanted, sets, changes, failed>>

\* and its thread applies them one by one,
Apply(s, i) ==
  /\ sync[s].at = "apply" /\ i \in sync[s].todo
  /\ sets' = sets \cup {i}
  /\ sync' = [sync EXCEPT ![s].todo = @ \ {i}]
  /\ UNCHANGED <<wanted, changes, failed>>

\* mutant: nothing is listed, so nothing is removed
List_Nothing(s) ==
  /\ sync[s].at = "apply" /\ sync[s].todo = {}
  /\ sync' = [sync EXCEPT ![s] = [@ EXCEPT !.at = "delete"]]
  /\ UNCHANGED <<wanted, sets, changes, failed>>

\* lists what there is,
List(s) ==
  /\ sync[s].at = "apply" /\ sync[s].todo = {}
  /\ sync' = [sync EXCEPT ![s] = [@ EXCEPT !.at = "delete", !.todo = sets \ sync[s].desired]]
  /\ UNCHANGED <<wanted, sets, changes, failed>>

\* and deletes what it did not want.
Delete(s, i) ==
  /\ sync[s].at = "delete" /\ i \in sync[s].todo
  /\ sets' = sets \ {i}
  /\ sync' = [sync EXCEPT ![s].todo = @ \ {i}]
  /\ UNCHANGED <<wanted, changes, failed>>

Finish(s) ==
  /\ sync[s].at = "delete" /\ sync[s].todo = {}
  /\ sync' = [sync EXCEPT ![s] = Off]
  /\ UNCHANGED <<wanted, sets, changes, failed>>

\* The API fails: the sync stops where it is.
Fail(s) ==
  /\ sync[s].at \in {"apply", "delete"}
  /\ failed < MaxFails /\ failed' = failed + 1
  /\ sync' = [sync EXCEPT ![s] = Off]
  /\ UNCHANGED <<wanted, sets, changes>>

Step(s) == Read(s) \/ List(s) \/ Finish(s) \/ \E i \in Images : Apply(s, i) \/ Delete(s, i)

Next ==
  \/ Change \/ Nightly
  \/ \E s \in Syncs : Step(s) \/ Fail(s)

\* Nights come, and a sync's thread runs.
Fairness == WF_vars(Nightly) /\ \A s \in Syncs : WF_vars(Step(s))

Spec == Init /\ [][Next]_vars /\ Fairness

-----------------------------------------------------------------------------
(* Properties                                                              *)

\* When the templates stay, every wanted image ends up with its DaemonSet and no other has one:
\* also after syncs that overtook each other, and after some that failed half way.
SetsConverge == <>[](wanted \subseteq sets) /\ <>[](sets \subseteq wanted)

-----------------------------------------------------------------------------
(* Sentences of the code and its documents that the model refutes (README) *)

\* A sync of an older look at the templates deletes what a newer one just applied; the next night
\* brings it back.
RestIsSynced == (\A s \in Syncs : sync[s].at = "off") => sets = wanted
=============================================================================
