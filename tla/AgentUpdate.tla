----------------------------- MODULE AgentUpdate -----------------------------
(***************************************************************************)
(* The remote update of a workstation agent: the order an administrator or *)
(* the auto setting leaves on the row (routers/workstation_update.py,      *)
(* services/workstations.py), the heartbeat that carries it to the agent   *)
(* and the progress back (routers/agent.py), the agent's side of it        *)
(* (agent_update.py) and the updater, a unit of its own that replaces the  *)
(* agent's files or, when a pinned dependency is missing, its directory    *)
(* (agent_updater.py, health.rollback).                                    *)
(*                                                                         *)
(* One workstation and one version to go to.  The updater is one process,  *)
(* one action per file operation; the heartbeats travel and may be lost or *)
(* overtaken by the agent's restart.                                       *)
(***************************************************************************)
EXTENDS Naturals, FiniteSets

CONSTANTS
  Files,      \* the files of the manifest
  Main,       \* styx_agent.py, the one that names the version
  MaxOrders,  \* bound: orders of an administrator
  MaxCrashes, \* bound: power losses
  MaxLate     \* bound: heartbeats on their way over a restart

ASSUME MainAssumption == Main \in Files

VARIABLES
  row,      \* update_target given, update_state and agent_version of the row
  auto,     \* AGENT_AUTO_UPDATE
  orders,   \* orders given
  tried,    \* was the updater started since the last order?
  wire,     \* heartbeats on their way
  answer,   \* the answer the agent holds: "none", "plain", "update"
  agent,    \* the running agent: its version, and whether stream and gateway are up
  files,    \* the installed version of every file
  prev,     \* the directory left by enroll --upgrade: "none", "old", "new"
  status,   \* state of update-state.json, "none" without the file
  pc,       \* where the updater is
  todo,     \* the files it still has to replace
  backup,   \* the versions in the backup of this run
  sound,    \* does the new version come up healthy?
  crashes,
  killed    \* ghost: the updater lost its power

rowVars == <<row, auto, orders, tried>>
agentVars == <<agent, answer, wire>>
updaterVars == <<files, prev, status, pc, todo, backup>>
vars == <<rowVars, agentVars, updaterVars, sound, crashes, killed>>

Old == [f \in Files |-> "old"]

\* build_update_manifest: every file as the portal ships it
New == [f \in Files |-> "new"]

\* the installed version is the one that the main file names
VersionOf(fs) == fs[Main]

\* write_state, which replaces the file at once
WriteState(s) == status' = s

Init ==
  /\ row = [target |-> FALSE, state |-> "none", version |-> "old"]
  /\ auto \in BOOLEAN /\ orders = 0 /\ tried = TRUE
  /\ wire = {} /\ answer = "none"
  /\ agent = [version |-> "old", healthy |-> TRUE]
  /\ files = Old /\ prev = "none" /\ status = "none"
  /\ pc = "idle" /\ todo = {} /\ backup = Old
  /\ sound \in BOOLEAN /\ crashes = 0 /\ killed = FALSE

-----------------------------------------------------------------------------
(* The portal                                                              *)

\* request_agent_update
Requested(r) == [r EXCEPT !.target = TRUE, !.state = "requested"]

\* update_one; update_outdated does the same for every workstation that is online
Order ==
  /\ orders < MaxOrders /\ row.version # "new"
  /\ orders' = orders + 1
  /\ row' = Requested(row) /\ tried' = FALSE
  /\ UNCHANGED <<auto, agentVars, updaterVars, sound, crashes, killed>>

\* _apply_update_report: only for the ordered target, which every run here is for
Reported(r, report) == IF r.target /\ report # "none" THEN [r EXCEPT !.state = report] ELSE r

\* mutant: auto mode also retries an update that was rolled back
Settled_NotRolledBack == {"requested", "updating", "failed"}

Settled == {"requested", "updating", "rolled_back", "failed"}

\* The heartbeat: version, report, then "ok" by version or a new order by the setting
Beaten(m) ==
  LET r == Reported([row EXCEPT !.version = m.version], m.report)
  IN  IF r.target /\ r.version = "new" /\ r.state # "ok" THEN [r EXCEPT !.state = "ok"]
      ELSE IF auto /\ r.version = "old" /\ ~(r.target /\ r.state \in Settled) THEN Requested(r)
      ELSE r

\* A heartbeat arrives.  Its answer reaches the agent if that is still the process that
\* sent it, or is lost.
Heartbeat(m, arrives) ==
  /\ wire' = wire \ {m}
  /\ row' = Beaten(m)
  /\ tried' = (tried /\ ~(Beaten(m).state = "requested" /\ row.state # "requested"))
  /\ arrives => m.mine
  /\ answer' = IF ~arrives THEN answer
               ELSE IF Beaten(m).state = "requested" /\ Beaten(m).version = "old" THEN "update"
               ELSE "plain"
  /\ UNCHANGED <<auto, orders, agent, updaterVars, sound, crashes, killed>>

Lose(m) ==
  /\ wire' = wire \ {m}
  /\ UNCHANGED <<rowVars, agent, answer, updaterVars, sound, crashes, killed>>

-----------------------------------------------------------------------------
(* The agent                                                               *)

\* the state file is sent as it is
Report == status

Send ==
  /\ answer = "none" /\ ~\E m \in wire : m.mine
  /\ wire' = wire \cup {[version |-> agent.version, report |-> Report, mine |-> TRUE]}
  /\ UNCHANGED <<rowVars, agent, answer, updaterVars, sound, crashes, killed>>

\* The version a process started now has: that of the main file; files of two versions
\* may or may not work together.
Started(fs) ==
  {[version |-> VersionOf(fs), healthy |-> h] :
     h \in IF fs = Old THEN {TRUE} ELSE IF fs = New THEN {sound} ELSE BOOLEAN}

\* systemctl restart: what the old process sent stays on its way.
Restarted(fs) ==
  /\ Cardinality(wire) <= MaxLate
  /\ agent' \in Started(fs)
  /\ answer' = "none"
  /\ wire' = {[m EXCEPT !.mine = FALSE] : m \in wire}

\* on_heartbeat starts the updater unless its unit is active; confirm follows when the
\* stream and the gateway run.
Launches == answer = "update" /\ pc = "idle"

Confirms == agent.healthy /\ agent.version = "new" /\ status = "updating"

Answered ==
  /\ answer # "none" /\ answer' = "none"
  /\ pc' = IF Launches THEN "start" ELSE pc
  /\ tried' = (tried \/ Launches)
  /\ WriteState(IF Confirms THEN "ok" ELSE status)
  /\ UNCHANGED <<row, auto, orders, agent, wire, files, prev, todo, backup, sound, crashes, killed>>

-----------------------------------------------------------------------------
(* The updater                                                             *)

Goes(from, to) == pc = from /\ pc' = to

\* main: the state is written first
Start ==
  /\ Goes("start", "manifest")
  /\ WriteState("updating")
  /\ UNCHANGED <<rowVars, agentVars, files, prev, todo, backup, sound, crashes, killed>>

\* An error before anything was swapped: the manifest is for another version, a file is
\* short or does not compile, the script cannot be fetched.
GiveUp ==
  /\ pc \in {"manifest", "full"} /\ pc' = "idle"
  /\ WriteState("failed")
  /\ UNCHANGED <<rowVars, agentVars, files, prev, todo, backup, sound, crashes, killed>>

\* deps_missing
ChooseFull ==
  /\ Goes("manifest", "full")
  /\ UNCHANGED <<rowVars, agentVars, files, prev, status, todo, backup, sound, crashes, killed>>

\* mutant: the backup is taken of the files that are already replaced
BackedUp_Later == New

BackedUp == files

\* download and backup, in the running install's own directory
Stage ==
  /\ Goes("manifest", "swap")
  /\ backup' = BackedUp /\ todo' = Files
  /\ UNCHANGED <<rowVars, agentVars, files, prev, status, sound, crashes, killed>>

Swap(f) ==
  /\ pc = "swap" /\ f \in todo
  /\ files' = [files EXCEPT ![f] = "new"] /\ todo' = todo \ {f}
  /\ UNCHANGED <<rowVars, agentVars, prev, status, pc, backup, sound, crashes, killed>>

SwapRestart ==
  /\ todo = {} /\ Goes("swap", "gate")
  /\ Restarted(files)
  /\ UNCHANGED <<rowVars, files, prev, status, todo, backup, sound, crashes, killed>>

\* gate: the state file says ok ...
GateOpens ==
  /\ pc \in {"gate", "full_gate"} /\ status = "ok"
  /\ pc' = "idle"
  /\ UNCHANGED <<rowVars, agentVars, files, prev, status, todo, backup, sound, crashes, killed>>

\* ... or the last look before GATE_TIMEOUT did not.
GateTimesOut ==
  /\ status # "ok"
  /\ \/ Goes("gate", "restore") /\ todo' = Files
     \/ Goes("full_gate", "full_back") /\ UNCHANGED todo
  /\ UNCHANGED <<rowVars, agentVars, files, prev, status, backup, sound, crashes, killed>>

Restore(f) ==
  /\ pc = "restore" /\ f \in todo
  /\ files' = [files EXCEPT ![f] = backup[f]] /\ todo' = todo \ {f}
  /\ UNCHANGED <<rowVars, agentVars, prev, status, pc, backup, sound, crashes, killed>>

RestoreRestart ==
  /\ todo = {} /\ Goes("restore", "report")
  /\ Restarted(files)
  /\ UNCHANGED <<rowVars, files, prev, status, todo, backup, sound, crashes, killed>>

\* _rolled_back: after the journal was read
ReportBack ==
  /\ Goes("report", "idle")
  /\ WriteState("rolled_back")
  /\ UNCHANGED <<rowVars, agentVars, files, prev, todo, backup, sound, crashes, killed>>

\* _full: enroll --upgrade leaves the old directory as .prev and starts the new agent,
\* whose directory has no state file yet; or it fails and puts the old one back.
Upgrade ==
  /\ Goes("full", "upgraded")
  /\ prev' = VersionOf(files) /\ files' = New /\ status' = "none"
  /\ Restarted(New)
  /\ UNCHANGED <<rowVars, todo, backup, sound, crashes, killed>>

UpgradeWrites ==
  /\ Goes("upgraded", "full_gate")
  /\ WriteState("updating")
  /\ UNCHANGED <<rowVars, agentVars, files, prev, todo, backup, sound, crashes, killed>>

\* health.rollback: the directories change places, the state file with them
RollBack ==
  /\ Goes("full_back", "report")
  /\ files' = [f \in Files |-> prev] /\ prev' = VersionOf(files)
  /\ status' = "updating"
  /\ Restarted(files')
  /\ UNCHANGED <<rowVars, todo, backup, sound, crashes, killed>>

-----------------------------------------------------------------------------
\* A confirmation that comes after the gate's last look is overwritten by the updater.
AtWork ==
  \/ pc \in {"upgraded", "restore", "full_back", "report"}
  \/ pc \notin {"idle", "start"} /\ status = "updating"

\* The machine loses power: the updater is gone for good, the agent comes back.
Crash ==
  /\ crashes < MaxCrashes /\ crashes' = crashes + 1
  /\ killed' = (killed \/ AtWork)
  /\ pc' = "idle" /\ todo' = {}
  /\ Restarted(files)
  /\ UNCHANGED <<rowVars, files, prev, status, backup, sound>>

Updater ==
  \/ Start \/ Stage \/ ChooseFull \/ GiveUp
  \/ \E f \in Files : Swap(f) \/ Restore(f)
  \/ SwapRestart \/ GateOpens \/ GateTimesOut \/ RestoreRestart \/ ReportBack
  \/ Upgrade \/ UpgradeWrites \/ RollBack

Next ==
  \/ Order \/ Send \/ Answered \/ Updater \/ Crash
  \/ \E m \in wire : Lose(m) \/ \E arrives \in BOOLEAN : Heartbeat(m, arrives)

\* The agent keeps sending and some answer gets back; the updater is a process that runs.
Fairness ==
  /\ WF_vars(Send) /\ WF_vars(Answered) /\ WF_vars(Updater)
  /\ SF_vars(\E m \in wire : m.mine /\ Heartbeat(m, TRUE))
  /\ WF_vars(\E m \in wire : ~m.mine /\ (Heartbeat(m, FALSE) \/ Lose(m)))

Spec == Init /\ [][Next]_vars /\ Fairness

-----------------------------------------------------------------------------
(* Properties                                                              *)

\* What the contract sees: a directory half replaced counts as what it was while the
\* updater is at it, and as neither when it is not.
Install ==
  IF files = New THEN "new"
  ELSE IF files = Old THEN "old"
  ELSE IF pc = "swap" THEN "old"
  ELSE IF pc = "restore" THEN "new"
  ELSE "mixed"

Outcome == IF killed THEN "unknown" ELSE IF AtWork THEN "updating" ELSE status

Promise == INSTANCE UpdateContract WITH install <- Install, outcome <- Outcome

\* The updater keeps the contract: while it keeps its power, no order, late confirmation, lost
\* answer, restart or power loss before and after leaves a half-replaced install, and the
\* outcome tells which version is installed (agent_updater.py:153-176).
KeepsContract == Promise!Contract

\* The restored agent reports a confirmation that came after the gate's last look: the
\* row then shows "ok" with the old version, and the setting orders the update again.
LateConfirmation == pc \in {"restore", "full_back", "report"} /\ status = "ok"

\* "Apply only when to == ws.update_target: copy state": in the end the row shows what
\* the updater left, whatever heartbeats were lost or overtaken, and unless it was killed or
\* the new version confirmed too late, an update that was taken back is not ordered again by the
\* setting (agent.py:64-75, 141-150).
RowConverges == []~(LateConfirmation \/ killed) => <>[](row.target => row.state = status)

-----------------------------------------------------------------------------
(* Sentences of the code and its documents that the model refutes (README) *)

\* "a failed update rolls back and is not retried until an admin asks again"
\* (settings_store.py): an order is over only when the updater was started for it or
\* the version is there.
OrderIsTried == row.target /\ row.state \in {"failed", "rolled_back"} => tried
=============================================================================
