------------------------------ MODULE AgentProofs -----------------------------
(***************************************************************************)
(* Proofs about the machines of Agent, for any files, sizes, keys, copies  *)
(* and any number of faults: the updater keeps its contract, each seat     *)
(* shows the viewer what it should, relayed bytes are counted once, and    *)
(* the loop restarts what it must.                                         *)
(***************************************************************************)
EXTENDS Agent, Sequences, FiniteSetTheorems, TLAPS

-----------------------------------------------------------------------------
(* AgentUpdate implements UpdateContract                                   *)

Versions == {"old", "new"}
States == {"none", "requested", "updating", "ok", "failed", "rolled_back"}
Rows == [target : BOOLEAN, state : States, version : Versions]
Beats == [version : Versions, report : States, mine : BOOLEAN]

\* What the agent says of itself is said by the process that runs.
SpeaksForItself ==
  /\ row \in Rows /\ wire \subseteq Beats /\ agent.version \in Versions /\ status \in States
  /\ \A m \in wire : m.mine = TRUE => m.version = agent.version
  /\ answer = "update" => agent.version = "old"

\* Where the updater is, and what is installed then
Installs ==
  /\ pc \in {"idle", "start", "manifest", "full", "swap", "gate", "full_gate", "upgraded", "restore",
             "full_back", "report"}
  /\ pc = "idle" => files \in {Old, New} /\ agent.version = VersionOf(files)
  /\ pc \in {"start", "manifest", "full", "report"} => files = Old /\ agent.version = "old"
  /\ pc \in {"idle", "start"} => status # "updating"
  /\ pc \in {"manifest", "full", "swap"} => status = "updating"
  /\ pc \in {"gate", "full_gate", "upgraded", "full_back"} => files = New /\ agent.version = "new"
  /\ pc \in {"gate", "full_gate"} => status \in {"updating", "ok"}
  /\ pc \in {"full_gate", "upgraded", "full_back"} => prev = "old"
  /\ pc \in {"gate", "swap", "restore"} => backup = Old

FileTypes ==
  /\ files \in [Files -> Versions] /\ backup \in [Files -> Versions] /\ todo \subseteq Files
  /\ prev \in Versions \cup {"none"}
  /\ pc \in {"full_gate", "upgraded", "full_back"} => prev \in Versions

\* In between, file by file
Halfway ==
  /\ pc = "swap" => agent.version = "old" /\ \A f \in Files : files[f] = IF f \in todo THEN "old" ELSE "new"
  /\ pc = "restore" => \A f \in Files : files[f] = IF f \in todo THEN "new" ELSE "old"

UpdateInv ==
  /\ killed \in BOOLEAN /\ SpeaksForItself /\ FileTypes
  /\ killed = FALSE => Installs /\ Halfway

LEMMA TwoVersions == Old # New /\ VersionOf(Old) = "old" /\ VersionOf(New) = "new"
BY MainAssumption DEF Old, New, VersionOf

LEMMA UpdateStart == Init => UpdateInv /\ Promise!Init
<1> SUFFICES ASSUME Init PROVE UpdateInv /\ Promise!Init
  OBVIOUS
<1>1. SpeaksForItself
  <2>1. row \in Rows
    BY DEF Init, Rows, States, Versions
  <2>2. agent.version = "old"
    BY DEF Init
  <2> QED BY <2>1, <2>2 DEF Init, SpeaksForItself, Versions, States
<1>2. Installs /\ Halfway
  BY TwoVersions DEF Init, Installs, Halfway
<1>3. Promise!Init
  BY TwoVersions DEF Init, Promise!Init, Install, Outcome, AtWork
<1>4. FileTypes
  BY DEF Init, FileTypes, Old, Versions
<1> QED BY <1>1, <1>2, <1>3, <1>4 DEF UpdateInv, Init

\* A restart: who speaks now has the version of the installed files.
LEMMA RestartSpeaks ==
  ASSUME SpeaksForItself, NEW fs, VersionOf(fs) \in Versions, Restarted(fs), status' \in States,
         UNCHANGED row
  PROVE  SpeaksForItself' /\ agent'.version = VersionOf(fs)
<1>1. agent'.version = VersionOf(fs) /\ answer' = "none"
  <2>1. PICK h : agent' = [version |-> VersionOf(fs), healthy |-> h]
    BY DEF Restarted, Started
  <2> QED BY <2>1 DEF Restarted
<1>2. \A m \in wire : [m EXCEPT !.mine = FALSE] \in Beats /\ [m EXCEPT !.mine = FALSE].mine = FALSE
  BY Zenon DEF SpeaksForItself, Beats
<1>3. wire' \subseteq Beats /\ \A m \in wire' : m.mine = FALSE
  BY <1>2 DEF Restarted
<1> QED BY <1>1, <1>3 DEF SpeaksForItself

\* Only the agent's words change.
LEMMA TalkKeeps ==
  ASSUME UpdateInv, SpeaksForItself', UNCHANGED <<updaterVars, agent, killed>>
  PROVE  UpdateInv' /\ UNCHANGED <<Install, Outcome>>
<1>1. Installs' = Installs /\ Halfway' = Halfway /\ FileTypes' = FileTypes
  BY DEF updaterVars, Installs, Halfway, FileTypes
<1> QED BY <1>1 DEF UpdateInv, updaterVars, Install, Outcome, AtWork

LEMMA HeartbeatSpeaks ==
  ASSUME SpeaksForItself, NEW m \in wire, NEW arrives \in BOOLEAN, Heartbeat(m, arrives)
  PROVE  SpeaksForItself'
<1>1. row \in Rows /\ m \in Beats
  BY DEF SpeaksForItself
<1>2. m.version \in Versions /\ m.report \in States
  BY <1>1 DEF Beats
<1> DEFINE r == [row EXCEPT !.version = m.version]
<1>3. r \in Rows /\ r.version = m.version
  BY Zenon, <1>1, <1>2 DEF Rows
<1> HIDE DEF r
<1> DEFINE t == Reported(r, m.report)
<1>4. [r EXCEPT !.state = m.report] \in Rows /\ [r EXCEPT !.state = m.report].version = m.version
  BY Zenon, <1>2, <1>3 DEF Rows
<1>5. t \in Rows /\ t.version = m.version
  BY Zenon, <1>3, <1>4 DEF Reported
<1>6. Beaten(m) = IF t.target /\ t.version = "new" /\ t.state # "ok" THEN [t EXCEPT !.state = "ok"]
                  ELSE IF auto /\ t.version = "old" /\ ~(t.target /\ t.state \in Settled) THEN Requested(t)
                  ELSE t
  BY DEF Beaten, r
<1> HIDE DEF t
<1>7. /\ [t EXCEPT !.state = "ok"] \in Rows /\ [t EXCEPT !.state = "ok"].version = m.version
      /\ Requested(t) \in Rows /\ Requested(t).version = m.version
  <2>1. "ok" \in States /\ "requested" \in States /\ TRUE \in BOOLEAN
    BY DEF States
  <2> QED BY Zenon, <1>5, <2>1 DEF Rows, Requested
<1>8. Beaten(m) \in Rows /\ Beaten(m).version = m.version
  BY Zenon, <1>5, <1>6, <1>7
<1>9. answer' = "update" => answer = "update" \/ (m.mine = TRUE /\ Beaten(m).version = "old")
  <2>1. CASE arrives = FALSE
    BY <2>1 DEF Heartbeat
  <2>2. CASE arrives = TRUE
    <3>1. m.mine
      BY <2>2 DEF Heartbeat
    <3>2. m.mine \in BOOLEAN
      BY <1>1 DEF Beats
    <3>3. m.mine = TRUE
      BY Zenon, <3>1, <3>2
    <3>4. answer' = IF Beaten(m).state = "requested" /\ Beaten(m).version = "old" THEN "update" ELSE "plain"
      BY <2>2 DEF Heartbeat
    <3> QED BY <3>3, <3>4
  <2> QED BY <2>1, <2>2
<1>10. row' = Beaten(m) /\ wire' \subseteq wire /\ UNCHANGED <<agent, status>>
  BY DEF Heartbeat, updaterVars
<1> HIDE DEF t, r
<1> QED BY <1>8, <1>9, <1>10 DEF SpeaksForItself

LEMMA TalkStep ==
  ASSUME UpdateInv,
         \/ Order \/ Send
         \/ \E m \in wire : Lose(m) \/ \E arrives \in BOOLEAN : Heartbeat(m, arrives)
         \/ UNCHANGED vars
  PROVE  UpdateInv' /\ UNCHANGED <<Install, Outcome>>
<1>0. SpeaksForItself
  BY DEF UpdateInv
<1>1. UNCHANGED <<updaterVars, agent, killed>>
  BY DEF Order, Send, Lose, Heartbeat, agentVars, vars
<1>2. CASE Order
  <2>1. row' = Requested(row) /\ UNCHANGED <<agent, answer, wire, status>>
    BY <1>2 DEF Order, agentVars, updaterVars
  <2>2. Requested(row) \in Rows
    <3>1. "requested" \in States /\ TRUE \in BOOLEAN /\ row \in Rows
      BY <1>0 DEF States, SpeaksForItself
    <3> QED BY Zenon, <3>1 DEF Rows, Requested
  <2>3. SpeaksForItself'
    BY <1>0, <2>1, <2>2 DEF SpeaksForItself
  <2> QED BY <1>1, <2>3, TalkKeeps
<1>3. CASE Send
  <2> DEFINE m == [version |-> agent.version, report |-> status, mine |-> TRUE]
  <2>1. wire' = wire \cup {m} /\ UNCHANGED <<row, agent, answer, status>>
    BY <1>3 DEF Send, Report, rowVars, updaterVars
  <2>2. m \in Beats /\ m.version = agent.version
    BY <1>0 DEF SpeaksForItself, Beats
  <2> HIDE DEF m
  <2>3. SpeaksForItself'
    BY <1>0, <2>1, <2>2 DEF SpeaksForItself
  <2> QED BY <1>1, <2>3, TalkKeeps
<1>4. ASSUME NEW m \in wire, Lose(m) PROVE SpeaksForItself'
  BY <1>0, <1>4 DEF Lose, rowVars, updaterVars, SpeaksForItself
<1>5. ASSUME NEW m \in wire, NEW arrives \in BOOLEAN, Heartbeat(m, arrives) PROVE SpeaksForItself'
  BY <1>0, <1>5, HeartbeatSpeaks
<1>6. ASSUME UNCHANGED vars PROVE SpeaksForItself'
  BY <1>0, <1>6 DEF vars, rowVars, agentVars, updaterVars, SpeaksForItself
<1> QED BY <1>1, <1>2, <1>3, <1>4, <1>5, <1>6, TalkKeeps

\* What holds also after a power loss
LEMMA TypesStep ==
  ASSUME UpdateInv, Answered \/ Updater \/ Crash
  PROVE  SpeaksForItself' /\ FileTypes' /\ killed' \in BOOLEAN /\ (killed = TRUE => killed' = TRUE)
<1>0. SpeaksForItself /\ FileTypes /\ killed \in BOOLEAN
  BY DEF UpdateInv
<1>1. killed' \in BOOLEAN /\ (killed = TRUE => killed' = TRUE)
  <2>1. CASE killed' = killed
    BY <1>0, <2>1
  <2>2. CASE Crash
    BY <1>0, <2>2 DEF Crash
  <2> QED BY <2>1, <2>2 DEF Answered, Updater, Start, Stage, ChooseFull, GiveUp, Swap, Restore, SwapRestart,
             GateOpens, GateTimesOut, RestoreRestart, ReportBack, Upgrade, UpgradeWrites, RollBack
<1>2. VersionOf(files) \in Versions /\ VersionOf(New) \in Versions
  BY <1>0, MainAssumption, TwoVersions DEF VersionOf, FileTypes, Versions
<1>3. CASE Answered
  <2>1. /\ UNCHANGED <<row, agent, wire, files, prev, todo, backup>> /\ answer' = "none"
        /\ status' \in {"ok", status} /\ pc' \in {"start", pc}
    BY <1>3 DEF Answered, WriteState
  <2> QED BY <1>0, <1>1, <2>1 DEF SpeaksForItself, FileTypes, States
<1>4. CASE Crash
  <2>1. Restarted(files) /\ pc' = "idle" /\ todo' = {} /\ UNCHANGED <<row, files, prev, status, backup>>
    BY <1>4 DEF Crash, rowVars
  <2>2. SpeaksForItself'
    BY <1>0, <1>2, <2>1, RestartSpeaks DEF SpeaksForItself
  <2> QED BY <1>0, <1>1, <2>1, <2>2 DEF FileTypes
<1>5. CASE Start \/ Stage \/ ChooseFull \/ GiveUp \/ GateOpens \/ GateTimesOut \/ ReportBack \/ UpgradeWrites
           \/ \E f \in Files : Swap(f) \/ Restore(f)
  <2>1. UNCHANGED <<row, agent, answer, wire>> /\ status' \in {status, "updating", "failed", "rolled_back"}
    BY <1>5 DEF Start, Stage, ChooseFull, GiveUp, GateOpens, GateTimesOut, ReportBack, UpgradeWrites, Swap,
                Restore, WriteState, rowVars, agentVars
  <2>2. SpeaksForItself'
    BY <1>0, <2>1 DEF SpeaksForItself, States
  <2>3. ASSUME NEW f \in Files, Swap(f) \/ Restore(f) PROVE FileTypes'
    <3>1. files' = [files EXCEPT ![f] = "new"] \/ files' = [files EXCEPT ![f] = backup[f]]
      BY <2>3 DEF Swap, Restore
    <3>2. files' \in [Files -> Versions]
      BY <1>0, <3>1 DEF FileTypes, Versions
    <3> QED BY <1>0, <2>3, <3>2 DEF FileTypes, Swap, Restore
  <2>4. ASSUME Start \/ Stage \/ ChooseFull \/ GiveUp \/ GateOpens \/ GateTimesOut \/ ReportBack \/ UpgradeWrites
        PROVE  FileTypes'
    <3>1. CASE Start \/ ChooseFull \/ GiveUp \/ GateOpens \/ ReportBack
      BY <1>0, <3>1 DEF Start, ChooseFull, GiveUp, GateOpens, ReportBack, Goes, FileTypes
    <3>2. CASE Stage
      BY <1>0, <3>2 DEF Stage, BackedUp, Goes, FileTypes
    <3>3. CASE GateTimesOut
      <4>1. UNCHANGED <<files, backup, prev>> /\ todo' \in {Files, todo} /\ todo' \subseteq Files
        BY <1>0, <3>3 DEF GateTimesOut, FileTypes
      <4>2. pc' = "restore" \/ (pc = "full_gate" /\ pc' = "full_back")
        BY <3>3 DEF GateTimesOut, Goes
      <4> QED BY <1>0, <4>1, <4>2 DEF FileTypes
    <3>4. CASE UpgradeWrites
      BY <1>0, <3>4 DEF UpgradeWrites, Goes, FileTypes
    <3> QED BY <2>4, <3>1, <3>2, <3>3, <3>4
  <2> QED BY <1>1, <1>5, <2>2, <2>3, <2>4
<1>6. CASE SwapRestart \/ RestoreRestart
  <2>1. Restarted(files) /\ UNCHANGED <<row, files, prev, status, todo, backup>> /\ pc' \in {"gate", "report"}
    BY <1>6 DEF SwapRestart, RestoreRestart, Goes, rowVars
  <2>2. SpeaksForItself'
    BY <1>0, <1>2, <2>1, RestartSpeaks DEF SpeaksForItself
  <2> QED BY <1>0, <1>1, <2>1, <2>2 DEF FileTypes
<1>7. CASE Upgrade
  <2>1. /\ Restarted(New) /\ UNCHANGED <<row, todo, backup>> /\ files' = New /\ prev' = VersionOf(files)
        /\ status' = "none"
    BY <1>7 DEF Upgrade, rowVars
  <2>2. SpeaksForItself'
    BY <1>0, <1>2, <2>1, RestartSpeaks DEF States
  <2>3. New \in [Files -> Versions]
    BY DEF New, Versions
  <2> QED BY <1>0, <1>1, <1>2, <2>1, <2>2, <2>3 DEF FileTypes
<1>8. CASE RollBack
  <2>1. /\ Restarted(files') /\ UNCHANGED <<row, todo, backup>> /\ files' = [f \in Files |-> prev]
        /\ prev' = VersionOf(files) /\ status' = "updating" /\ pc = "full_back"
    BY <1>8 DEF RollBack, Goes, rowVars
  <2>2. files' \in [Files -> Versions]
    BY <1>0, <2>1 DEF FileTypes
  <2>3. VersionOf(files') \in Versions
    BY <2>2, MainAssumption DEF VersionOf
  <2>4. SpeaksForItself'
    BY <1>0, <2>1, <2>3, RestartSpeaks DEF States
  <2> QED BY <1>0, <1>1, <1>2, <2>1, <2>2, <2>4 DEF FileTypes
<1> QED BY <1>3, <1>4, <1>5, <1>6, <1>7, <1>8 DEF Updater

\* Nothing is promised after a power loss.
LEMMA KilledStep ==
  ASSUME killed = TRUE, killed' = TRUE
  PROVE  Promise!Next
BY DEF Promise!Next, Promise!Unknown, Outcome, Install

\* While it keeps its power: where a step leads, and that the contract allows it
Kept == Promise!Next \/ UNCHANGED <<Install, Outcome>>

LEMMA AnsweredKeeps ==
  ASSUME UpdateInv, killed = FALSE, Answered
  PROVE  Installs' /\ Halfway' /\ Kept /\ killed' = FALSE
<1>0. SpeaksForItself /\ FileTypes /\ Installs /\ Halfway
  BY DEF UpdateInv
<1>1. /\ UNCHANGED <<agent, files, prev, todo, backup, killed>>
      /\ pc' = IF Launches THEN "start" ELSE pc
      /\ status' = IF Confirms THEN "ok" ELSE status
  BY DEF Answered, WriteState
<1>2. Launches => files = Old /\ agent.version = "old" /\ pc = "idle"
  BY <1>0, TwoVersions DEF Launches, SpeaksForItself, Installs
<1>3. Confirms => agent.version = "new" /\ status = "updating"
  BY DEF Confirms
<1>4. Installs'
  BY <1>0, <1>1, <1>2, <1>3 DEF Installs, Halfway
<1>5. Halfway'
  BY <1>0, <1>1, <1>2 DEF Halfway
<1>6. Install' = Install
  BY <1>1, <1>2 DEF Install
<1>7. Outcome' = Outcome \/ (Outcome = "updating" /\ Outcome' = "ok" /\ Install = "new")
  BY <1>0, <1>1, <1>2, <1>3 DEF Installs, Halfway, Outcome, AtWork, Install
<1> QED BY <1>1, <1>4, <1>5, <1>6, <1>7 DEF Kept, Promise!Next, Promise!Accept

LEMMA CrashKeeps ==
  ASSUME UpdateInv, killed = FALSE, Crash
  PROVE  Kept /\ (killed' = FALSE => Installs' /\ Halfway')
<1>0. SpeaksForItself /\ FileTypes /\ Installs /\ Halfway
  BY DEF UpdateInv
<1>1. /\ UNCHANGED <<files, prev, status, backup>> /\ pc' = "idle"
      /\ Restarted(files) /\ killed' = (killed \/ AtWork)
  BY DEF Crash
<1>2. CASE AtWork
  <2>1. killed' = TRUE /\ Outcome = "updating"
    BY <1>1, <1>2 DEF Outcome
  <2> QED BY <2>1 DEF Kept, Promise!Next, Promise!Kill, Outcome, Install
<1>3. CASE ~AtWork
  <2>1. killed' = FALSE
    BY <1>1, <1>3
  <2>2. files \in {Old, New} /\ status # "updating"
    BY <1>0, <1>3 DEF Installs, AtWork
  <2>3. agent'.version = VersionOf(files)
    <3>1. VersionOf(files) \in Versions /\ status' \in States /\ UNCHANGED row
      BY <1>0, <1>1, <2>2, TwoVersions DEF SpeaksForItself, Versions, Crash, rowVars
    <3> QED BY <1>0, <1>1, <3>1, RestartSpeaks
  <2>4. Installs' /\ Halfway'
    BY <1>1, <2>2, <2>3, TwoVersions DEF Installs, Halfway, VersionOf
  <2>5. Install' = Install
    BY <1>1, <2>2 DEF Install
  <2>6. Outcome' = Outcome
    BY <1>1, <1>3, <2>1, <2>2 DEF Outcome, AtWork
  <2> QED BY <2>4, <2>5, <2>6 DEF Kept
<1> QED BY <1>2, <1>3

\* The steps that leave the files alone
LEMMA QuietKeeps ==
  ASSUME UpdateInv, killed = FALSE,
         Start \/ Stage \/ ChooseFull \/ GiveUp \/ GateOpens \/ GateTimesOut \/ ReportBack \/ UpgradeWrites
  PROVE  Installs' /\ Halfway' /\ Kept /\ killed' = FALSE
<1>0. SpeaksForItself /\ FileTypes /\ Installs /\ Halfway
  BY DEF UpdateInv
<1>1. UNCHANGED <<agent, files, prev, killed>>
  BY DEF Start, Stage, ChooseFull, GiveUp, GateOpens, GateTimesOut, ReportBack, UpgradeWrites, agentVars
<1> USE <1>0, <1>1 DEF Kept, Install, Outcome, AtWork, Goes, WriteState, Promise!Next
<1>2. CASE Start
  BY <1>2, TwoVersions DEF Start, Installs, Halfway, Promise!Begin
<1>3. CASE Stage
  BY <1>3, TwoVersions DEF Stage, BackedUp, Installs, Halfway, Old
<1>4. CASE ChooseFull
  BY <1>4, TwoVersions DEF ChooseFull, Installs, Halfway
<1>5. CASE GiveUp
  BY <1>5, TwoVersions DEF GiveUp, Installs, Halfway, Promise!Fail, VersionOf
<1>6. CASE GateOpens
  BY <1>6, TwoVersions DEF GateOpens, Installs, Halfway, VersionOf
<1>7. CASE GateTimesOut
  BY <1>7, TwoVersions DEF GateTimesOut, Installs, Halfway, New
<1>8. CASE ReportBack
  BY <1>8, TwoVersions DEF ReportBack, Installs, Halfway, Promise!Report, VersionOf
<1>9. CASE UpgradeWrites
  BY <1>9, TwoVersions DEF UpgradeWrites, Installs, Halfway
<1> QED BY <1>2, <1>3, <1>4, <1>5, <1>6, <1>7, <1>8, <1>9

\* A directory between two versions is one of them to the contract.
LEMMA InstallOf ==
  ASSUME FileTypes, Halfway
  PROVE  /\ pc = "swap" => Install = IF todo = {} THEN "new" ELSE "old"
         /\ pc = "restore" => Install = IF todo = {} THEN "old" ELSE "new"
<1>1. /\ pc = "swap" => (files = New <=> todo = {})
      /\ pc = "restore" => (files = Old <=> todo = {})
  BY DEF FileTypes, Halfway, New, Old
<1>2. pc = "restore" /\ files = New => todo # {}
  BY MainAssumption DEF Halfway, New
<1> QED BY <1>1, <1>2, TwoVersions DEF Install

LEMMA SwapKeeps ==
  ASSUME UpdateInv, killed = FALSE, NEW f \in Files, Swap(f)
  PROVE  Installs' /\ Halfway' /\ Kept /\ killed' = FALSE
<1>0. FileTypes /\ Installs /\ Halfway
  BY DEF UpdateInv
<1>1. /\ pc = "swap" /\ f \in todo /\ files' = [files EXCEPT ![f] = "new"] /\ todo' = todo \ {f}
      /\ UNCHANGED <<agent, prev, status, pc, backup, killed>>
  BY DEF Swap, agentVars
<1>2. Installs'
  BY <1>0, <1>1 DEF Installs
<1>3. Halfway'
  BY <1>0, <1>1 DEF Halfway, FileTypes
<1>5. Install = "old" /\ Install' \in {"old", "new"}
  <2>1. Install' \in {"old", "new"}
    BY <1>1 DEF Install
  <2> QED BY <1>0, <1>1, <2>1, InstallOf
<1>6. Outcome = "updating" /\ Outcome' = "updating"
  BY <1>0, <1>1 DEF Installs, Outcome, AtWork
<1> QED BY <1>1, <1>2, <1>3, <1>5, <1>6 DEF Kept, Promise!Next, Promise!Commit

LEMMA RestoreKeeps ==
  ASSUME UpdateInv, killed = FALSE, NEW f \in Files, Restore(f)
  PROVE  Installs' /\ Halfway' /\ Kept /\ killed' = FALSE
<1>0. FileTypes /\ Installs /\ Halfway
  BY DEF UpdateInv
<1>1. /\ pc = "restore" /\ f \in todo /\ files' = [files EXCEPT ![f] = backup[f]] /\ todo' = todo \ {f}
      /\ UNCHANGED <<agent, prev, status, pc, backup, killed>> /\ backup = Old
  BY <1>0 DEF Restore, agentVars, Installs
<1>2. Installs'
  BY <1>0, <1>1 DEF Installs
<1>3. Halfway'
  BY <1>0, <1>1 DEF Halfway, FileTypes, Old
<1>5. Install = "new" /\ Install' \in {"old", "new"}
  <2>1. Install' \in {"old", "new"}
    BY <1>1 DEF Install
  <2> QED BY <1>0, <1>1, <2>1, InstallOf
<1>6. Outcome = "updating" /\ Outcome' = "updating"
  BY <1>1 DEF Outcome, AtWork
<1> QED BY <1>1, <1>2, <1>3, <1>5, <1>6 DEF Kept, Promise!Next, Promise!TakeBack

LEMMA RestartsKeep ==
  ASSUME UpdateInv, killed = FALSE, SwapRestart \/ RestoreRestart \/ Upgrade \/ RollBack
  PROVE  Installs' /\ Halfway' /\ Kept /\ killed' = FALSE
<1>0. SpeaksForItself /\ FileTypes /\ Installs /\ Halfway
  BY DEF UpdateInv
<1>1. UNCHANGED <<row, killed>>
  BY DEF SwapRestart, RestoreRestart, Upgrade, RollBack, rowVars
<1>2. ASSUME NEW fs \in {Old, New}, Restarted(fs), status' \in States
      PROVE  agent'.version = VersionOf(fs)
  BY <1>0, <1>1, <1>2, TwoVersions, RestartSpeaks DEF Versions
<1>3. CASE SwapRestart
  <2>1. /\ pc = "swap" /\ todo = {} /\ pc' = "gate" /\ Restarted(files)
        /\ UNCHANGED <<files, prev, status, todo, backup>>
    BY <1>3 DEF SwapRestart, Goes
  <2>2. files = New
    BY <1>0, <2>1 DEF FileTypes, Halfway, New
  <2>3. agent'.version = "new"
    BY <1>0, <1>2, <2>1, <2>2, TwoVersions DEF SpeaksForItself
  <2>4. Installs' /\ Halfway'
    BY <1>0, <2>1, <2>2, <2>3 DEF Installs, Halfway
  <2>5. UNCHANGED <<Install, Outcome>>
    BY <1>0, <1>1, <2>1, <2>2 DEF Installs, Install, Outcome, AtWork
  <2> QED BY <1>1, <2>4, <2>5 DEF Kept
<1>4. CASE RestoreRestart
  <2>1. /\ pc = "restore" /\ todo = {} /\ pc' = "report" /\ Restarted(files)
        /\ UNCHANGED <<files, prev, status, todo, backup>>
    BY <1>4 DEF RestoreRestart, Goes
  <2>2. files = Old
    BY <1>0, <2>1 DEF FileTypes, Halfway, Old
  <2>3. agent'.version = "old"
    BY <1>0, <1>2, <2>1, <2>2, TwoVersions DEF SpeaksForItself
  <2>4. Installs' /\ Halfway'
    BY <1>0, <2>1, <2>2, <2>3 DEF Installs, Halfway
  <2>5. UNCHANGED <<Install, Outcome>>
    BY <1>1, <2>1, <2>2, TwoVersions DEF Install, Outcome, AtWork
  <2> QED BY <1>1, <2>4, <2>5 DEF Kept
<1>5. CASE Upgrade
  <2>1. /\ pc = "full" /\ pc' = "upgraded" /\ Restarted(New) /\ files' = New
        /\ prev' = VersionOf(files) /\ status' = "none" /\ UNCHANGED <<todo, backup>>
    BY <1>5 DEF Upgrade, Goes
  <2>2. files = Old /\ prev' = "old"
    BY <1>0, <2>1, TwoVersions DEF Installs
  <2>3. agent'.version = "new"
    BY <1>2, <2>1, TwoVersions DEF States
  <2>4. Installs' /\ Halfway'
    BY <2>1, <2>2, <2>3 DEF Installs, Halfway
  <2>5. Outcome = "updating" /\ Outcome' = "updating" /\ Install = "old" /\ Install' = "new"
    BY <1>0, <1>1, <2>1, <2>2, TwoVersions DEF Installs, Outcome, AtWork, Install
  <2> QED BY <1>1, <2>4, <2>5 DEF Kept, Promise!Next, Promise!Commit
<1>6. CASE RollBack
  <2>1. /\ pc = "full_back" /\ pc' = "report" /\ Restarted(files') /\ files' = [f \in Files |-> prev]
        /\ prev' = VersionOf(files) /\ status' = "updating" /\ UNCHANGED <<todo, backup>>
    BY <1>6 DEF RollBack, Goes
  <2>2. files = New /\ files' = Old
    BY <1>0, <2>1 DEF Installs, Old
  <2>3. agent'.version = "old"
    BY <1>2, <2>1, <2>2, TwoVersions DEF States
  <2>4. Installs' /\ Halfway'
    BY <2>1, <2>2, <2>3 DEF Installs, Halfway
  <2>5. Outcome = "updating" /\ Outcome' = "updating" /\ Install = "new" /\ Install' = "old"
    BY <1>1, <2>1, <2>2, TwoVersions DEF Outcome, AtWork, Install
  <2> QED BY <1>1, <2>4, <2>5 DEF Kept, Promise!Next, Promise!TakeBack
<1> QED BY <1>3, <1>4, <1>5, <1>6

LEMMA UpdateStep ==
  UpdateInv /\ [Next]_vars => UpdateInv' /\ [Promise!Next]_(Promise!contractVars)
<1> SUFFICES ASSUME UpdateInv, [Next]_vars
             PROVE  UpdateInv' /\ Kept
  BY DEF Kept, Promise!contractVars
<1>1. CASE Answered \/ Updater \/ Crash
  <2>1. SpeaksForItself' /\ FileTypes' /\ killed' \in BOOLEAN /\ (killed = TRUE => killed' = TRUE)
    BY <1>1, TypesStep
  <2>2. CASE killed = TRUE
    BY <2>1, <2>2, KilledStep DEF UpdateInv, Kept
  <2>3. CASE killed = FALSE
    <3>1. Kept /\ (killed' = FALSE => Installs' /\ Halfway')
      BY <1>1, <2>3, AnsweredKeeps, CrashKeeps, QuietKeeps, SwapKeeps, RestoreKeeps, RestartsKeep DEF Updater
    <3> QED BY <2>1, <3>1 DEF UpdateInv
  <2> QED BY <2>2, <2>3 DEF UpdateInv
<1>2. CASE \/ Order \/ Send
           \/ \E m \in wire : Lose(m) \/ \E arrives \in BOOLEAN : Heartbeat(m, arrives)
           \/ UNCHANGED vars
  BY <1>2, TalkStep DEF Kept
<1> QED BY <1>1, <1>2 DEF Next

\* agent_updater.py:153-176: for any set of files and any number of orders, crashes, lost and
\* late heartbeats, the file by file replacement, the replacement of the directory and both ways
\* back are steps of the contract: the version changes at once, a version that did not prove
\* healthy is taken back, and the outcome tells which of the two is installed.
THEOREM UpdatesKeepTheContract == Spec => KeepsContract
<1>1. Init => UpdateInv /\ Promise!Init
  BY UpdateStart
<1>2. UpdateInv /\ [Next]_vars => UpdateInv' /\ [Promise!Next]_(Promise!contractVars)
  BY UpdateStep
<1> QED BY <1>1, <1>2, PTL DEF Spec, KeepsContract, Promise!Contract

-----------------------------------------------------------------------------
(* KeyOrder.  What has to be known of a key is not its state in Mutter but *)
(* a mark of it after every event on the wire: "up", it is certainly not   *)
(* down then, "early", its release is waiting for its press, or "any".     *)
(* The wire can be marked so that no key ends down which the viewer does   *)
(* not hold, and a press that was not swapped meets a key that is not      *)
(* down.                                                                   *)

Marks == {"any", "up", "early"}
Events == [key : Keys, down : BOOLEAN, swapped : BOOLEAN]

Fits(mark, k, d, e) == (mark \in {"up", "early"} => k \notin d) /\ (mark = "early" => k \in e)

\* From one mark to the next, over a press or a release
Follows(press, before, after) ==
  IF press = TRUE THEN after = "any" \/ (before = "early" /\ after = "up")
  ELSE after \in {"any", "up"} \/ before \in {"up", "early"}

\* The marks a of the wire w, when h are held, and d and e are down and early
Marked(w, a, h, d, e) ==
  /\ a \in [0 .. Len(w) -> [Keys -> Marks]]
  /\ \A k \in Keys : Fits(a[0][k], k, d, e)
  /\ \A k \in Keys : k \notin h => a[Len(w)][k] # "any"
  /\ \A i \in 1 .. Len(w) :
       /\ \A k \in Keys : k # w[i].key => a[i][k] = a[i - 1][k]
       /\ Follows(w[i].down, a[i - 1][w[i].key], a[i][w[i].key])
       /\ w[i].down = TRUE /\ w[i].swapped = FALSE => a[i - 1][w[i].key] # "any"
  /\ \A i \in 0 .. Len(w), k \in Keys : a[i][k] = "early" =>
       /\ i < Len(w) /\ w[i + 1].key = k /\ w[i + 1].swapped = TRUE
       /\ i > 0 => w[i].key = k /\ w[i].swapped = TRUE

LEMMA EventFields ==
  ASSUME NEW x \in Events
  PROVE  x.key \in Keys /\ x.down \in BOOLEAN /\ x.swapped \in BOOLEAN
BY DEF Events

\* An event is sent.
LEMMA SentMarked ==
  ASSUME NEW w \in Seq(Events), NEW a, NEW h, NEW g, NEW d, NEW e, Marked(w, a, h, d, e),
         NEW x \in Events, x.swapped = FALSE,
         x.down = TRUE => x.key \notin h /\ g = h \cup {x.key},
         x.down = FALSE => g = h \ {x.key}
  PROVE  \E b : Marked(Append(w, x), b, g, d, e)
<1> DEFINE n == Len(w)
           v == Append(w, x)
           mark == IF x.down = TRUE THEN "any" ELSE "up"
           last == [a[n] EXCEPT ![x.key] = mark]
           b == [i \in 0 .. n + 1 |-> IF i = n + 1 THEN last ELSE a[i]]
<1>1. n \in Nat /\ Len(v) = n + 1 /\ v[n + 1] = x /\ \A i \in 1 .. n : v[i] = w[i]
  OBVIOUS
<1>2. a[n] \in [Keys -> Marks] /\ \A k \in Keys : a[n][k] # "early"
  BY <1>1 DEF Marked
<1>3. mark \in Marks
  BY DEF Marks
<1>4. x.key \in Keys /\ x.down \in BOOLEAN
  BY EventFields
<1>5. /\ last \in [Keys -> Marks] /\ last[x.key] = mark
      /\ \A k \in Keys : k # x.key => last[k] = a[n][k]
  BY <1>2, <1>3, <1>4
<1>6. \A i \in 1 .. n : w[i].key \in Keys
  BY <1>1, EventFields
<1> HIDE DEF last, mark, v
<1>7. /\ b[n + 1] = last /\ \A i \in 0 .. n : b[i] = a[i]
  BY <1>1
<1>8. b \in [0 .. Len(v) -> [Keys -> Marks]]
  BY <1>1, <1>5 DEF Marked
<1> HIDE DEF b
<1>9. \A k \in Keys : Fits(b[0][k], k, d, e)
  BY <1>1, <1>7 DEF Marked
<1>10. \A k \in Keys : k \notin g => b[Len(v)][k] # "any"
  BY <1>1, <1>2, <1>4, <1>5, <1>7 DEF Marked, mark
<1>11. ASSUME NEW i \in 1 .. Len(v)
       PROVE  /\ \A k \in Keys : k # v[i].key => b[i][k] = b[i - 1][k]
              /\ Follows(v[i].down, b[i - 1][v[i].key], b[i][v[i].key])
              /\ v[i].down = TRUE /\ v[i].swapped = FALSE => b[i - 1][v[i].key] # "any"
  <2>1. CASE i = n + 1
    <3>1. v[i] = x /\ b[i] = last /\ b[i - 1] = a[n]
      BY <1>1, <1>7, <2>1
    <3>2. x.down = TRUE => a[n][x.key] # "any"
      BY <1>1, <1>4 DEF Marked
    <3>3. Follows(x.down, a[n][x.key], last[x.key])
      BY <1>4, <1>5 DEF Follows, mark
    <3> QED BY <1>5, <3>1, <3>2, <3>3
  <2>2. CASE i \in 1 .. n
    <3>1. v[i] = w[i] /\ b[i] = a[i] /\ b[i - 1] = a[i - 1]
      BY <1>1, <1>7, <2>2
    <3> QED BY <2>2, <3>1 DEF Marked
  <2>3. i = n + 1 \/ i \in 1 .. n
    BY <1>1
  <2> QED BY <2>1, <2>2, <2>3
<1>12. ASSUME NEW i \in 0 .. Len(v), NEW k \in Keys, b[i][k] = "early"
       PROVE  /\ i < Len(v) /\ v[i + 1].key = k /\ v[i + 1].swapped = TRUE
              /\ i > 0 => v[i].key = k /\ v[i].swapped = TRUE
  <2>1. i # n + 1
    BY <1>2, <1>5, <1>7, <1>12 DEF mark
  <2>2. i \in 0 .. n /\ b[i] = a[i]
    BY <1>1, <1>7, <2>1
  <2>3. i < n /\ w[i + 1].key = k /\ w[i + 1].swapped = TRUE /\ (i > 0 => w[i].key = k /\ w[i].swapped = TRUE)
    BY <1>12, <2>2 DEF Marked
  <2> QED BY <1>1, <2>2, <2>3
<1>13. Marked(v, b, g, d, e)
  BY <1>8, <1>9, <1>10, <1>11, <1>12 DEF Marked
<1> QED BY <1>13 DEF v

\* The oldest event arrives, and the next mark fits what it makes of the keys.
LEMMA TakenMarked ==
  ASSUME NEW w \in Seq(Events), NEW a, NEW h, NEW d, NEW e, Marked(w, a, h, d, e), w # <<>>,
         NEW c, NEW f, \A k \in Keys : Fits(a[1][k], k, c, f)
  PROVE  \E b : Marked(Tail(w), b, h, c, f)
<1> DEFINE n == Len(w) - 1
           v == Tail(w)
           b == [i \in 0 .. n |-> a[i + 1]]
<1>1. n \in Nat /\ Len(w) = n + 1 /\ Len(v) = n /\ \A i \in 1 .. n : v[i] = w[i + 1]
  OBVIOUS
<1> HIDE DEF n, v
<1>2. \A i \in 0 .. n : b[i] = a[i + 1] /\ a[i + 1] \in [Keys -> Marks]
  BY <1>1 DEF Marked
<1>3. b \in [0 .. Len(v) -> [Keys -> Marks]]
  BY <1>1, <1>2
<1> HIDE DEF b
<1>4. (\A k \in Keys : Fits(b[0][k], k, c, f)) /\ \A k \in Keys : k \notin h => b[Len(v)][k] # "any"
  BY <1>1, <1>2 DEF Marked
<1>5. ASSUME NEW i \in 1 .. Len(v)
      PROVE  /\ \A k \in Keys : k # v[i].key => b[i][k] = b[i - 1][k]
             /\ Follows(v[i].down, b[i - 1][v[i].key], b[i][v[i].key])
             /\ v[i].down = TRUE /\ v[i].swapped = FALSE => b[i - 1][v[i].key] # "any"
  <2>1. v[i] = w[i + 1] /\ b[i] = a[i + 1] /\ b[i - 1] = a[i] /\ i + 1 \in 1 .. Len(w) /\ (i + 1) - 1 = i
    BY <1>1, <1>2
  <2> QED BY <2>1 DEF Marked
<1>6. ASSUME NEW i \in 0 .. Len(v), NEW k \in Keys, b[i][k] = "early"
      PROVE  /\ i < Len(v) /\ v[i + 1].key = k /\ v[i + 1].swapped = TRUE
             /\ i > 0 => v[i].key = k /\ v[i].swapped = TRUE
  <2>1. a[i + 1][k] = "early" /\ i + 1 \in 0 .. Len(w) /\ i + 1 > 0
    BY <1>1, <1>2, <1>6
  <2>2. /\ i + 1 < Len(w) /\ w[(i + 1) + 1].key = k /\ w[(i + 1) + 1].swapped = TRUE
        /\ w[i + 1].key = k /\ w[i + 1].swapped = TRUE
    BY <2>1 DEF Marked
  <2>3. i + 1 \in 1 .. n /\ v[i + 1] = w[(i + 1) + 1]
    BY <1>1, <2>2
  <2>4. i > 0 => v[i] = w[i + 1]
    BY <1>1
  <2> QED BY <1>1, <2>2, <2>3, <2>4
<1>7. Marked(v, b, h, c, f)
  BY <1>3, <1>4, <1>5, <1>6 DEF Marked
<1> QED BY <1>7 DEF v

\* Two events change places: only the mark between them does, and neither of them was next to an
\* early mark.
LEMMA SwappedMarked ==
  ASSUME NEW w \in Seq(Events), NEW a, NEW h, NEW d, NEW e, Marked(w, a, h, d, e),
         NEW i \in 1 .. Len(w) - 1, NEW x \in Events, NEW y \in Events,
         w[i].swapped = FALSE, w[i + 1].swapped = FALSE, x.swapped = TRUE, y.swapped = TRUE,
         x.key = w[i].key, x.down = w[i].down, y.key = w[i + 1].key, y.down = w[i + 1].down
  PROVE  \E b : Marked([w EXCEPT ![i] = y, ![i + 1] = x], b, h, d, e)
<1> DEFINE n == Len(w)
           v == [w EXCEPT ![i] = y, ![i + 1] = x]
           mark == IF x.key # y.key THEN a[i + 1][y.key]
                   ELSE IF x.down = TRUE /\ y.down = FALSE THEN "early"
                   ELSE IF x.down = FALSE /\ y.down = TRUE THEN "any"
                   ELSE a[i][y.key]
           mid == [a[i - 1] EXCEPT ![y.key] = mark]
           b == [a EXCEPT ![i] = mid]
<1>1. /\ n \in Nat /\ i \in 1 .. n /\ i + 1 \in 1 .. n /\ i - 1 \in 0 .. n /\ i \in 0 .. n
      /\ i + 1 \in 0 .. n /\ (i + 1) - 1 = i /\ i < n
  OBVIOUS
<1>2. Len(v) = n /\ v[i] = y /\ v[i + 1] = x /\ \A j \in 1 .. n : j # i /\ j # i + 1 => v[j] = w[j]
  BY <1>1
<1>3. \A j \in 0 .. n : a[j] \in [Keys -> Marks]
  BY DEF Marked
<1>4. /\ x.key \in Keys /\ x.down \in BOOLEAN /\ y.key \in Keys /\ y.down \in BOOLEAN
  BY EventFields
<1>5. \A k \in Keys : a[i - 1][k] # "early" /\ a[i][k] # "early" /\ a[i + 1][k] # "early"
  <2>1. \A k \in Keys : a[i - 1][k] # "early"
    BY <1>1 DEF Marked
  <2>2. \A k \in Keys : a[i][k] # "early" /\ a[i + 1][k] # "early"
    BY <1>1 DEF Marked
  <2> QED BY <2>1, <2>2
<1>6. mark \in Marks
  BY <1>1, <1>3, <1>4 DEF Marks
<1>7. /\ mid \in [Keys -> Marks] /\ mid[y.key] = mark
      /\ \A k \in Keys : k # y.key => mid[k] = a[i - 1][k]
  BY <1>1, <1>3, <1>4, <1>6
<1> HIDE DEF mid, v
<1>8. /\ b \in [0 .. n -> [Keys -> Marks]] /\ b[i] = mid
      /\ \A j \in 0 .. n : j # i => b[j] = a[j]
  BY <1>1, <1>7 DEF Marked
<1> HIDE DEF b
<1>9. /\ \A k \in Keys : k # x.key => a[i][k] = a[i - 1][k]
      /\ Follows(x.down, a[i - 1][x.key], a[i][x.key])
      /\ x.down = TRUE => a[i - 1][x.key] # "any"
  BY <1>1 DEF Marked
<1>10. /\ \A k \in Keys : k # y.key => a[i + 1][k] = a[i][k]
       /\ Follows(y.down, a[i][y.key], a[i + 1][y.key])
       /\ y.down = TRUE => a[i][y.key] # "any"
  BY <1>1 DEF Marked
<1>11. (\A k \in Keys : Fits(b[0][k], k, d, e)) /\ \A k \in Keys : k \notin h => b[n][k] # "any"
  BY <1>1, <1>8 DEF Marked
<1>12. \A k \in Keys : k # y.key => b[i][k] = b[i - 1][k]
  BY <1>1, <1>7, <1>8
<1>13. \A k \in Keys : k # x.key => b[i + 1][k] = b[i][k]
  BY <1>1, <1>4, <1>7, <1>8, <1>9, <1>10
<1>14. Follows(y.down, b[i - 1][y.key], b[i][y.key]) /\ Follows(x.down, b[i][x.key], b[i + 1][x.key])
  <2>1. CASE x.key # y.key
    <3>1. b[i - 1][y.key] = a[i][y.key] /\ b[i][y.key] = a[i + 1][y.key]
      BY <1>1, <1>4, <1>7, <1>8, <1>9, <2>1
    <3>2. b[i][x.key] = a[i - 1][x.key] /\ b[i + 1][x.key] = a[i][x.key]
      BY <1>1, <1>4, <1>7, <1>8, <1>10, <2>1
    <3> QED BY <1>9, <1>10, <3>1, <3>2
  <2>2. CASE x.key = y.key
    <3>1. b[i - 1][y.key] = a[i - 1][y.key] /\ b[i][y.key] = mark /\ b[i + 1][y.key] = a[i + 1][y.key]
      BY <1>1, <1>4, <1>7, <1>8
    <3>2. a[i - 1][y.key] \in {"any", "up"} /\ a[i][y.key] \in {"any", "up"} /\ a[i + 1][y.key] \in {"any", "up"}
      BY <1>1, <1>3, <1>4, <1>5 DEF Marks
    <3>3. mark = IF x.down = TRUE /\ y.down = FALSE THEN "early"
                 ELSE IF x.down = FALSE /\ y.down = TRUE THEN "any"
                 ELSE a[i][y.key]
      BY <2>2
    <3> HIDE DEF mark
    <3> QED BY <1>4, <1>9, <1>10, <2>2, <3>1, <3>2, <3>3 DEF Follows
  <2> QED BY <2>1, <2>2
<1>15. ASSUME NEW j \in 1 .. n
       PROVE  /\ \A k \in Keys : k # v[j].key => b[j][k] = b[j - 1][k]
              /\ Follows(v[j].down, b[j - 1][v[j].key], b[j][v[j].key])
              /\ v[j].down = TRUE /\ v[j].swapped = FALSE => b[j - 1][v[j].key] # "any"
  <2>1. CASE j = i
    BY <1>2, <1>12, <1>14, <2>1
  <2>2. CASE j = i + 1
    <3>1. v[j] = x /\ j - 1 = i
      BY <1>1, <1>2, <2>2
    <3> QED BY <1>13, <1>14, <2>2, <3>1
  <2>3. CASE j # i /\ j # i + 1
    <3>1. v[j] = w[j] /\ b[j] = a[j] /\ b[j - 1] = a[j - 1]
      BY <1>1, <1>2, <1>8, <2>3
    <3> QED BY <3>1 DEF Marked
  <2> QED BY <2>1, <2>2, <2>3
<1>16. ASSUME NEW j \in 0 .. n, NEW k \in Keys, b[j][k] = "early"
       PROVE  /\ j < n /\ v[j + 1].key = k /\ v[j + 1].swapped = TRUE
              /\ j > 0 => v[j].key = k /\ v[j].swapped = TRUE
  <2>1. CASE j = i
    <3>1. k = y.key /\ mark = "early"
      BY <1>1, <1>5, <1>7, <1>8, <1>16, <2>1
    <3>2. x.key = y.key
      BY <1>1, <1>4, <1>5, <3>1
    <3> QED BY <1>1, <1>2, <2>1, <3>1, <3>2
  <2>2. CASE j # i
    <3>1. a[j][k] = "early"
      BY <1>8, <1>16, <2>2
    <3>2. j < n /\ w[j + 1].key = k /\ w[j + 1].swapped = TRUE /\ (j > 0 => w[j].key = k /\ w[j].swapped = TRUE)
      BY <3>1 DEF Marked
    <3>3. j + 1 # i /\ j + 1 # i + 1 /\ j + 1 \in 1 .. n
      BY <3>2
    <3>4. v[j + 1] = w[j + 1]
      BY <1>2, <3>3
    <3>5. j > 0 => j # i + 1 /\ v[j] = w[j]
      BY <1>2, <2>2, <3>2
    <3> QED BY <3>2, <3>4, <3>5
  <2> QED BY <2>1, <2>2
<1>17. b \in [0 .. Len(v) -> [Keys -> Marks]] /\ \A k \in Keys : k \notin h => b[Len(v)][k] # "any"
  BY <1>2, <1>8, <1>11
<1>18. \A j \in 1 .. Len(v) :
         /\ \A k \in Keys : k # v[j].key => b[j][k] = b[j - 1][k]
         /\ Follows(v[j].down, b[j - 1][v[j].key], b[j][v[j].key])
         /\ v[j].down = TRUE /\ v[j].swapped = FALSE => b[j - 1][v[j].key] # "any"
  BY <1>2, <1>15
<1>19. \A j \in 0 .. Len(v), k \in Keys : b[j][k] = "early" =>
         /\ j < Len(v) /\ v[j + 1].key = k /\ v[j + 1].swapped = TRUE
         /\ j > 0 => v[j].key = k /\ v[j].swapped = TRUE
  BY <1>2, <1>16
<1>20. Marked(v, b, h, d, e)
  BY <1>11, <1>17, <1>18, <1>19 DEF Marked
<1> QED BY <1>20 DEF v

KeyInv ==
  /\ onWire \in Seq(Events) /\ mutter = down /\ down \subseteq Keys
  /\ \E a : Marked(onWire, a, held, down, early)

LEMMA KeyStart == Typing!Init => KeyInv
<1> SUFFICES ASSUME Typing!Init PROVE KeyInv
  OBVIOUS
<1> DEFINE a == [i \in 0 .. 0 |-> [k \in Keys |-> "up"]]
<1>1. onWire = << >> /\ held = {} /\ down = {} /\ early = {} /\ mutter = {}
  BY DEF Typing!Init
<1>2. Len(onWire) = 0 /\ onWire \in Seq(Events)
  BY <1>1
<1>3. a \in [0 .. Len(onWire) -> [Keys -> Marks]] /\ a[0] = [k \in Keys |-> "up"]
  BY <1>2 DEF Marks
<1>4. \A i \in 0 .. Len(onWire) : i = 0
  BY <1>2
<1>5. \A i \in 1 .. Len(onWire) : FALSE
  BY <1>2
<1> HIDE DEF a
<1>6. \A k \in Keys : a[0][k] = "up"
  BY <1>3
<1>7. Marked(onWire, a, held, down, early)
  BY <1>1, <1>2, <1>3, <1>4, <1>5, <1>6 DEF Marked, Fits
<1> QED BY <1>1, <1>2, <1>7 DEF KeyInv

LEMMA TypeStep ==
  ASSUME KeyInv, NEW k \in Keys, Typing!Type(k)
  PROVE  KeyInv'
<1> DEFINE x == [key |-> k, down |-> k \notin held, swapped |-> FALSE]
<1>1. /\ onWire' = Append(onWire, x) /\ UNCHANGED <<down, early, mutter>>
      /\ held' = IF k \in held THEN held \ {k} ELSE held \cup {k}
  BY DEF Typing!Type
<1>2. x \in Events /\ x.key = k /\ x.swapped = FALSE
  BY DEF Events
<1>3. x.down = TRUE => k \notin held
  OBVIOUS
<1>4. x.down = FALSE => k \in held
  OBVIOUS
<1> HIDE DEF x
<1>5. PICK a : Marked(onWire, a, held, down, early)
  BY DEF KeyInv
<1>6. onWire \in Seq(Events)
  BY DEF KeyInv
<1>7. \E b : Marked(Append(onWire, x), b, held', down, early)
  BY <1>1, <1>2, <1>3, <1>4, <1>5, <1>6, SentMarked
<1>8. Append(onWire, x) \in Seq(Events)
  BY <1>2, <1>6
<1> QED BY <1>1, <1>7, <1>8 DEF KeyInv

LEMMA SwapStep ==
  ASSUME KeyInv, NEW i \in 1 .. Len(onWire) - 1, Typing!Swap(i)
  PROVE  KeyInv'
<1> DEFINE x == [onWire[i] EXCEPT !.swapped = TRUE]
           y == [onWire[i + 1] EXCEPT !.swapped = TRUE]
<1>1. onWire \in Seq(Events)
  BY DEF KeyInv
<1>2. onWire[i] \in Events /\ onWire[i + 1] \in Events
  BY <1>1
<1>3. /\ onWire' = [onWire EXCEPT ![i] = y, ![i + 1] = x] /\ UNCHANGED <<held, down, early, mutter>>
      /\ ~onWire[i].swapped /\ ~onWire[i + 1].swapped
  BY DEF Typing!Swap
<1>4. onWire[i].swapped \in BOOLEAN /\ onWire[i + 1].swapped \in BOOLEAN
  BY <1>2, EventFields
<1>5. onWire[i].swapped = FALSE /\ onWire[i + 1].swapped = FALSE
  BY Zenon, <1>3, <1>4
<1>6. /\ x \in Events /\ x.swapped = TRUE /\ x.key = onWire[i].key /\ x.down = onWire[i].down
      /\ y \in Events /\ y.swapped = TRUE /\ y.key = onWire[i + 1].key /\ y.down = onWire[i + 1].down
  BY Zenon, <1>2 DEF Events
<1> HIDE DEF x, y
<1>7. PICK a : Marked(onWire, a, held, down, early)
  BY DEF KeyInv
<1>8. \E b : Marked([onWire EXCEPT ![i] = y, ![i + 1] = x], b, held, down, early)
  BY <1>1, <1>5, <1>6, <1>7, SwappedMarked
<1>9. [onWire EXCEPT ![i] = y, ![i + 1] = x] \in Seq(Events)
  BY <1>1, <1>6
<1> QED BY <1>3, <1>8, <1>9 DEF KeyInv

LEMMA ArriveStep ==
  ASSUME KeyInv, Typing!Arrive
  PROVE  KeyInv'
<1> DEFINE x == Head(onWire)
<1>1. onWire \in Seq(Events) /\ onWire # << >> /\ onWire' = Tail(onWire) /\ held' = held /\ mutter = down
  BY DEF KeyInv, Typing!Arrive
<1>2. 1 \in 1 .. Len(onWire) /\ 1 - 1 = 0 /\ x = onWire[1] /\ x \in Events
  BY <1>1
<1>3. x.key \in Keys /\ x.down \in BOOLEAN
  BY <1>2, EventFields
<1>4. IF x.down THEN Typing!Press(x.key) ELSE Typing!Release(x.key)
  BY DEF Typing!Arrive
<1>5. PICK a : Marked(onWire, a, held, down, early)
  BY DEF KeyInv
<1>6. \A k \in Keys : Fits(a[0][k], k, down, early)
  BY <1>5 DEF Marked
<1>7. /\ \A k \in Keys : k # x.key => a[1][k] = a[0][k]
      /\ Follows(x.down, a[0][x.key], a[1][x.key])
  BY <1>2, <1>5 DEF Marked
<1>8. a[1][x.key] \in Marks
  BY <1>2, <1>3, <1>5 DEF Marked
<1> HIDE DEF x
<1>9. CASE x.down = TRUE
  <2>1. Typing!Press(x.key)
    BY Zenon, <1>4, <1>9
  <2>2. /\ down' = IF x.key \in early THEN down \ {x.key} ELSE down \cup {x.key}
        /\ mutter' = IF x.key \in early THEN mutter \ {x.key} ELSE mutter \cup {x.key}
        /\ early' = early \ {x.key}
    BY <2>1 DEF Typing!Press, Typing!ReleasedBehind
  <2>3. \A k \in Keys : Fits(a[1][k], k, down', early')
    BY <1>3, <1>6, <1>7, <1>8, <1>9, <2>2 DEF Fits, Follows
  <2>4. \E b : Marked(Tail(onWire), b, held, down', early')
    BY <1>1, <1>5, <2>3, TakenMarked
  <2>5. mutter' = down' /\ down' \subseteq Keys
    BY <1>1, <1>3, <2>2 DEF KeyInv
  <2>6. Tail(onWire) \in Seq(Events)
    BY <1>1
  <2> QED BY <1>1, <2>4, <2>5, <2>6 DEF KeyInv
<1>10. CASE x.down = FALSE
  <2>1. Typing!Release(x.key)
    BY Zenon, <1>4, <1>10
  <2>2. \/ x.key \notin down /\ early' = early \cup {x.key} /\ UNCHANGED <<down, mutter>>
        \/ x.key \in down /\ down' = down \ {x.key} /\ mutter' = mutter \ {x.key} /\ early' = early
    BY <2>1 DEF Typing!Release, Typing!Waits
  <2>3. \A k \in Keys : Fits(a[1][k], k, down', early')
    BY <1>3, <1>6, <1>7, <1>8, <1>10, <2>2 DEF Fits, Follows
  <2>4. \E b : Marked(Tail(onWire), b, held, down', early')
    BY <1>1, <1>5, <2>3, TakenMarked
  <2>5. mutter' = down' /\ down' \subseteq Keys
    BY <1>1, <1>3, <2>2 DEF KeyInv
  <2>6. Tail(onWire) \in Seq(Events)
    BY <1>1
  <2> QED BY <1>1, <2>4, <2>5, <2>6 DEF KeyInv
<1> QED BY <1>3, <1>9, <1>10

LEMMA ExpireStep ==
  ASSUME KeyInv, NEW k \in Keys, Typing!Expire(k)
  PROVE  KeyInv'
<1>1. PICK a : Marked(onWire, a, held, down, early)
  BY DEF KeyInv
<1>2. UNCHANGED <<held, onWire, down, mutter>> /\ early' = early \ {k}
  BY DEF Typing!Expire
<1>3. onWire \in Seq(Events)
  BY DEF KeyInv
<1>4. a[0][k] # "early"
  <2> SUFFICES ASSUME a[0][k] = "early" PROVE FALSE
    OBVIOUS
  <2>1. 0 \in 0 .. Len(onWire) /\ 0 + 1 = 1
    BY <1>3
  <2>2. 0 < Len(onWire) /\ onWire[1].key = k /\ onWire[1].swapped = TRUE
    BY <1>1, <2>1 DEF Marked
  <2>3. 1 \in DOMAIN onWire
    BY <1>3, <2>2
  <2>4. ~(onWire[1].swapped /\ onWire[1].key = k)
    BY <2>3 DEF Typing!Expire
  <2> QED BY Zenon, <2>2, <2>4
<1>5. \A j \in Keys : Fits(a[0][j], j, down, early')
  BY <1>1, <1>2, <1>4 DEF Marked, Fits
<1>6. Marked(onWire, a, held, down, early')
  BY <1>1, <1>5 DEF Marked
<1> QED BY <1>2, <1>6 DEF KeyInv

LEMMA KeyStep == KeyInv /\ [Typing!Next]_(Typing!keyVars) => KeyInv'
<1> SUFFICES ASSUME KeyInv, [Typing!Next]_(Typing!keyVars) PROVE KeyInv'
  OBVIOUS
<1>1. CASE UNCHANGED Typing!keyVars
  BY <1>1 DEF Typing!keyVars, KeyInv
<1> QED BY <1>1, TypeStep, ExpireStep, SwapStep, ArriveStep DEF Typing!Next

LEMMA KeyGives == KeyInv => NoKeyStuck
<1> SUFFICES ASSUME KeyInv, onWire = << >>, NEW k \in mutter PROVE k \in held
  BY DEF NoKeyStuck, Typing!NoKeyStuck
<1>1. k \in Keys /\ k \in down
  BY DEF KeyInv
<1>2. PICK a : Marked(onWire, a, held, down, early)
  BY DEF KeyInv
<1>3. Len(onWire) = 0 /\ 0 \in 0 .. 0
  OBVIOUS
<1>4. a[0][k] \in Marks /\ Fits(a[0][k], k, down, early)
  BY <1>1, <1>2, <1>3 DEF Marked
<1>5. a[0][k] = "any"
  BY <1>1, <1>4 DEF Fits, Marks
<1> QED BY <1>1, <1>2, <1>3, <1>5 DEF Marked

-----------------------------------------------------------------------------
(* SeatClipboard.  A server that believes it owns the selection does own   *)
(* it, or a signal that says otherwise is on its way, behind those it has  *)
(* to skip.                                                                *)

Selections == [clip : Nat, by : Nat]
ServerStates == [state : {"new", "running", "stopped"}, mimes : Nat, owned : Nat, skip : Nat]

\* A signal on its way that server n will take for another owner's
ToldSoon(n) == \E i \in 1 .. Len(signals) : i > server[n].skip /\ signals[i].by # n

ClipInv ==
  /\ copies \in Nat /\ selection \in Selections /\ signals \in Seq(Selections)
  /\ server \in [Seat!Servers -> ServerStates]
  /\ \A n, k \in Seat!Servers : k > n /\ server[n].state = "new" => server[k].state = "new"
  /\ Seat!NewestIsServed
  /\ \A n \in Seat!Servers : server[n].state = "running" =>
       /\ server[n].skip <= Len(signals)
       /\ server[n].owned # 0 => (selection.clip = server[n].owned /\ selection.by = n) \/ ToldSoon(n)

LEMMA ServerFields ==
  ASSUME server \in [Seat!Servers -> ServerStates], NEW n \in Seat!Servers
  PROVE  /\ server[n].state \in {"new", "running", "stopped"}
         /\ server[n].owned \in Nat /\ server[n].skip \in Nat /\ server[n].mimes \in Nat
         /\ n \in Nat /\ n # 0
BY ServersAssumption DEF ServerStates, Seat!Servers

LEMMA ClipStart == Seat!Init => ClipInv
<1> SUFFICES ASSUME Seat!Init PROVE ClipInv
  OBVIOUS
<1>1. Seat!NoServer \in ServerStates /\ Seat!NoServer.state = "new"
  BY DEF Seat!NoServer, ServerStates
<1>2. server \in [Seat!Servers -> ServerStates] /\ \A n \in Seat!Servers : server[n].state = "new"
  BY <1>1 DEF Seat!Init
<1>3. selection \in Selections /\ signals \in Seq(Selections) /\ copies \in Nat
  BY DEF Seat!Init, Selections, Seat!App
<1> QED BY <1>2, <1>3 DEF ClipInv, Seat!NewestIsServed, Seat!Running

LEMMA ClipStartStep ==
  ASSUME ClipInv, NEW n \in Seat!Servers, Seat!Start(n)
  PROVE  ClipInv'
<1> DEFINE s == [Seat!NoServer EXCEPT !.state = "running", !.skip = Len(signals)]
<1>1. /\ server' = [server EXCEPT ![n] = s] /\ socket' = n /\ UNCHANGED <<copies, selection, signals>>
      /\ server[n].state = "new" /\ (n > 1 => server[n - 1].state # "new")
  BY DEF Seat!Start
<1>2. signals \in Seq(Selections) /\ Len(signals) \in Nat /\ server \in [Seat!Servers -> ServerStates]
  BY DEF ClipInv
<1>3. s \in ServerStates /\ s.state = "running" /\ s.owned = 0 /\ s.skip = Len(signals)
  BY <1>2 DEF Seat!NoServer, ServerStates
<1> HIDE DEF s
<1>4. /\ server' \in [Seat!Servers -> ServerStates] /\ server'[n] = s
      /\ \A k \in Seat!Servers : k # n => server'[k] = server[k]
  BY <1>1, <1>2, <1>3
<1>5. \A k \in Seat!Servers : k \in Nat /\ k > 0
  BY ServersAssumption DEF Seat!Servers
<1>6. \A k \in Seat!Servers : k < n => server[k].state # "new"
  <2> SUFFICES ASSUME NEW k \in Seat!Servers, k < n PROVE server[k].state # "new"
    OBVIOUS
  <2>1. n - 1 \in Seat!Servers /\ n > 1 /\ (k = n - 1 \/ n - 1 > k)
    BY <1>5, ServersAssumption DEF Seat!Servers
  <2> QED BY <1>1, <2>1 DEF ClipInv
<1>7. \A m, k \in Seat!Servers : k > m /\ server'[m].state = "new" => server'[k].state = "new"
  <2> SUFFICES ASSUME NEW m \in Seat!Servers, NEW k \in Seat!Servers, k > m, server'[m].state = "new"
               PROVE  server'[k].state = "new"
    OBVIOUS
  <2>1. m # n /\ server[m].state = "new"
    BY <1>3, <1>4
  <2>2. k # n
    BY <1>6, <2>1
  <2> QED BY <1>4, <2>1, <2>2 DEF ClipInv
<1>8. Seat!NewestIsServed'
  <2> SUFFICES ASSUME NEW m \in Seat!Servers, server'[m].state = "running",
                      \A k \in Seat!Servers : k > m => server'[k].state = "new"
               PROVE  socket' = m
    BY DEF Seat!NewestIsServed, Seat!Running
  <2>1. m >= n
    BY <1>3, <1>4, <1>5
  <2>2. ~(m > n)
    BY <1>1, <1>4, <2>1 DEF ClipInv
  <2>3. m = n
    BY <1>5, <2>1, <2>2
  <2> QED BY <1>1, <2>3
<1>9. \A m \in Seat!Servers : server'[m].state = "running" =>
        /\ server'[m].skip <= Len(signals')
        /\ server'[m].owned # 0 => (selection'.clip = server'[m].owned /\ selection'.by = m)
                                  \/ \E i \in 1 .. Len(signals') : i > server'[m].skip /\ signals'[i].by # m
  <2> SUFFICES ASSUME NEW m \in Seat!Servers, server'[m].state = "running"
               PROVE  /\ server'[m].skip <= Len(signals)
                      /\ server'[m].owned # 0 => (selection.clip = server'[m].owned /\ selection.by = m)
                           \/ \E i \in 1 .. Len(signals) : i > server'[m].skip /\ signals[i].by # m
    BY <1>1
  <2>1. CASE m = n
    BY <1>2, <1>3, <1>4, <2>1
  <2>2. CASE m # n
    BY <1>4, <2>2 DEF ClipInv, ToldSoon
  <2> QED BY <2>1, <2>2
<1> QED BY <1>1, <1>4, <1>7, <1>8, <1>9 DEF ClipInv, ToldSoon

LEMMA ClipStopStep ==
  ASSUME ClipInv, NEW n \in Seat!Servers, Seat!Stop(n)
  PROVE  ClipInv'
<1> DEFINE s == [Seat!NoServer EXCEPT !.state = "stopped"]
<1>1. /\ server' = [server EXCEPT ![n] = s] /\ UNCHANGED <<copies, signals>> /\ server[n].state = "running"
      /\ socket' = IF socket = n THEN 0 ELSE socket
      /\ selection' = IF selection.by = n THEN [clip |-> 0, by |-> 0] ELSE selection
  BY DEF Seat!Stop, Seat!Running, Seat!Unlinked, Seat!App
<1>2. s \in ServerStates /\ s.state = "stopped"
  BY DEF Seat!NoServer, ServerStates
<1> HIDE DEF s
<1>3. /\ server' \in [Seat!Servers -> ServerStates] /\ server'[n] = s
      /\ \A k \in Seat!Servers : k # n => server'[k] = server[k]
  BY <1>1, <1>2 DEF ClipInv
<1>4. selection' \in Selections
  BY <1>1 DEF ClipInv, Selections
<1>5. \A m, k \in Seat!Servers : k > m /\ server'[m].state = "new" => server'[k].state = "new"
  BY <1>1, <1>2, <1>3 DEF ClipInv
<1>6. Seat!NewestIsServed'
  <2> SUFFICES ASSUME NEW m \in Seat!Servers, server'[m].state = "running",
                      \A k \in Seat!Servers : k > m => server'[k].state = "new"
               PROVE  socket' = m
    BY DEF Seat!NewestIsServed, Seat!Running
  <2>1. m # n /\ server[m].state = "running"
    BY <1>2, <1>3
  <2>2. \A k \in Seat!Servers : k > m => server[k].state = "new"
    BY <1>2, <1>3
  <2>3. socket = m
    BY <2>1, <2>2 DEF ClipInv, Seat!NewestIsServed, Seat!Running
  <2> QED BY <1>1, <2>1, <2>3
<1>7. ASSUME NEW m \in Seat!Servers, server'[m].state = "running"
      PROVE  /\ server'[m].skip <= Len(signals)
             /\ server'[m].owned # 0 => (selection'.clip = server'[m].owned /\ selection'.by = m) \/ ToldSoon(m)'
  <2>1. m # n /\ server'[m] = server[m]
    BY <1>2, <1>3, <1>7
  <2>2. ToldSoon(m)' = ToldSoon(m)
    BY <1>1, <2>1 DEF ToldSoon
  <2>3. selection.by = m => selection' = selection
    BY <1>1, <2>1
  <2> QED BY <1>7, <2>1, <2>2, <2>3 DEF ClipInv
<1> QED BY <1>1, <1>3, <1>4, <1>5, <1>6, <1>7 DEF ClipInv

\* Somebody takes the selection: every other server is told.
LEMMA ClipTaken ==
  ASSUME ClipInv, NEW by \in Nat, NEW t, t = [clip |-> copies + 1, by |-> by],
         copies' = copies + 1, selection' = t, signals' = Append(signals, t), socket' = socket,
         \/ by = 0 /\ server' = server
         \/ by \in Seat!Servers /\ server' = [server EXCEPT ![by].owned = copies + 1]
  PROVE  ClipInv'
<1>1. copies + 1 \in Nat /\ t \in Selections /\ t.by = by /\ t.clip = copies + 1
  BY DEF ClipInv, Selections
<1>2. /\ signals \in Seq(Selections) /\ signals' \in Seq(Selections) /\ Len(signals) \in Nat
      /\ Len(signals') = Len(signals) + 1 /\ signals'[Len(signals) + 1] = t
      /\ \A i \in 1 .. Len(signals) : signals'[i] = signals[i]
  BY <1>1 DEF ClipInv
<1>3. /\ server' \in [Seat!Servers -> ServerStates]
      /\ \A m \in Seat!Servers : server'[m].state = server[m].state /\ server'[m].skip = server[m].skip
      /\ \A m \in Seat!Servers : m # by => server'[m].owned = server[m].owned
      /\ by \in Seat!Servers => server'[by].owned = copies + 1
  <2>1. CASE by = 0 /\ server' = server
    BY <2>1, ServersAssumption DEF ClipInv, Seat!Servers
  <2>2. CASE by \in Seat!Servers /\ server' = [server EXCEPT ![by].owned = copies + 1]
    <3>1. server[by] \in ServerStates
      BY <2>2 DEF ClipInv
    <3>2. /\ [server[by] EXCEPT !.owned = copies + 1] \in ServerStates
          /\ [server[by] EXCEPT !.owned = copies + 1].state = server[by].state
          /\ [server[by] EXCEPT !.owned = copies + 1].skip = server[by].skip
          /\ [server[by] EXCEPT !.owned = copies + 1].owned = copies + 1
      BY <1>1, <3>1 DEF ServerStates
    <3> QED BY <2>2, <3>2 DEF ClipInv
  <2> QED BY <2>1, <2>2
<1>4. Seat!NewestIsServed'
  BY <1>3 DEF ClipInv, Seat!NewestIsServed, Seat!Running
<1>5. ASSUME NEW m \in Seat!Servers, server'[m].state = "running"
      PROVE  /\ server'[m].skip <= Len(signals')
             /\ server'[m].owned # 0 => (selection'.clip = server'[m].owned /\ selection'.by = m) \/ ToldSoon(m)'
  <2>1. server[m].skip <= Len(signals) /\ server[m].skip \in Nat
    BY <1>3, <1>5, ServerFields DEF ClipInv
  <2>2. CASE m = by
    BY <1>1, <1>2, <1>3, <2>1, <2>2
  <2>3. CASE m # by
    <3>1. Len(signals) + 1 \in 1 .. Len(signals') /\ Len(signals) + 1 > server'[m].skip
      BY <1>2, <1>3, <2>1
    <3>2. signals'[Len(signals) + 1].by # m
      BY <1>1, <1>2, <2>3
    <3> QED BY <1>2, <1>3, <2>1, <3>1, <3>2 DEF ToldSoon
  <2> QED BY <2>2, <2>3
<1>6. \A m, k \in Seat!Servers : k > m /\ server'[m].state = "new" => server'[k].state = "new"
  BY <1>3 DEF ClipInv
<1> QED BY <1>1, <1>2, <1>3, <1>4, <1>5, <1>6 DEF ClipInv

\* What _owner makes of server m, told of sel
DeliveredTo(s, m, sel) ==
  IF ~(s.state = "running") THEN s
  ELSE IF s.skip > 0 THEN [s EXCEPT !.skip = s.skip - 1]
  ELSE IF sel.by = m THEN s
  ELSE [s EXCEPT !.owned = 0, !.mimes = sel.clip]

LEMMA DeliveredFields ==
  ASSUME NEW s \in ServerStates, NEW m, NEW sel \in Selections
  PROVE  LET t == DeliveredTo(s, m, sel)
         IN  /\ t \in ServerStates /\ t.state = s.state
             /\ s.state = "running" =>
                  \/ s.skip > 0 /\ t.skip = s.skip - 1 /\ t.owned = s.owned
                  \/ s.skip = 0 /\ t.skip = 0 /\ sel.by = m /\ t.owned = s.owned
                  \/ s.skip = 0 /\ t.skip = 0 /\ t.owned = 0
<1>1. s.skip \in Nat /\ s.owned \in Nat /\ s.mimes \in Nat /\ sel.clip \in Nat
  BY DEF ServerStates, Selections
<1>2. CASE s.state # "running"
  BY <1>2 DEF DeliveredTo
<1>3. CASE s.state = "running" /\ s.skip > 0
  <2>1. DeliveredTo(s, m, sel) = [s EXCEPT !.skip = s.skip - 1] /\ s.skip - 1 \in Nat
    BY <1>1, <1>3 DEF DeliveredTo
  <2> QED BY <1>3, <2>1 DEF ServerStates
<1>4. CASE s.state = "running" /\ s.skip = 0 /\ sel.by = m
  BY <1>1, <1>4 DEF DeliveredTo
<1>5. CASE s.state = "running" /\ s.skip = 0 /\ sel.by # m
  <2>1. DeliveredTo(s, m, sel) = [s EXCEPT !.owned = 0, !.mimes = sel.clip]
    BY <1>1, <1>5 DEF DeliveredTo
  <2> QED BY <1>1, <1>5, <2>1 DEF ServerStates
<1> QED BY <1>1, <1>2, <1>3, <1>4, <1>5

LEMMA ClipDeliverStep ==
  ASSUME ClipInv, Seat!Deliver
  PROVE  ClipInv'
<1> DEFINE sel == Head(signals)
           n == Len(signals) - 1
<1>1. /\ signals # << >> /\ signals' = Tail(signals) /\ UNCHANGED <<copies, selection, socket>>
      /\ server' = [m \in Seat!Servers |-> DeliveredTo(server[m], m, sel)]
  BY DEF Seat!Deliver, Seat!Running, Seat!Heard, DeliveredTo
<1>2. /\ signals \in Seq(Selections) /\ Len(signals) = n + 1 /\ n \in Nat /\ sel = signals[1]
      /\ sel \in Selections /\ Tail(signals) \in Seq(Selections) /\ Len(Tail(signals)) = n
      /\ \A i \in 1 .. n : Tail(signals)[i] = signals[i + 1]
  <2>1. signals \in Seq(Selections) /\ Len(signals) \in Nat /\ Len(signals) # 0
    BY <1>1 DEF ClipInv
  <2>2. n \in Nat /\ Len(signals) = n + 1
    BY <2>1
  <2>3. sel = signals[1] /\ sel \in Selections
    BY <1>1, <2>1
  <2>4. Tail(signals) \in Seq(Selections) /\ Len(Tail(signals)) = n
    BY <1>1, <2>1
  <2>5. \A i \in 1 .. n : Tail(signals)[i] = signals[i + 1]
    BY <1>1, <2>1, <2>4
  <2> QED BY <2>1, <2>2, <2>3, <2>4, <2>5
<1> HIDE DEF sel, n
<1>4. ASSUME NEW m \in Seat!Servers
      PROVE  /\ server'[m] \in ServerStates /\ server'[m].state = server[m].state
             /\ server[m].state = "running" =>
                  \/ /\ server[m].skip > 0 /\ server'[m].skip = server[m].skip - 1
                     /\ server'[m].owned = server[m].owned
                  \/ server[m].skip = 0 /\ server'[m].skip = 0 /\ sel.by = m /\ server'[m].owned = server[m].owned
                  \/ server[m].skip = 0 /\ server'[m].skip = 0 /\ server'[m].owned = 0
  <2>1. server[m] \in ServerStates /\ server'[m] = DeliveredTo(server[m], m, sel)
    BY <1>1 DEF ClipInv
  <2> QED BY <1>2, <2>1, DeliveredFields
<1>5. server' \in [Seat!Servers -> ServerStates]
  BY <1>1, <1>4
<1>6. Seat!NewestIsServed' /\ \A m, k \in Seat!Servers : k > m /\ server'[m].state = "new" => server'[k].state = "new"
  BY <1>1, <1>4 DEF ClipInv, Seat!NewestIsServed, Seat!Running
<1>7. ASSUME NEW m \in Seat!Servers, server'[m].state = "running"
      PROVE  /\ server'[m].skip <= n
             /\ server'[m].owned # 0 => (selection.clip = server'[m].owned /\ selection.by = m)
                  \/ \E i \in 1 .. n : i > server'[m].skip /\ signals[i + 1].by # m
  <2>1. /\ server[m].state = "running" /\ server[m].skip \in Nat
        /\ server[m].skip <= n + 1
        /\ server[m].owned # 0 => (selection.clip = server[m].owned /\ selection.by = m) \/ ToldSoon(m)
    BY <1>2, <1>4, <1>7, ServerFields DEF ClipInv
  <2>2. server'[m].skip <= n
    BY <1>2, <1>4, <2>1
  <2>3. ASSUME server'[m].owned # 0, ~(selection.clip = server'[m].owned /\ selection.by = m)
        PROVE  \E i \in 1 .. n : i > server'[m].skip /\ signals[i + 1].by # m
    <3>1. server'[m].owned = server[m].owned
      BY <1>4, <2>1, <2>3
    <3>2. PICK j \in 1 .. n + 1 : j > server[m].skip /\ signals[j].by # m
      BY <1>2, <2>1, <2>3, <3>1 DEF ToldSoon
    <3>3. j # 1
      BY <1>2, <1>4, <2>1, <2>3, <3>1, <3>2
    <3>4. j - 1 \in 1 .. n /\ (j - 1) + 1 = j /\ j - 1 > server'[m].skip
      BY <1>2, <1>4, <2>1, <2>3, <3>2, <3>3
    <3> QED BY <3>2, <3>4
  <2> QED BY <2>2, <2>3
<1>8. \A m \in Seat!Servers : ToldSoon(m)' <=> \E i \in 1 .. n : i > server'[m].skip /\ signals[i + 1].by # m
  BY <1>1, <1>2 DEF ToldSoon
<1>9. ASSUME NEW m \in Seat!Servers, server'[m].state = "running"
      PROVE  /\ server'[m].skip <= Len(signals')
             /\ server'[m].owned # 0 => (selection'.clip = server'[m].owned /\ selection'.by = m) \/ ToldSoon(m)'
  BY <1>1, <1>2, <1>7, <1>8, <1>9
<1>10. copies' \in Nat /\ selection' \in Selections /\ signals' \in Seq(Selections)
  BY <1>1, <1>2 DEF ClipInv
<1> QED BY <1>5, <1>6, <1>9, <1>10 DEF ClipInv

LEMMA ClipStep == ClipInv /\ [Seat!Next]_(Seat!clipVars) => ClipInv'
<1> SUFFICES ASSUME ClipInv, [Seat!Next]_(Seat!clipVars) PROVE ClipInv'
  OBVIOUS
<1>1. CASE UNCHANGED Seat!clipVars
  BY <1>1 DEF Seat!clipVars, ClipInv, Seat!NewestIsServed, Seat!Running, ToldSoon
<1>2. CASE Seat!AppCopies
  BY <1>2, ClipTaken DEF Seat!AppCopies, Seat!App
<1>3. ASSUME NEW n \in Seat!Servers, Seat!Write(n) PROVE ClipInv'
  <2>1. n \in Nat
    BY ServersAssumption DEF Seat!Servers
  <2> QED BY <1>3, <2>1, ClipTaken DEF Seat!Write
<1> QED BY <1>1, <1>2, <1>3, ClipStartStep, ClipStopStep, ClipDeliverStep DEF Seat!Next

LEMMA ClipGives == ClipInv => ClipboardIsCurrent
<1> SUFFICES ASSUME ClipInv, NEW n \in Seat!Servers, server[n].state = "running", signals = << >>
             PROVE  Seat!Content(n) \in {0, selection.clip}
  BY DEF ClipInv, ClipboardIsCurrent, Seat!ClipboardIsCurrent, Seat!ReadIsCurrent, Seat!Running
<1>1. ~ToldSoon(n)
  BY DEF ToldSoon
<1> QED BY <1>1 DEF ClipInv, Seat!Content

\* Copies of the seat and of its viewers, signals on their way and sessions that come and go,
\* in any order: the newest session can be reached, and a quiet seat never answers a read
\* with an older selection (agent/seat_clipboard.py).
THEOREM ClipboardStaysCurrent == Seat!Spec => []ClipboardIsCurrent
<1>1. Seat!Spec => []ClipInv
  BY ClipStart, ClipStep, PTL DEF Seat!Spec
<1> QED BY <1>1, ClipGives, PTL

\* Whatever releases and presses overtake each other on the wire, no key is down in Mutter
\* that the viewer does not hold, once the wire is empty (agent/seat_ei.py).
THEOREM KeysAreFreed == Typing!Spec => []NoKeyStuck
<1>1. Typing!Spec => []KeyInv
  BY KeyStart, KeyStep, PTL DEF Typing!Spec
<1> QED BY <1>1, KeyGives, PTL

-----------------------------------------------------------------------------
(* SeatHelper.  The ready file names the size the agent waits for only     *)
(* when the monitor has it, and then nothing on its way changes it but the *)
(* request for that same size.                                             *)

Followed(s) == monitor = s /\ mode = s /\ (seenWant = TRUE /\ failed = FALSE => live = scale)

HelpInv ==
  /\ phase \in {"idle", "live", "start", "back"} /\ helper \in {"none", "starting", "up"}
  /\ target \in Sizes /\ size \in Sizes /\ left \in BOOLEAN /\ pending \in BOOLEAN
  /\ failed \in BOOLEAN
  /\ left = TRUE /\ pending = TRUE => request = "none"
  /\ helper = "starting" => phase \in {"start", "back"} /\ ready = "none" /\ seenWant = FALSE
  /\ phase = "live" => request \in {"none", target} /\ (helper # "none" => left = FALSE)
  /\ helper = "none" /\ left = FALSE => request = "none"
  /\ phase \in {"start", "back"} /\ left = FALSE => request = "none" /\ monitor = target
  /\ phase # "idle" /\ left = FALSE /\ helper = "up" /\ ready = target => Followed(target)
  /\ phase = "idle" /\ left = FALSE /\ helper = "up" =>
       Followed(size) /\ ready = size /\ request \in {"none", size}
  /\ phase = "idle" /\ helper = "up" => ready = size \/ (request = "none" /\ Followed(ready))

LEMMA HelpStart == Helper!Init => HelpInv
BY DEF Helper!Init, Helper!None, HelpInv, Followed

LEMMA HelpStep == HelpInv /\ [Helper!Next]_(Helper!helpVars) => HelpInv'
<1> SUFFICES ASSUME HelpInv, [Helper!Next]_(Helper!helpVars) PROVE HelpInv'
  OBVIOUS
<1> USE SizesAssumption DEF Helper!None, Helper!agentVars, Helper!helperVars, Helper!mutterVars,
        Helper!scaleVars, Helper!fileVars, Helper!budget
<1>1. CASE UNCHANGED Helper!helpVars
  BY <1>1 DEF Helper!helpVars, HelpInv, Followed
<1>2. ASSUME NEW s \in Sizes, Helper!Resize(s) PROVE HelpInv'
  BY <1>2 DEF Helper!Resize, HelpInv, Followed
<1>3. ASSUME NEW s \in Sizes, Helper!StartAnew(s) PROVE HelpInv'
  BY <1>3 DEF Helper!StartAnew, Helper!StartHelper, Helper!HelperMain, Helper!NewMonitor, HelpInv, Followed
<1>4. CASE Helper!Arrived
  BY <1>4 DEF Helper!Arrived, Helper!WriteSize, HelpInv, Followed
<1>5. CASE Helper!ResizeFails
  BY <1>5 DEF Helper!ResizeFails, Helper!TakenBack, Helper!StartHelper, Helper!HelperMain,
              Helper!NewMonitor, HelpInv, Followed
<1>6. CASE Helper!StartFails
  BY <1>6 DEF Helper!StartFails, Helper!StartHelper, Helper!HelperMain, Helper!NewMonitor, HelpInv, Followed
<1>7. CASE Helper!BackFails
  BY <1>7 DEF Helper!BackFails, Helper!StopHelper, Helper!NoMonitor, HelpInv, Followed
<1>8. CASE Helper!Ready
  BY <1>8 DEF Helper!Ready, Helper!WriteReady, HelpInv, Followed
<1>9. CASE Helper!WatchScale
  BY <1>9 DEF Helper!WatchScale, Helper!Rescaled, Helper!Applied, HelpInv, Followed
<1>10. CASE Helper!TakeRequest
  BY <1>10 DEF Helper!TakeRequest, HelpInv, Followed
<1>11. CASE Helper!Resized
  <2>1. /\ helper = "up" /\ pending = TRUE /\ pending' = FALSE /\ mode = monitor /\ ready' = monitor
        /\ failed' \in BOOLEAN /\ (failed' = FALSE => scale' = live')
        /\ UNCHANGED <<phase, target, size, helper, monitor, mode, request, left>>
    BY <1>11 DEF Helper!Resized, Helper!WriteReady, Helper!Rescaled, Helper!Applied, HelpInv
  <2>2. CASE phase = "idle" /\ left = FALSE
    BY <2>1, <2>2 DEF HelpInv, Followed
  <2>3. CASE phase = "idle" /\ left = TRUE
    BY <2>1, <2>3 DEF HelpInv, Followed
  <2>4. CASE phase # "idle"
    BY <2>1, <2>4 DEF HelpInv, Followed
  <2> QED BY <2>2, <2>3, <2>4 DEF HelpInv
<1>12. CASE Helper!ResizeGivesUp
  BY <1>12 DEF Helper!ResizeGivesUp, HelpInv, Followed
<1>13. CASE Helper!ModeSet
  BY <1>13 DEF Helper!ModeSet, HelpInv, Followed
<1>14. CASE Helper!HelperDies
  <2>1. /\ helper' = "none" /\ pending' = FALSE /\ left' \in BOOLEAN
        /\ UNCHANGED <<phase, target, size, monitor, ready, request, failed>>
    BY <1>14 DEF Helper!HelperDies, Helper!StopHelper
  <2>2. left' = FALSE => left = FALSE /\ request = "none"
    BY <1>14 DEF Helper!HelperDies, HelpInv
  <2> QED BY <2>1, <2>2 DEF HelpInv
<1>15. CASE Helper!Scale
  BY <1>15 DEF Helper!Scale, Helper!WriteScale, HelpInv, Followed
<1> QED BY <1>1, <1>2, <1>3, <1>4, <1>5, <1>6, <1>7, <1>8, <1>9, <1>10, <1>11, <1>12, <1>13, <1>14,
          <1>15 DEF Helper!Next

LEMMA HelpGives == HelpInv => Helper!SeatIsLive
<1> SUFFICES ASSUME HelpInv PROVE Helper!SeatIsLive
  OBVIOUS
<1>1. Helper!SizeIsLive
  BY DEF HelpInv, Helper!SizeIsLive, Followed
<1>2. Helper!ScaleIsLive
  BY DEF HelpInv, Helper!ScaleIsLive, Followed
<1> QED BY <1>1, <1>2 DEF Helper!SeatIsLive

-----------------------------------------------------------------------------
(* LabwcSeat.  From the wait that found selkies' socket on, everything is  *)
(* built on that socket; labwc's is right from the wait that found it on.  *)

Passes == {"start", "seek", "shell", "hunt", "check", "rehunt", "bridge", "wait"}
Engines == [st : {"none", "up", "dead"}, index : Nat, at : Nat]
Shells == [st : {"none", "up", "dead"}, on : Nat, at : Nat]
Bridges == [st : {"none", "up", "dead"}, seat : Nat, app : Nat]

LabwcTypes ==
  /\ pass \in Passes /\ index \in Nat /\ seatSocket \in Nat /\ appSocket \in Nat
  /\ selkies \in Engines /\ shell \in Shells /\ bridge \in Bridges
  /\ fresh \subseteq Labwc!Slots /\ mixed \in BOOLEAN /\ missed \in BOOLEAN

\* The bridge is built after the wait for labwc's socket, and to the seat's.
BridgeIsBuilt ==
  /\ bridge.st = "up" => bridge.seat = seatSocket /\ bridge.app # 0
  /\ pass \in {"seek", "shell", "hunt"} => bridge.st # "up"

\* selkies and labwc use the socket that was found.
OneSocket ==
  /\ pass = "seek" => seatSocket = 0
  /\ pass = "seek" /\ selkies.st = "up" => selkies.index = index
  /\ selkies.st = "up" /\ seatSocket # 0 /\ mixed = FALSE =>
       /\ selkies.at = seatSocket /\ selkies.index = seatSocket
       /\ pass # "shell" /\ shell.st = "up" => shell.on = seatSocket

\* What the agent knows of labwc's socket, between the waits for it
AppIsFound ==
  pass \in {"check", "bridge", "wait", "start"} /\ selkies.st = "up" /\ seatSocket # 0
    /\ mixed = FALSE /\ missed = FALSE /\ shell.st = "up" =>
    /\ appSocket # 0 => appSocket = shell.at
    /\ bridge.st = "up" => bridge.app = shell.at

LabwcInv == LabwcTypes /\ BridgeIsBuilt /\ OneSocket /\ AppIsFound

LEMMA SlotFacts == \A S \in SUBSET Labwc!Slots : \A s \in Labwc!Lowest(S) : s \in S /\ s \in Nat /\ s # 0
BY SlotsAssumption DEF Labwc!Lowest, Labwc!Slots

LEMMA LabwcStart == Labwc!Init => LabwcInv
<1> SUFFICES ASSUME Labwc!Init PROVE LabwcInv
  OBVIOUS
<1>1. LabwcTypes
  <2>1. selkies \in Engines /\ shell \in Shells /\ bridge \in Bridges
    BY DEF Labwc!Init, Engines, Shells, Bridges, Labwc!NoEngine, Labwc!NoShell, Labwc!NoBridge
  <2>2. /\ pass = "start" /\ index \in Nat /\ seatSocket = 0 /\ appSocket = 0 /\ fresh = {}
        /\ mixed = FALSE /\ missed = FALSE
    BY DEF Labwc!Init
  <2> QED BY <2>1, <2>2 DEF LabwcTypes, Passes
<1>2. pass = "start" /\ selkies.st = "none" /\ bridge.st = "none"
  BY DEF Labwc!Init, Labwc!NoEngine, Labwc!NoBridge
<1> QED BY <1>1, <1>2 DEF LabwcInv, BridgeIsBuilt, OneSocket, AppIsFound

\* What ends a process leaves nothing of it up.
LEMMA OrphanFacts ==
  ASSUME shell \in Shells, NEW slot
  PROVE  /\ Labwc!Orphan(slot) \in Shells
         /\ Labwc!Orphan(slot).st = "up" => Labwc!Orphan(slot) = shell
<1>1. [Labwc!NoShell EXCEPT !.st = "dead"] = [st |-> "dead", on |-> 0, at |-> 0]
  BY DEF Labwc!NoShell
<1> QED BY <1>1 DEF Labwc!Orphan, Shells

LEMMA LabwcQuiet ==
  ASSUME LabwcInv, LabwcTypes', UNCHANGED <<index, seatSocket, appSocket, bridge, mixed, missed>>,
         pass' = pass \/ (pass \in {"wait", "start"} /\ pass' \in {"start", "check"}),
         selkies'.st = "up" => selkies' = selkies, shell'.st = "up" => shell' = shell
  PROVE  LabwcInv'
BY DEF LabwcInv, BridgeIsBuilt, OneSocket, AppIsFound, LabwcTypes

LEMMA SeekStep == ASSUME LabwcInv, Labwc!Seek PROVE LabwcInv'
<1>1. PICK s \in Labwc!Lowest(fresh) :
        /\ seatSocket' = s /\ mixed' = (s # selkies.at) /\ index' = s
        /\ \/ s = index /\ pass' = "shell" /\ UNCHANGED <<selkies, shell>>
           \/ s # index /\ pass' = "check" /\ selkies' = Labwc!NoEngine /\ shell' = Labwc!Orphan(selkies.at)
  BY DEF Labwc!Seek, Labwc!Appeared
<1>2. pass = "seek" /\ UNCHANGED <<bridge, appSocket, fresh, missed>>
  BY DEF Labwc!Seek
<1>3. s \in Nat /\ s # 0
  BY SlotFacts DEF LabwcInv, LabwcTypes
<1>4. mixed' \in BOOLEAN /\ (mixed' = FALSE => selkies.at = s)
  BY <1>1
<1>5. Labwc!NoEngine \in Engines /\ Labwc!NoEngine.st = "none"
  BY DEF Labwc!NoEngine, Engines
<1>6. LabwcTypes'
  BY <1>1, <1>2, <1>3, <1>4, <1>5, OrphanFacts DEF LabwcInv, LabwcTypes, Passes
<1>7. CASE s = index /\ pass' = "shell" /\ UNCHANGED <<selkies, shell>>
  BY <1>1, <1>2, <1>4, <1>6, <1>7 DEF LabwcInv, BridgeIsBuilt, OneSocket, AppIsFound
<1>8. CASE pass' = "check" /\ selkies' = Labwc!NoEngine
  BY <1>1, <1>2, <1>5, <1>6, <1>8 DEF LabwcInv, BridgeIsBuilt, OneSocket, AppIsFound
<1> QED BY <1>1, <1>7, <1>8

LEMMA StartShellStep ==
  ASSUME LabwcInv, NEW next, NEW slack, slack \subseteq Labwc!Slots, Labwc!StartShell(next, slack),
         \/ pass = "shell" /\ next = "hunt"
         \/ pass = "check" /\ next = "rehunt"
  PROVE  LabwcInv'
<1>1. /\ shell' = [st |-> "up", on |-> seatSocket, at |-> 0] /\ fresh' = slack /\ pass' = next
      /\ UNCHANGED <<index, selkies, bridge, seatSocket, appSocket, mixed, missed>>
  BY DEF Labwc!StartShell, Labwc!found, Labwc!ghosts
<1>2. LabwcTypes'
  BY <1>1 DEF LabwcInv, LabwcTypes, Passes, Shells
<1> QED BY <1>1, <1>2 DEF LabwcInv, BridgeIsBuilt, OneSocket, AppIsFound

LEMMA HuntStep ==
  ASSUME LabwcInv, NEW next, Labwc!Hunt(next),
         \/ pass = "hunt" /\ next = "check"
         \/ pass = "rehunt" /\ next = "bridge"
  PROVE  LabwcInv'
<1>1. PICK s \in Labwc!Lowest(fresh \ {seatSocket}) :
        /\ appSocket' = s /\ mixed' = (mixed \/ s # shell.at)
        /\ bridge' = [st |-> "up", seat |-> seatSocket, app |-> s]
  BY DEF Labwc!Hunt, Labwc!Appeared
<1>2. pass' = next /\ missed' = FALSE /\ UNCHANGED <<index, selkies, shell, seatSocket, fresh>>
  BY DEF Labwc!Hunt
<1>3. s \in Nat /\ s # 0
  BY SlotFacts DEF LabwcInv, LabwcTypes
<1>4. mixed' \in BOOLEAN /\ (mixed' = FALSE => mixed = FALSE /\ shell.at = s)
  BY <1>1 DEF LabwcInv, LabwcTypes
<1>5. bridge' \in Bridges /\ bridge'.seat = seatSocket /\ bridge'.app = s
  BY <1>1, <1>3 DEF Bridges, LabwcInv, LabwcTypes
<1>6. LabwcTypes'
  BY <1>1, <1>2, <1>3, <1>4, <1>5 DEF LabwcInv, LabwcTypes, Passes
<1> QED BY <1>1, <1>2, <1>3, <1>4, <1>5, <1>6 DEF LabwcInv, BridgeIsBuilt, OneSocket, AppIsFound

LEMMA HuntFailsStep ==
  ASSUME LabwcInv, NEW next, Labwc!HuntFails(next),
         \/ pass = "hunt" /\ next = "check"
         \/ pass = "rehunt" /\ next = "bridge"
  PROVE  LabwcInv'
BY DEF Labwc!HuntFails, Labwc!found, LabwcInv, LabwcTypes, Passes, BridgeIsBuilt, OneSocket, AppIsFound

LEMMA BridgeStep == ASSUME LabwcInv, Labwc!Bridge PROVE LabwcInv'
<1>1. /\ pass = "bridge" /\ pass' = "wait"
      /\ UNCHANGED <<index, selkies, shell, seatSocket, appSocket, fresh, mixed, missed>>
  BY DEF Labwc!Bridge, Labwc!found, Labwc!ghosts
<1>2. CASE appSocket # 0 /\ selkies.st = "up" /\ bridge.st # "up"
  <2>1. bridge' = [st |-> "up", seat |-> seatSocket, app |-> appSocket]
    BY <1>2 DEF Labwc!Bridge
  <2>2. bridge' \in Bridges /\ bridge'.seat = seatSocket /\ bridge'.app = appSocket
    BY <2>1 DEF Bridges, LabwcInv, LabwcTypes
  <2>3. LabwcTypes'
    BY <1>1, <2>2 DEF LabwcInv, LabwcTypes, Passes
  <2> QED BY <1>1, <1>2, <2>2, <2>3 DEF LabwcInv, BridgeIsBuilt, OneSocket, AppIsFound
<1>3. CASE ~(appSocket # 0 /\ selkies.st = "up" /\ bridge.st # "up")
  <2>1. bridge' = bridge
    BY <1>3 DEF Labwc!Bridge
  <2> QED BY <1>1, <2>1 DEF LabwcInv, LabwcTypes, Passes, BridgeIsBuilt, OneSocket, AppIsFound
<1> QED BY <1>2, <1>3

\* What others do to the seat: processes die, sockets come and go.
LEMMA BindsStep ==
  ASSUME LabwcInv, Labwc!EngineBinds \/ Labwc!LabwcBinds
  PROVE  LabwcInv'
<1>1. CASE Labwc!EngineBinds
  <2>1. PICK s \in Labwc!Lowest(Labwc!Free) :
          selkies' = [selkies EXCEPT !.at = s] /\ fresh' = fresh \cup {s}
    BY <1>1 DEF Labwc!EngineBinds
  <2>2. /\ selkies.st = "up" /\ selkies.at = 0
        /\ UNCHANGED <<pass, index, shell, bridge, seatSocket, appSocket, mixed, missed>>
    BY <1>1 DEF Labwc!EngineBinds, Labwc!found, Labwc!ghosts
  <2>3. s \in Nat /\ s \in Labwc!Slots
    BY SlotFacts DEF Labwc!Free
  <2>4. selkies' \in Engines /\ selkies'.st = "up" /\ selkies'.index = selkies.index
    BY <2>1, <2>2, <2>3 DEF Engines, LabwcInv, LabwcTypes
  <2>5. LabwcTypes'
    BY <2>1, <2>2, <2>3, <2>4 DEF LabwcInv, LabwcTypes
  <2> QED BY <2>2, <2>4, <2>5 DEF LabwcInv, BridgeIsBuilt, OneSocket, AppIsFound
<1>2. CASE Labwc!LabwcBinds
  <2>1. PICK s \in Labwc!Lowest(Labwc!Free) :
          shell' = [shell EXCEPT !.at = s] /\ fresh' = fresh \cup {s}
    BY <1>2 DEF Labwc!LabwcBinds
  <2>2. /\ shell.st = "up" /\ shell.at = 0
        /\ UNCHANGED <<pass, index, selkies, bridge, seatSocket, appSocket, mixed, missed>>
    BY <1>2 DEF Labwc!LabwcBinds, Labwc!found, Labwc!ghosts
  <2>3. s \in Nat /\ s \in Labwc!Slots
    BY SlotFacts DEF Labwc!Free
  <2>4. shell' \in Shells /\ shell'.st = "up" /\ shell'.on = shell.on
    BY <2>1, <2>2, <2>3 DEF Shells, LabwcInv, LabwcTypes
  <2>5. LabwcTypes'
    BY <2>1, <2>2, <2>3, <2>4 DEF LabwcInv, LabwcTypes
  <2> QED BY <2>2, <2>4, <2>5 DEF LabwcInv, BridgeIsBuilt, OneSocket, AppIsFound
<1> QED BY <1>1, <1>2

LEMMA EndsStep ==
  ASSUME LabwcInv,
         \/ Labwc!EngineDies \/ Labwc!LabwcDies \/ Labwc!BridgeDies \/ Labwc!OtherComes
         \/ Labwc!OtherLeaves
  PROVE  LabwcInv'
<1> USE DEF Labwc!found, Labwc!ghosts
<1>1. CASE Labwc!EngineDies
  <2>1. selkies' = [Labwc!NoEngine EXCEPT !.st = "dead"] /\ shell' = Labwc!Orphan(selkies.at)
    BY <1>1 DEF Labwc!EngineDies
  <2>2. selkies' \in Engines /\ selkies'.st = "dead"
    BY <2>1 DEF Engines, Labwc!NoEngine
  <2>3. shell' \in Shells /\ (shell'.st = "up" => shell' = shell)
    BY <2>1, OrphanFacts DEF LabwcInv, LabwcTypes
  <2>4. UNCHANGED <<pass, index, bridge, seatSocket, appSocket, fresh, mixed, missed>>
    BY <1>1 DEF Labwc!EngineDies
  <2>5. LabwcTypes'
    BY <2>2, <2>3, <2>4 DEF LabwcInv, LabwcTypes
  <2> QED BY <2>2, <2>3, <2>4, <2>5, LabwcQuiet
<1>2. CASE Labwc!LabwcDies
  <2>1. shell' \in Shells /\ shell'.st = "dead"
    BY <1>2 DEF Labwc!LabwcDies, Labwc!NoShell, Shells
  <2>2. UNCHANGED <<pass, index, selkies, bridge, seatSocket, appSocket, fresh, mixed, missed>>
    BY <1>2 DEF Labwc!LabwcDies
  <2>3. LabwcTypes'
    BY <2>1, <2>2 DEF LabwcInv, LabwcTypes
  <2> QED BY <2>1, <2>2, <2>3, LabwcQuiet
<1>3. CASE Labwc!BridgeDies
  <2>1. bridge' \in Bridges /\ bridge'.st = "dead"
    BY <1>3 DEF Labwc!BridgeDies, Bridges, LabwcInv, LabwcTypes
  <2>2. UNCHANGED <<pass, index, selkies, shell, seatSocket, appSocket, fresh, mixed, missed>>
    BY <1>3 DEF Labwc!BridgeDies
  <2>3. LabwcTypes'
    BY <2>1, <2>2 DEF LabwcInv, LabwcTypes
  <2> QED BY <2>1, <2>2, <2>3 DEF LabwcInv, BridgeIsBuilt, OneSocket, AppIsFound
<1>4. CASE Labwc!OtherComes
  <2>1. PICK s \in Labwc!Lowest(Labwc!Free) : fresh' = fresh \cup {s}
    BY <1>4 DEF Labwc!OtherComes
  <2>2. s \in Labwc!Slots
    BY SlotFacts DEF Labwc!Free
  <2>3. UNCHANGED <<pass, index, selkies, shell, bridge, seatSocket, appSocket, mixed, missed>>
    BY <1>4 DEF Labwc!OtherComes
  <2>4. LabwcTypes'
    BY <2>1, <2>2, <2>3 DEF LabwcInv, LabwcTypes
  <2> QED BY <2>3, <2>4, LabwcQuiet
<1>5. CASE Labwc!OtherLeaves
  <2>1. PICK s : shell' = Labwc!Orphan(s)
    BY <1>5 DEF Labwc!OtherLeaves
  <2>2. shell' \in Shells /\ (shell'.st = "up" => shell' = shell)
    BY <2>1, OrphanFacts DEF LabwcInv, LabwcTypes
  <2>3. UNCHANGED <<pass, index, selkies, bridge, seatSocket, appSocket, fresh, mixed, missed>>
    BY <1>5 DEF Labwc!OtherLeaves
  <2>4. LabwcTypes'
    BY <2>2, <2>3 DEF LabwcInv, LabwcTypes
  <2> QED BY <2>2, <2>3, <2>4, LabwcQuiet
<1> QED BY <1>1, <1>2, <1>3, <1>4, <1>5

LEMMA PassStep ==
  ASSUME LabwcInv,
         \/ Labwc!StartSelkies \/ Labwc!Runs \/ Labwc!SeekFails \/ Labwc!Wait \/ Labwc!RestartEngine
  PROVE  LabwcInv'
<1> USE DEF Labwc!found, Labwc!ghosts
<1>1. CASE Labwc!StartSelkies
  <2>1. /\ pass' = "seek" /\ seatSocket' = 0 /\ appSocket' = 0 /\ bridge' = Labwc!NoBridge
        /\ selkies' = [st |-> "up", index |-> index, at |-> 0]
        /\ fresh' = {} /\ mixed' = FALSE /\ missed' = FALSE /\ UNCHANGED <<index, shell>>
    BY <1>1 DEF Labwc!StartSelkies
  <2>2. selkies' \in Engines /\ selkies'.index = index
    BY <2>1 DEF Engines, LabwcInv, LabwcTypes
  <2>3. bridge' \in Bridges /\ bridge'.st = "none"
    BY <2>1 DEF Bridges, Labwc!NoBridge
  <2>4. LabwcTypes'
    BY <2>1, <2>2, <2>3 DEF LabwcInv, LabwcTypes, Passes
  <2> QED BY <2>1, <2>2, <2>3, <2>4 DEF LabwcInv, BridgeIsBuilt, OneSocket, AppIsFound
<1>2. CASE Labwc!Runs
  BY <1>2 DEF Labwc!Runs, LabwcInv, LabwcTypes, Passes, BridgeIsBuilt, OneSocket, AppIsFound
<1>3. CASE Labwc!SeekFails
  BY <1>3 DEF Labwc!SeekFails, LabwcInv, LabwcTypes, Passes, BridgeIsBuilt, OneSocket, AppIsFound
<1>4. CASE Labwc!Wait
  BY <1>4 DEF Labwc!Wait, LabwcInv, LabwcTypes, Passes, BridgeIsBuilt, OneSocket, AppIsFound
<1>5. CASE Labwc!RestartEngine
  <2>1. /\ selkies' \in Engines /\ shell' \in Shells /\ bridge' \in Bridges
        /\ selkies'.st = "none" /\ bridge'.st = "none" /\ pass' = "start"
    BY <1>5 DEF Labwc!RestartEngine, Engines, Shells, Bridges, Labwc!NoEngine, Labwc!NoShell, Labwc!NoBridge
  <2>2. UNCHANGED <<index, seatSocket, appSocket, fresh, mixed, missed>>
    BY <1>5 DEF Labwc!RestartEngine
  <2>3. LabwcTypes'
    BY <2>1, <2>2 DEF LabwcInv, LabwcTypes, Passes
  <2> QED BY <2>1, <2>2, <2>3 DEF LabwcInv, BridgeIsBuilt, OneSocket, AppIsFound
<1> QED BY <1>1, <1>2, <1>3, <1>4, <1>5

LEMMA CheckStep == ASSUME LabwcInv, Labwc!Check PROVE LabwcInv'
<1>1. CASE Labwc!StartShell("rehunt", {})
  BY <1>1, StartShellStep DEF Labwc!Check
<1>2. CASE pass' = "bridge" /\ UNCHANGED <<index, selkies, shell, bridge, seatSocket, appSocket, fresh, mixed, missed>>
  BY <1>2 DEF Labwc!Check, LabwcInv, LabwcTypes, Passes, BridgeIsBuilt, OneSocket, AppIsFound
<1> QED BY <1>1, <1>2 DEF Labwc!Check, Labwc!found, Labwc!ghosts

LEMMA LabwcStep == LabwcInv /\ [Labwc!Next]_(Labwc!labwcVars) => LabwcInv'
<1> SUFFICES ASSUME LabwcInv, [Labwc!Next]_(Labwc!labwcVars) PROVE LabwcInv'
  OBVIOUS
<1>1. CASE UNCHANGED Labwc!labwcVars
  BY <1>1 DEF Labwc!labwcVars, Labwc!found, Labwc!ghosts, LabwcInv, LabwcTypes, BridgeIsBuilt,
              OneSocket, AppIsFound
<1>2. CASE Labwc!Shell
  BY <1>2, StartShellStep DEF Labwc!Shell, LabwcInv, LabwcTypes
<1>3. CASE Labwc!Hunts
  BY <1>3, HuntStep, HuntFailsStep DEF Labwc!Hunts
<1> QED BY <1>1, <1>2, <1>3, SeekStep, BridgeStep, BindsStep, EndsStep, PassStep, CheckStep DEF Labwc!Next

LEMMA LabwcGives == LabwcInv => Labwc!SeatIsWhole
BY DEF LabwcInv, LabwcTypes, BridgeIsBuilt, OneSocket, AppIsFound, Labwc!SeatIsWhole

-----------------------------------------------------------------------------
(* RelayMeter.  A connected page's session is as old as its streak, or has *)
(* reached its limit; it is kept as long as the streak can go on.          *)

Sessions == [age : Nat, quiet : Nat, gone : Nat, last : Nat, dead : BOOLEAN, known : BOOLEAN]

\* What the streak n of a page says of its session
AgesWith(s, n) == n > 0 => s.known = TRUE /\ (s.age >= MaxAge \/ n <= s.age)

CutInv ==
  /\ session \in [Pages -> Sessions] /\ streak \in [Pages -> Nat] /\ sent \in [Pages -> Nat]
  /\ \A p \in Pages :
       /\ AgesWith(session[p], streak[p])
       /\ p \in open => session[p].known = TRUE /\ session[p].age < MaxAge
       /\ p \notin open /\ streak[p] > 0 => session[p].gone <= Grace

LEMMA FreshFacts ==
  /\ Relay!NoSession \in Sessions /\ Relay!NoSession.known = FALSE
  /\ Relay!Fresh \in Sessions /\ Relay!Fresh.known = TRUE /\ Relay!Fresh.age = 0
<1>1. Relay!NoSession \in Sessions /\ Relay!NoSession.known = FALSE /\ Relay!NoSession.age = 0
  BY DEF Relay!NoSession, Sessions
<1>2. Relay!Fresh = [Relay!NoSession EXCEPT !.known = TRUE]
  BY DEF Relay!Fresh
<1> QED BY <1>1, <1>2 DEF Sessions

LEMMA CutStart == Relay!Init => CutInv
<1> SUFFICES ASSUME Relay!Init PROVE CutInv
  OBVIOUS
<1> QED BY FreshFacts DEF Relay!Init, CutInv, AgesWith

LEMMA ConnectStep ==
  ASSUME CutInv, NEW p \in Pages, Relay!Connect(p)
  PROVE  CutInv'
<1> DEFINE kept == IF Relay!Kept[p].known THEN Relay!Kept[p] ELSE Relay!Fresh
           cut == [kept EXCEPT !.dead = TRUE, !.gone = 0]
<1>1. /\ p \notin open /\ UNCHANGED <<sent, streak>>
      /\ \/ Relay!Expired(kept) /\ open' = open /\ session' = [Relay!Kept EXCEPT ![p] = cut]
         \/ ~Relay!Expired(kept) /\ open' = open \cup {p} /\ session' = [Relay!Kept EXCEPT ![p] = kept]
  BY DEF Relay!Connect
<1>2. Relay!Kept \in [Pages -> Sessions]
  BY FreshFacts DEF Relay!Kept, CutInv
<1>3. ASSUME NEW q \in Pages
      PROVE  /\ q \in open \/ streak[q] > 0 => Relay!Kept[q] = session[q]
  BY <1>3, LimitsAssumption DEF Relay!Kept, Relay!Purged, CutInv, Sessions
<1>4. kept \in Sessions /\ kept.known = TRUE /\ (streak[p] > 0 => kept = session[p])
  BY <1>2, <1>3, FreshFacts DEF Sessions, CutInv, AgesWith
<1> HIDE DEF kept
<1>5. cut \in Sessions /\ cut.known = TRUE /\ cut.age = kept.age /\ cut.gone = 0
  BY <1>4 DEF Sessions
<1>6. ~Relay!Expired(kept) => kept.age < MaxAge
  BY <1>4, LimitsAssumption DEF Relay!Expired, Sessions
<1> HIDE DEF cut
<1>7. session' \in [Pages -> Sessions] /\ \A q \in Pages : q # p => session'[q] = Relay!Kept[q]
  BY <1>1, <1>2, <1>4, <1>5
<1>8. \/ open' = open /\ session'[p] = cut
      \/ open' = open \cup {p} /\ session'[p] = kept /\ kept.age < MaxAge
  BY <1>1, <1>2, <1>6
<1>9. ASSUME NEW q \in Pages
      PROVE  /\ AgesWith(session'[q], streak[q])
             /\ q \in open' => session'[q].known = TRUE /\ session'[q].age < MaxAge
             /\ q \notin open' /\ streak[q] > 0 => session'[q].gone <= Grace
  <2>1. CASE q = p
    BY <1>1, <1>4, <1>5, <1>8, <2>1, LimitsAssumption DEF CutInv, AgesWith
  <2>2. CASE q # p
    BY <1>3, <1>7, <1>8, <2>2 DEF CutInv, AgesWith
  <2> QED BY <2>1, <2>2
<1> QED BY <1>1, <1>7, <1>9 DEF CutInv

LEMMA CreditedFacts ==
  ASSUME NEW s \in Sessions, NEW n \in Nat, NEW z \in Nat, NEW c, c = [s EXCEPT !.quiet = z, !.last = n]
  PROVE  c \in Sessions
BY DEF Sessions

LEMMA DeadFacts ==
  ASSUME NEW s \in Sessions, NEW d \in BOOLEAN, NEW z \in Nat, NEW c, c = [s EXCEPT !.dead = d, !.gone = z]
  PROVE  c \in Sessions
BY DEF Sessions

LEMMA OlderFacts ==
  ASSUME NEW s \in Sessions
  PROVE  LET o == Relay!Older(s)
         IN  /\ o \in Sessions /\ (s.known = TRUE => o.known = TRUE)
             /\ o.age >= MaxAge \/ o.age = s.age + 1
<1> DEFINE a == IF s.age < MaxAge THEN s.age + 1 ELSE s.age
           q == IF s.quiet < IdleFor THEN s.quiet + 1 ELSE s.quiet
           o == Relay!Older(s)
<1>1. s.age \in Nat /\ s.quiet \in Nat
  BY DEF Sessions
<1>2. a \in Nat /\ q \in Nat /\ (a >= MaxAge \/ a = s.age + 1)
  BY <1>1, LimitsAssumption
<1>3. o = [s EXCEPT !.age = a, !.quiet = q]
  BY DEF Relay!Older
<1> HIDE DEF a, q, o
<1>4. o \in Sessions
  BY <1>2, <1>3 DEF Sessions
<1>5. o.age = a /\ (s.known = TRUE => o.known = TRUE)
  BY <1>2, <1>3 DEF Sessions
<1> QED BY <1>2, <1>4, <1>5 DEF o

\* What a second makes of the session of a page
LEMMA SecondFacts ==
  ASSUME CutInv, NEW p \in Pages
  PROVE  /\ Relay!Second(p) \in Sessions
         /\ p \in open =>
              /\ Relay!Second(p).known = TRUE
              /\ Relay!Second(p).age >= MaxAge \/ Relay!Second(p).age = session[p].age + 1
              /\ ~Relay!Second(p).dead => Relay!Second(p).age < MaxAge
              /\ Relay!Second(p).gone = 0
         /\ p \notin open /\ session[p].known = TRUE =>
              /\ Relay!Second(p).known = TRUE
              /\ Relay!Second(p).age >= MaxAge \/ Relay!Second(p).age = session[p].age + 1
<1> DEFINE s == session[p]
           o == Relay!Older(s)
<1>1. s \in Sessions
  BY DEF CutInv
<1>3. /\ o \in Sessions /\ (s.known = TRUE => o.known = TRUE)
      /\ o.age >= MaxAge \/ o.age = s.age + 1
  BY <1>1, OlderFacts
<1> HIDE DEF s, o
<1>4. CASE p \in open
  <2>1. Relay!Second(p) = [o EXCEPT !.dead = Relay!Expired(o), !.gone = 0]
    BY <1>4 DEF Relay!Second, o, s
  <2>2. Relay!Expired(o) \in BOOLEAN /\ (o.age >= MaxAge => Relay!Expired(o))
    BY DEF Relay!Expired
  <2>3. s.known = TRUE
    BY <1>4 DEF CutInv, s
  <2> DEFINE e == Relay!Expired(o)
  <2>7. o.known = TRUE /\ e \in BOOLEAN /\ Relay!Second(p) = [o EXCEPT !.dead = e, !.gone = 0]
    BY <1>3, <2>1, <2>2, <2>3
  <2> HIDE DEF e
  <2>8. Relay!Second(p) \in Sessions
    BY <1>3, <2>7, DeadFacts
  <2>9. Relay!Second(p).age = o.age /\ Relay!Second(p).gone = 0
    BY <1>3, <2>7 DEF Sessions
  <2>10. Relay!Second(p).known = TRUE
    BY <1>3, <2>7, Zenon DEF Sessions
  <2>4. /\ Relay!Second(p) \in Sessions /\ Relay!Second(p).known = TRUE /\ Relay!Second(p).age = o.age
        /\ Relay!Second(p).gone = 0
    BY <2>8, <2>9, <2>10
  <2> USE DEF e
  <2>5. Relay!Second(p).dead = Relay!Expired(o)
    BY <1>3, <2>1 DEF Sessions
  <2>6. ~Relay!Second(p).dead => o.age < MaxAge
    BY <1>3, <2>2, <2>5, LimitsAssumption DEF Sessions
  <2> QED BY <1>3, <1>4, <2>4, <2>6 DEF s
<1>5. CASE p \notin open /\ s.known = TRUE
  <2>1. Relay!Second(p) = [o EXCEPT !.gone = IF o.gone <= Grace THEN o.gone + 1 ELSE o.gone]
    BY <1>5 DEF Relay!Second, o, s
  <2> QED BY <1>3, <1>5, <2>1 DEF Sessions, s
<1>6. CASE p \notin open /\ ~s.known
  <2>1. Relay!Second(p) = Relay!NoSession
    BY <1>6 DEF Relay!Second, s
  <2> QED BY <1>6, <2>1, FreshFacts DEF s
<1> QED BY <1>1, <1>4, <1>5, <1>6 DEF Sessions

LEMMA TickStep == ASSUME CutInv, Relay!Tick PROVE CutInv'
<1>1. /\ session' = [p \in Pages |-> Relay!Second(p)] /\ sent' = sent
      /\ open' = {p \in open : ~Relay!Second(p).dead}
      /\ streak' = [p \in Pages |->
            IF p \in open \/ (streak[p] > 0 /\ Relay!Second(p).gone <= Grace) THEN streak[p] + 1 ELSE 0]
  BY DEF Relay!Tick
<1>2. session' \in [Pages -> Sessions]
  BY <1>1, SecondFacts
<1>3. streak' \in [Pages -> Nat]
  BY <1>1 DEF CutInv
<1>4. ASSUME NEW p \in Pages
      PROVE  /\ AgesWith(session'[p], streak'[p])
             /\ p \in open' => session'[p].known = TRUE /\ session'[p].age < MaxAge
             /\ p \notin open' /\ streak'[p] > 0 => session'[p].gone <= Grace
  <2>1. /\ session'[p] = Relay!Second(p)
        /\ streak'[p] = IF p \in open \/ (streak[p] > 0 /\ Relay!Second(p).gone <= Grace)
                        THEN streak[p] + 1 ELSE 0
        /\ streak[p] \in Nat /\ session[p] \in Sessions /\ AgesWith(session[p], streak[p])
    BY <1>1 DEF CutInv
  <2>2. CASE p \in open
    <3>1. streak'[p] = streak[p] + 1 /\ (p \in open' <=> ~Relay!Second(p).dead)
      BY <1>1, <2>1, <2>2
    <3>2. /\ Relay!Second(p).known = TRUE /\ Relay!Second(p).gone = 0
          /\ Relay!Second(p).age >= MaxAge \/ Relay!Second(p).age = session[p].age + 1
          /\ ~Relay!Second(p).dead => Relay!Second(p).age < MaxAge
      BY <2>2, SecondFacts
    <3>3. AgesWith(Relay!Second(p), streak[p] + 1)
      <4>1. streak[p] > 0 => session[p].age >= MaxAge \/ streak[p] <= session[p].age
        BY <2>1 DEF AgesWith
      <4>2. session[p].age \in Nat /\ Relay!Second(p).age \in Nat
        BY <2>1, SecondFacts DEF Sessions
      <4>3. Relay!Second(p).age >= MaxAge \/ streak[p] + 1 <= Relay!Second(p).age
        BY <2>1, <3>2, <4>1, <4>2, LimitsAssumption
      <4> QED BY <3>2, <4>3 DEF AgesWith
    <3> QED BY <2>1, <2>2, <3>1, <3>2, <3>3, LimitsAssumption
  <2>3. CASE p \notin open /\ streak[p] > 0 /\ Relay!Second(p).gone <= Grace
    <3>1. streak'[p] = streak[p] + 1 /\ p \notin open'
      BY <1>1, <2>1, <2>3
    <3>3. /\ Relay!Second(p).known = TRUE
          /\ Relay!Second(p).age >= MaxAge \/ Relay!Second(p).age = session[p].age + 1
      BY <2>1, <2>3, SecondFacts DEF AgesWith
    <3>2. AgesWith(Relay!Second(p), streak[p] + 1)
      <4>1. session[p].age >= MaxAge \/ streak[p] <= session[p].age
        BY <2>1, <2>3 DEF AgesWith
      <4>2. session[p].age \in Nat /\ Relay!Second(p).age \in Nat
        BY <2>1, SecondFacts DEF Sessions
      <4>3. Relay!Second(p).age >= MaxAge \/ streak[p] + 1 <= Relay!Second(p).age
        BY <2>1, <3>3, <4>1, <4>2, LimitsAssumption
      <4> QED BY <3>3, <4>3 DEF AgesWith
    <3> QED BY <2>1, <2>3, <3>1, <3>2
  <2>4. CASE p \notin open /\ ~(streak[p] > 0 /\ Relay!Second(p).gone <= Grace)
    BY <1>1, <2>1, <2>4 DEF AgesWith
  <2> QED BY <2>2, <2>3, <2>4
<1> QED BY <1>1, <1>2, <1>3, <1>4 DEF CutInv

LEMMA BeaconStep == ASSUME CutInv, NEW p \in Pages, Relay!Beacon(p) PROVE CutInv'
<1>1. /\ session' = [session EXCEPT ![p] = Relay!Credited(session[p], sent[p])]
      /\ UNCHANGED <<sent, open, streak>>
  BY DEF Relay!Beacon
<1>2. /\ session[p] \in Sessions /\ sent[p] \in Nat
      /\ Relay!Credited(session[p], sent[p]) = [session[p] EXCEPT !.quiet = 0, !.last = sent[p]]
  BY DEF CutInv, Relay!Credited
<1>4. /\ Relay!Credited(session[p], sent[p]).age = session[p].age
      /\ Relay!Credited(session[p], sent[p]).gone = session[p].gone
  BY <1>2 DEF Sessions
<1>5. session[p].known = TRUE => Relay!Credited(session[p], sent[p]).known = TRUE
  BY <1>2, Zenon DEF Sessions
<1>6. Relay!Credited(session[p], sent[p]) \in Sessions
  BY <1>2, CreditedFacts
<1>3. /\ Relay!Credited(session[p], sent[p]) \in Sessions
      /\ session[p].known = TRUE => Relay!Credited(session[p], sent[p]).known = TRUE
      /\ Relay!Credited(session[p], sent[p]).age = session[p].age
      /\ Relay!Credited(session[p], sent[p]).gone = session[p].gone
  BY <1>4, <1>5, <1>6
<1> QED BY <1>1, <1>3 DEF CutInv, AgesWith

LEMMA DisconnectStep == ASSUME CutInv, NEW p \in Pages, Relay!Disconnect(p) PROVE CutInv'
<1>1. /\ session' = [session EXCEPT ![p].gone = 0] /\ open' = open \ {p} /\ UNCHANGED <<sent, streak>>
  BY DEF Relay!Disconnect
<1>2. session[p] \in Sessions
  BY DEF CutInv
<1>3. /\ [session[p] EXCEPT !.gone = 0] \in Sessions
      /\ [session[p] EXCEPT !.gone = 0].known = session[p].known
      /\ [session[p] EXCEPT !.gone = 0].age = session[p].age
      /\ [session[p] EXCEPT !.gone = 0].gone = 0
  BY <1>2 DEF Sessions
<1> QED BY <1>1, <1>3, LimitsAssumption DEF CutInv, AgesWith

LEMMA EndedStep == ASSUME CutInv, Relay!GatewayEnds PROVE CutInv'
BY FreshFacts DEF Relay!GatewayEnds, CutInv, AgesWith

LEMMA CutStep == CutInv /\ [Relay!Next]_(Relay!relayVars) => CutInv'
<1> SUFFICES ASSUME CutInv, [Relay!Next]_(Relay!relayVars) PROVE CutInv'
  OBVIOUS
<1> USE DEF Relay!gatewayVars, Relay!meterVars
<1>1. CASE UNCHANGED Relay!relayVars
  BY <1>1 DEF Relay!relayVars, CutInv
<1>2. ASSUME NEW p \in Pages, Relay!Relay(p) PROVE CutInv'
  BY <1>2 DEF Relay!Relay, CutInv
<1>3. CASE Relay!GatewayUp \/ Relay!Heartbeat \/ Relay!Arrives \/ Relay!Lost
  BY <1>3 DEF Relay!GatewayUp, Relay!Heartbeat, Relay!Arrives, Relay!Lost, CutInv
<1>4. CASE Relay!GatewayRestarts \/ Relay!AgentRestarts
  BY <1>4, EndedStep DEF Relay!GatewayRestarts, Relay!AgentRestarts
<1> QED BY <1>1, <1>2, <1>3, <1>4, ConnectStep, DisconnectStep, BeaconStep, TickStep DEF Relay!Next

LEMMA CutGives == CutInv => SessionIsCut
<1> SUFFICES ASSUME CutInv, NEW p \in Pages, p \in open PROVE streak[p] <= MaxAge
  BY DEF SessionIsCut, Relay!SessionIsCut
<1>1. session[p] \in Sessions /\ streak[p] \in Nat
  BY DEF CutInv
<1> QED BY <1>1, LimitsAssumption DEF CutInv, AgesWith, Sessions

\* A load of the page that loses its socket and reconnects as often as it likes is connected for
\* no longer than the limit of a session (agent/gateway_webrtc.py expired, _purge).
THEOREM SessionsAreCut == Relay!Spec => []SessionIsCut
<1>1. Relay!Spec => []CutInv
  BY CutStart, CutStep, PTL DEF Relay!Spec
<1> QED BY <1>1, CutGives, PTL

-----------------------------------------------------------------------------
(* RelayMeter.  Nothing was counted, is on its way to be, or will be at    *)
(* the next heartbeat, but what some session has credited or has been      *)
(* credited to one that was forgotten.  A sum over the pages is the size   *)
(* of a set of units.                                                      *)

LEMMA RelayCount == \A S : Relay!Cardinality(S) = Cardinality(S)
BY Zenon DEF Relay!Cardinality, Cardinality

LEMMA UnitsFinite ==
  ASSUME NEW S \in SUBSET Pages, NEW f
  PROVE  IsFiniteSet(Relay!Units(f, S)) /\ Cardinality(Relay!Units(f, S)) \in Nat
<1>1. IsFiniteSet(S) /\ IsFiniteSet(1 .. MaxRelay)
  BY PagesAssumption, FS_Subset, FS_Interval
<1>2. IsFiniteSet(S \X (1 .. MaxRelay))
  BY <1>1, FS_Product
<1>3. Relay!Units(f, S) \in SUBSET (S \X (1 .. MaxRelay))
  BY DEF Relay!Units
<1> QED BY <1>2, <1>3, FS_Subset, FS_CardinalityType

LEMMA NoMoreUnits ==
  ASSUME NEW f \in [Pages -> Nat], NEW g \in [Pages -> Nat], \A p \in Pages : f[p] <= g[p]
  PROVE  Cardinality(Relay!Units(f, Pages)) <= Cardinality(Relay!Units(g, Pages))
<1>1. Relay!Units(f, Pages) \in SUBSET Relay!Units(g, Pages)
  BY PagesAssumption DEF Relay!Units
<1> QED BY <1>1, UnitsFinite, FS_Subset

\* The units of the pages S leave with their counters.
LEMMA UnitsLeave ==
  ASSUME NEW S \in SUBSET Pages, NEW f \in [Pages -> Nat], NEW g \in [Pages -> Nat],
         \A p \in Pages : g[p] = IF p \in S THEN 0 ELSE f[p]
  PROVE  Cardinality(Relay!Units(f, Pages))
           = Cardinality(Relay!Units(g, Pages)) + Cardinality(Relay!Units(f, S))
<1> DEFINE A == Relay!Units(g, Pages)
           B == Relay!Units(f, S)
<1>1. ASSUME NEW u PROVE u \in Relay!Units(f, Pages) <=> u \in A \/ u \in B
  BY PagesAssumption DEF Relay!Units
<1>2. A \cap B = {}
  BY PagesAssumption DEF Relay!Units
<1>3. Relay!Units(f, Pages) = A \cup B
  BY <1>1
<1>4. /\ IsFiniteSet(A) /\ IsFiniteSet(B) /\ Cardinality(A) \in Nat /\ Cardinality(B) \in Nat
      /\ Cardinality({}) = 0
  BY UnitsFinite, FS_EmptySet
<1> HIDE DEF A, B
<1>5. Cardinality(A \cup B) = Cardinality(A) + Cardinality(B) - Cardinality(A \cap B)
  BY <1>4, FS_Union
<1> QED BY <1>2, <1>3, <1>4, <1>5 DEF A, B

\* The counter of one page goes up to n.
LEMMA UnitsCome ==
  ASSUME NEW p \in Pages, NEW f \in [Pages -> Nat], NEW n \in Nat, n <= MaxRelay, f[p] <= n
  PROVE  Cardinality(Relay!Units([f EXCEPT ![p] = n], Pages))
           = Cardinality(Relay!Units(f, Pages)) + n - f[p]
<1> DEFINE g == [f EXCEPT ![p] = n]
           A == Relay!Units(f, Pages)
           B == {p} \X (f[p] + 1 .. n)
<1>1. g \in [Pages -> Nat] /\ \A q \in Pages : g[q] = IF q = p THEN n ELSE f[q]
  OBVIOUS
<1> HIDE DEF g
<1>2. ASSUME NEW u PROVE u \in Relay!Units(g, Pages) <=> u \in A \/ u \in B
  BY <1>1, PagesAssumption DEF Relay!Units
<1>3. A \cap B = {}
  BY PagesAssumption DEF Relay!Units
<1>4. Relay!Units(g, Pages) = A \cup B
  BY <1>2
<1> DEFINE a == f[p] + 1
           I == a .. n
<1>9. a \in Int /\ n \in Int /\ n - a + 1 = n - f[p] /\ n - f[p] \in Nat /\ (a > n => n - f[p] = 0)
  OBVIOUS
<1>10. IsFiniteSet({p}) /\ Cardinality({p}) = 1
  BY FS_Singleton
<1> HIDE DEF a
<1>11. IsFiniteSet(I) /\ Cardinality(I) = IF a > n THEN 0 ELSE n - a + 1
  BY <1>9, FS_Interval
<1>5. IsFiniteSet(I) /\ Cardinality(I) = n - f[p]
  BY <1>9, <1>11
<1> HIDE DEF I
<1>12. IsFiniteSet({p} \X I) /\ Cardinality({p} \X I) = 1 * Cardinality(I)
  BY <1>5, <1>10, FS_Product
<1>6. IsFiniteSet(B) /\ Cardinality(B) = n - f[p] /\ n - f[p] \in Nat /\ f[p] \in Nat
  BY <1>5, <1>9, <1>12 DEF a, I
<1>7. IsFiniteSet(A) /\ Cardinality(A) \in Nat /\ Cardinality({}) = 0
  BY UnitsFinite, FS_EmptySet
<1> HIDE DEF A, B
<1>8. Cardinality(A \cup B) = Cardinality(A) + Cardinality(B) - Cardinality(A \cap B)
  BY <1>6, <1>7, FS_Union
<1>13. Cardinality(Relay!Units(g, Pages)) = Cardinality(A) + (n - f[p])
  <2>1. Cardinality(A \cap B) = 0
    BY <1>3, <1>7
  <2>2. Cardinality(A \cup B) = Cardinality(A) + Cardinality(B) - 0
    BY <1>8, <2>1
  <2>3. Cardinality(A) \in Nat /\ Cardinality(B) \in Nat /\ Cardinality(B) = n - f[p]
    BY <1>6, <1>7
  <2>4. Cardinality(A \cup B) = Cardinality(A) + Cardinality(B)
    BY <2>2, <2>3
  <2> QED BY <1>4, <2>3, <2>4
<1>14. Cardinality(Relay!Units(g, Pages)) = Cardinality(A) + n - f[p]
  BY <1>6, <1>7, <1>13
<1> QED BY <1>14 DEF A, g

Last == [p \in Pages |-> session[p].last]
Credit == Cardinality(Relay!Units(Last, Pages))

MeterInv ==
  /\ session \in [Pages -> Sessions] /\ sent \in [Pages -> Nat]
  /\ total \in Nat /\ file \in Nat /\ seen \in Nat /\ beat \in Nat /\ metered \in Nat /\ again \in Nat
  /\ gateway = "up" => file = total
  /\ gateway = "starting" => total = 0
  /\ gateway \in {"up", "starting"} /\ (open # {} => gateway = "up")
  /\ \A p \in Pages : /\ session[p].last <= sent[p] /\ sent[p] <= MaxRelay
                      /\ session[p].known # TRUE => session[p].last = 0
                      /\ p \in open => session[p].known = TRUE
  /\ metered + beat + Relay!Delta <= Credit + again

\* What an action leaves of the counters, and of what is still to come.
LEMMA DeltaFacts ==
  ASSUME MeterInv
  PROVE  /\ Relay!Delta \in Nat /\ Relay!Delta <= file /\ Credit \in Nat
         /\ Last \in [Pages -> Nat] /\ \A p \in Pages : Last[p] = session[p].last
         /\ total \in Nat /\ file \in Nat /\ seen \in Nat /\ beat \in Nat /\ metered \in Nat
         /\ again \in Nat /\ metered + beat + Relay!Delta <= Credit + again
<1>1. Last \in [Pages -> Nat] /\ \A p \in Pages : Last[p] = session[p].last
  BY DEF Last, MeterInv, Sessions
<1>2. Relay!Delta \in Nat /\ Relay!Delta <= file
  BY DEF Relay!Delta, MeterInv
<1> QED BY <1>1, <1>2, UnitsFinite DEF Credit, MeterInv

LEMMA MeterStart == Relay!Init => MeterInv
<1> SUFFICES ASSUME Relay!Init PROVE MeterInv
  OBVIOUS
<1>1. /\ session = [p \in Pages |-> Relay!NoSession] /\ sent = [p \in Pages |-> 0] /\ open = {}
      /\ total = 0 /\ file = 0 /\ seen = 0 /\ beat = 0 /\ metered = 0 /\ again = 0 /\ gateway = "up"
  BY DEF Relay!Init
<1>2. Relay!NoSession \in Sessions /\ Relay!NoSession.last = 0
  BY FreshFacts DEF Relay!NoSession
<1>3. Relay!Delta = 0
  BY <1>1 DEF Relay!Delta
<1>4. Credit \in Nat
  BY UnitsFinite DEF Credit
<1>5. metered + beat + Relay!Delta <= Credit + again
  BY <1>1, <1>3, <1>4
<1>6. \A p \in Pages : /\ session[p].last = 0 /\ sent[p] = 0 /\ p \notin open
  BY <1>1, <1>2
<1>7. session \in [Pages -> Sessions] /\ sent \in [Pages -> Nat]
  BY <1>1, <1>2
<1>8. \A p \in Pages : /\ session[p].last <= sent[p] /\ sent[p] <= MaxRelay
                       /\ session[p].known # TRUE => session[p].last = 0
                       /\ p \in open => session[p].known = TRUE
  <2>1. 0 <= 0 /\ 0 <= MaxRelay
    BY PagesAssumption
  <2>2. \A p \in Pages : session[p].last <= sent[p] /\ sent[p] <= MaxRelay
    BY <1>6, <2>1
  <2> QED BY <1>6, <2>2
<1> QED BY <1>1, <1>5, <1>7, <1>8 DEF MeterInv

LEMMA ConnectMeters ==
  ASSUME MeterInv, NEW p \in Pages, Relay!Connect(p)
  PROVE  MeterInv'
<1> DEFINE kept == IF Relay!Kept[p].known THEN Relay!Kept[p] ELSE Relay!Fresh
           cut == [kept EXCEPT !.dead = TRUE, !.gone = 0]
           purged == {q \in Pages : Relay!Purged(q)}
           lost == Relay!Forgotten(purged)
<1>1. /\ gateway = "up" /\ file' = total /\ again' = again + lost
      /\ open' \in {open, open \cup {p}}
      /\ \/ session' = [Relay!Kept EXCEPT ![p] = cut]
         \/ session' = [Relay!Kept EXCEPT ![p] = kept]
      /\ UNCHANGED <<sent, total, gateway, seen, beat, metered>>
  BY DEF Relay!Connect, Relay!meterVars
<1>2. /\ Relay!NoSession.last = 0 /\ Relay!Fresh.last = 0
  BY DEF Relay!NoSession, Relay!Fresh
<1>3. /\ Relay!Kept \in [Pages -> Sessions]
      /\ \A q \in Pages : Relay!Kept[q] = IF q \in purged THEN Relay!NoSession ELSE session[q]
  BY FreshFacts DEF Relay!Kept, MeterInv
<1>4. /\ kept \in Sessions /\ kept.known = TRUE
      /\ kept.last = IF p \in purged THEN 0 ELSE session[p].last
  BY <1>2, <1>3, FreshFacts DEF MeterInv, Sessions
<1> HIDE DEF kept, purged
<1>5. cut \in Sessions /\ cut.known = TRUE /\ cut.last = kept.last
  BY <1>4 DEF Sessions
<1> HIDE DEF cut
<1>6. PICK s \in {cut, kept} : session' = [Relay!Kept EXCEPT ![p] = s]
  BY <1>1
<1>7. s \in Sessions /\ s.known = TRUE /\ s.last = kept.last
  BY <1>4, <1>5, <1>6
<1>8. /\ session' \in [Pages -> Sessions]
      /\ \A q \in Pages : session'[q] = IF q = p THEN s ELSE Relay!Kept[q]
  BY <1>3, <1>6, <1>7
<1>9. ASSUME NEW q \in Pages
      PROVE  /\ session'[q].last = IF q \in purged THEN 0 ELSE session[q].last
             /\ session'[q].known # TRUE => session'[q].last = 0
             /\ session'[q].last <= sent[q]
             /\ q \in open' => session'[q].known = TRUE
  <2>1. CASE q = p
    <3>1. session'[q].last = kept.last /\ session'[q].known = TRUE
      BY <1>7, <1>8, <2>1
    <3>2. sent[q] \in Nat /\ session[q].last <= sent[q]
      BY DEF MeterInv
    <3>3. session'[q].last = IF q \in purged THEN 0 ELSE session[q].last
      BY <1>4, <2>1, <3>1
    <3>4. session'[q].last <= sent[q]
      BY <3>2, <3>3
    <3> QED BY <3>1, <3>3, <3>4
  <2>2. CASE q # p /\ q \in purged
    <3>1. session'[q].last = 0 /\ q \notin open'
      BY <1>1, <1>2, <1>3, <1>8, <2>2 DEF purged, Relay!Purged
    <3>2. sent[q] \in Nat
      BY DEF MeterInv
    <3>3. session'[q].last <= sent[q]
      BY <3>1, <3>2
    <3> QED BY <2>2, <3>1, <3>3
  <2>3. CASE q # p /\ q \notin purged
    BY <1>1, <1>3, <1>8, <2>3 DEF MeterInv
  <2> QED BY <2>1, <2>2, <2>3
<1>10. Last' \in [Pages -> Nat] /\ \A q \in Pages : Last'[q] = IF q \in purged THEN 0 ELSE Last[q]
  BY <1>8, <1>9 DEF Last, Sessions
<1>11. lost = Cardinality(Relay!Units(Last, purged))
  BY RelayCount DEF Relay!Forgotten, Last
<1>12. purged \in SUBSET Pages
  BY DEF purged
<1>13. Credit = Credit' + lost /\ lost \in Nat /\ Credit' \in Nat
  BY <1>10, <1>11, <1>12, UnitsLeave, UnitsFinite, DeltaFacts DEF Credit
<1> HIDE DEF lost
<1>14. file' = file /\ Relay!Delta' = Relay!Delta
  BY <1>1 DEF MeterInv, Relay!Delta
<1>15. again' \in Nat /\ metered' + beat' + Relay!Delta' <= Credit' + again'
  BY <1>1, <1>13, <1>14, DeltaFacts
<1>16. open' # {} => gateway' = "up"
  BY <1>1
<1> QED BY <1>1, <1>8, <1>9, <1>14, <1>15, <1>16 DEF MeterInv

\* Sessions grow older, not their counters.
LEMMA SameCredit ==
  ASSUME MeterInv, session' \in [Pages -> Sessions],
         \A p \in Pages : session'[p].last = session[p].last
  PROVE  Credit' = Credit
BY DEF Credit, Last

LEMMA DisconnectMeters ==
  ASSUME MeterInv, NEW p \in Pages, Relay!Disconnect(p)
  PROVE  MeterInv'
<1>1. /\ p \in open /\ session' = [session EXCEPT ![p].gone = 0] /\ open' = open \ {p} /\ file' = total
      /\ UNCHANGED <<sent, total, gateway, seen, beat, metered, again>>
  BY DEF Relay!Disconnect, Relay!meterVars
<1>2. session[p] \in Sessions
  BY DEF MeterInv
<1>3. /\ [session[p] EXCEPT !.gone = 0] \in Sessions
      /\ [session[p] EXCEPT !.gone = 0].known = session[p].known
      /\ [session[p] EXCEPT !.gone = 0].last = session[p].last
  BY <1>2 DEF Sessions
<1>4. /\ session' \in [Pages -> Sessions]
      /\ \A q \in Pages : session'[q].last = session[q].last /\ session'[q].known = session[q].known
  BY <1>1, <1>3 DEF MeterInv
<1>5. Credit' = Credit
  BY <1>4, SameCredit
<1>6. file' = file /\ Relay!Delta' = Relay!Delta
  BY <1>1 DEF MeterInv, Relay!Delta
<1> QED BY <1>1, <1>4, <1>5, <1>6 DEF MeterInv

LEMMA BeaconMeters ==
  ASSUME MeterInv, NEW p \in Pages, Relay!Beacon(p)
  PROVE  MeterInv'
<1> DEFINE n == sent[p]
           s == Relay!Credited(session[p], n)
<1>1. PICK counted \in 0 .. n - session[p].last :
        /\ p \in open /\ total' = total + counted /\ file' = total'
        /\ session' = [session EXCEPT ![p] = s]
        /\ UNCHANGED <<sent, open, gateway, seen, beat, metered, again>>
  BY DEF Relay!Beacon, Relay!meterVars
<1>2. n \in Nat /\ n <= MaxRelay /\ session[p] \in Sessions /\ session[p].last <= n
  BY DEF MeterInv
<1>3. s = [session[p] EXCEPT !.quiet = 0, !.last = n]
  BY DEF Relay!Credited
<1> HIDE DEF n, s
<1>4. s \in Sessions
  BY <1>2, <1>3, CreditedFacts
<1>5. s.last = n
  BY <1>2, <1>3 DEF Sessions
<1>6. s.known = session[p].known
  BY <1>2, <1>3, Zenon DEF Sessions
<1>7. session[p].last \in Nat /\ session[p].last <= n
  BY <1>2 DEF Sessions
<1>8. /\ session' \in [Pages -> Sessions]
      /\ \A q \in Pages : session'[q].last = IF q = p THEN n ELSE session[q].last
      /\ \A q \in Pages : session'[q].known = session[q].known
  BY <1>1, <1>4, <1>5, <1>6 DEF MeterInv
<1>9. Last' = [Last EXCEPT ![p] = n] /\ Last[p] = session[p].last
  BY <1>8 DEF Last
<1>10. Credit' = Credit + n - session[p].last
  <2> DEFINE f == Last
  <2>1. f \in [Pages -> Nat] /\ f[p] <= n /\ f[p] = session[p].last
    BY <1>7, <1>9, DeltaFacts
  <2> HIDE DEF f
  <2>2. Cardinality(Relay!Units([f EXCEPT ![p] = n], Pages)) = Cardinality(Relay!Units(f, Pages)) + n - f[p]
    BY <1>2, <2>1, UnitsCome
  <2> QED BY <1>9, <2>1, <2>2 DEF Credit, f
<1>11. gateway = "up" /\ file = total /\ file' = file + counted /\ counted \in Nat
       /\ counted <= n - session[p].last
  BY <1>1, <1>2, <1>7 DEF MeterInv
<1>12. Relay!Delta' <= Relay!Delta + counted
  BY <1>1, <1>11 DEF MeterInv, Relay!Delta
<1>13. Relay!Delta' \in Nat
  BY <1>1, <1>11 DEF MeterInv, Relay!Delta
<1>14. metered' + beat' + Relay!Delta' <= Credit' + again'
  BY <1>1, <1>2, <1>7, <1>10, <1>11, <1>12, <1>13, DeltaFacts
<1>15. \A q \in Pages : session'[q].known # TRUE => session'[q].last = 0
  <2>1. session[p].known = TRUE
    BY <1>1 DEF MeterInv
  <2> QED BY <1>8, <2>1 DEF MeterInv
<1>16. \A q \in Pages : session'[q].last <= sent[q]
  <2> SUFFICES ASSUME NEW q \in Pages PROVE session'[q].last <= sent[q]
    OBVIOUS
  <2>1. session[q].last <= sent[q]
    BY DEF MeterInv
  <2>2. sent[p] = n
    BY DEF n
  <2>3. CASE q = p
    BY <1>2, <1>8, <2>2, <2>3
  <2>4. CASE q # p
    BY <1>8, <2>1, <2>4
  <2> QED BY <2>3, <2>4
<1>17. total' \in Nat /\ file' = total' /\ gateway' = "up"
  BY <1>1, <1>11 DEF MeterInv
<1> QED BY <1>1, <1>8, <1>14, <1>15, <1>16, <1>17 DEF MeterInv

LEMMA TickMeters == ASSUME MeterInv, Relay!Tick PROVE MeterInv'
<1>1. /\ session' = [p \in Pages |-> Relay!Second(p)] /\ open' = {p \in open : ~Relay!Second(p).dead}
      /\ file' = IF open' # open THEN total ELSE file
      /\ UNCHANGED <<sent, total, gateway, seen, beat, metered, again>>
  BY DEF Relay!Tick, Relay!meterVars
<1>2. ASSUME NEW p \in Pages
      PROVE  /\ Relay!Second(p) \in Sessions /\ Relay!Second(p).last = session[p].last
             /\ (session[p].known = TRUE => Relay!Second(p).known = TRUE)
  <2> DEFINE s == session[p]
             o == Relay!Older(s)
             e == Relay!Expired(o)
  <2>1. s \in Sessions /\ (p \in open => s.known = TRUE) /\ (s.known # TRUE => s.last = 0)
    BY DEF MeterInv
  <2>2. o \in Sessions /\ (s.known = TRUE => o.known = TRUE)
    BY <2>1, OlderFacts
  <2>3. o.last = s.last
    BY <2>1 DEF Relay!Older, Sessions
  <2>4. e \in BOOLEAN
    BY DEF Relay!Expired
  <2>5. /\ p \in open => Relay!Second(p) = [o EXCEPT !.dead = e, !.gone = 0]
        /\ p \notin open /\ s.known = TRUE =>
             Relay!Second(p) = [o EXCEPT !.gone = IF o.gone <= Grace THEN o.gone + 1 ELSE o.gone]
        /\ p \notin open /\ s.known # TRUE => Relay!Second(p) = Relay!NoSession
    BY <2>1 DEF Relay!Second, Sessions
  <2> HIDE DEF s, o, e
  <2>6. CASE p \in open
    <3>1. Relay!Second(p) \in Sessions
      BY <2>2, <2>4, <2>5, <2>6, DeadFacts
    <3>2. Relay!Second(p).last = o.last
      BY <2>2, <2>5, <2>6 DEF Sessions
    <3>3. Relay!Second(p).known = o.known
      BY <2>2, <2>5, <2>6, Zenon DEF Sessions
    <3> QED BY <2>2, <2>3, <3>1, <3>2, <3>3 DEF s
  <2>7. CASE p \notin open /\ s.known = TRUE
    BY <2>2, <2>3, <2>5, <2>7 DEF Sessions, s
  <2>8. CASE p \notin open /\ s.known # TRUE
    <3>1. Relay!NoSession.last = 0
      BY DEF Relay!NoSession
    <3> QED BY <2>1, <2>5, <2>8, <3>1, FreshFacts DEF s
  <2> QED BY <2>6, <2>7, <2>8
<1>3. /\ session' \in [Pages -> Sessions]
      /\ \A p \in Pages : session'[p].last = session[p].last
      /\ \A p \in Pages : session[p].known = TRUE => session'[p].known = TRUE
  BY <1>1, <1>2
<1>4. Credit' = Credit
  BY <1>3, SameCredit
<1>5. file' = file
  <2>1. open' # open => open # {}
    BY <1>1
  <2> QED BY <1>1, <2>1 DEF MeterInv
<1>6. Relay!Delta' = Relay!Delta
  BY <1>1, <1>5 DEF Relay!Delta
<1> QED BY <1>1, <1>3, <1>4, <1>5, <1>6 DEF MeterInv

LEMMA EndedMeters ==
  ASSUME MeterInv, Relay!GatewayRestarts \/ Relay!AgentRestarts
  PROVE  MeterInv'
<1>1. /\ gateway' = "starting" /\ open' = {} /\ total' = 0
      /\ session' = [p \in Pages |-> Relay!NoSession]
      /\ UNCHANGED <<sent, file, beat, metered>>
      /\ \/ seen' = seen /\ again' = again + Relay!Forgotten(Pages)
         \/ seen' = 0 /\ again' = again + Relay!Forgotten(Pages) + file
  BY DEF Relay!GatewayRestarts, Relay!AgentRestarts, Relay!GatewayEnds
<1>2. Relay!NoSession \in Sessions /\ Relay!NoSession.last = 0
  BY FreshFacts DEF Relay!NoSession
<1>3. session' \in [Pages -> Sessions] /\ \A p \in Pages : session'[p].last = 0
  BY <1>1, <1>2
<1>4. Relay!Forgotten(Pages) = Credit
  BY RelayCount DEF Relay!Forgotten, Credit, Last
<1>5. Credit' \in Nat
  BY UnitsFinite DEF Credit
<1>8. \A p \in Pages : session'[p].last <= sent[p] /\ sent[p] \in Nat /\ sent[p] <= MaxRelay
  <2> SUFFICES ASSUME NEW p \in Pages PROVE session'[p].last <= sent[p] /\ sent[p] \in Nat /\ sent[p] <= MaxRelay
    OBVIOUS
  <2>1. sent[p] \in Nat /\ sent[p] <= MaxRelay /\ session'[p].last = 0
    BY <1>3 DEF MeterInv
  <2> QED BY <2>1
<1>6. CASE seen' = seen /\ again' = again + Relay!Forgotten(Pages)
  <2>1. Relay!Delta' = Relay!Delta
    BY <1>1, <1>6 DEF Relay!Delta
  <2>2. again' \in Nat /\ metered' + beat' + Relay!Delta' <= Credit' + again'
    BY <1>1, <1>4, <1>5, <1>6, <2>1, DeltaFacts
  <2> QED BY <1>1, <1>3, <1>8, <1>6, <2>2, DeltaFacts DEF MeterInv
<1>7. CASE seen' = 0 /\ again' = again + Relay!Forgotten(Pages) + file
  <2>1. Relay!Delta' = file
    BY <1>1, <1>7 DEF Relay!Delta, MeterInv
  <2>2. again' \in Nat /\ metered' + beat' + Relay!Delta' <= Credit' + again'
    BY <1>1, <1>4, <1>5, <1>7, <2>1, DeltaFacts
  <2> QED BY <1>1, <1>3, <1>8, <1>7, <2>2, DeltaFacts DEF MeterInv
<1> QED BY <1>1, <1>6, <1>7

\* The heartbeat takes what is to come; nothing else on the way to the row adds to it.
LEMMA TellMeters ==
  ASSUME MeterInv, Relay!GatewayUp \/ Relay!Heartbeat \/ Relay!Arrives \/ Relay!Lost
  PROVE  MeterInv'
<1> USE DEF Relay!gatewayVars, Relay!meterVars
<1>1. /\ UNCHANGED <<sent, open, session, total, again>> /\ Credit' = Credit
  BY DEF Relay!GatewayUp, Relay!Heartbeat, Relay!Arrives, Relay!Lost, Credit, Last
<1>2. CASE Relay!GatewayUp
  <2>1. file' = 0 /\ gateway' = "up" /\ total = 0 /\ UNCHANGED <<seen, beat, metered>>
    BY <1>2 DEF Relay!GatewayUp, MeterInv
  <2>2. Relay!Delta' = 0
    BY <2>1 DEF Relay!Delta, MeterInv
  <2>3. metered' + beat' + Relay!Delta' <= Credit' + again'
    BY <1>1, <2>1, <2>2, DeltaFacts
  <2> QED BY <1>1, <2>1, <2>3 DEF MeterInv
<1>3. CASE Relay!Heartbeat
  <2>1. beat = 0 /\ beat' = Relay!Delta /\ seen' = file /\ UNCHANGED <<file, gateway, metered>>
    BY <1>3 DEF Relay!Heartbeat
  <2>2. Relay!Delta' = 0
    BY <2>1 DEF Relay!Delta, MeterInv
  <2>3. beat' \in Nat /\ metered' + beat' + Relay!Delta' <= Credit' + again'
    BY <1>1, <2>1, <2>2, DeltaFacts
  <2> QED BY <1>1, <2>1, <2>3 DEF MeterInv
<1>4. CASE Relay!Arrives \/ Relay!Lost
  <2>1. /\ metered' \in {metered, metered + beat} /\ beat' = 0 /\ metered' + beat' <= metered + beat
        /\ metered' \in Nat /\ UNCHANGED <<file, gateway, seen>>
    BY <1>4 DEF Relay!Arrives, Relay!Lost, MeterInv
  <2>2. Relay!Delta' = Relay!Delta
    BY <2>1 DEF Relay!Delta
  <2>3. metered' + beat' + Relay!Delta' <= Credit' + again'
    BY <1>1, <2>1, <2>2, DeltaFacts
  <2> QED BY <1>1, <2>1, <2>3 DEF MeterInv
<1> QED BY <1>2, <1>3, <1>4

LEMMA MeterStep == MeterInv /\ [Relay!Next]_(Relay!relayVars) => MeterInv'
<1> SUFFICES ASSUME MeterInv, [Relay!Next]_(Relay!relayVars) PROVE MeterInv'
  OBVIOUS
<1> USE DEF Relay!gatewayVars, Relay!meterVars
<1>1. CASE UNCHANGED Relay!relayVars
  BY <1>1 DEF Relay!relayVars, MeterInv, Credit, Last, Relay!Delta
<1>2. ASSUME NEW p \in Pages, Relay!Relay(p) PROVE MeterInv'
  <2>1. /\ sent[p] < MaxRelay /\ sent' = [sent EXCEPT ![p] = @ + 1]
        /\ UNCHANGED <<session, open, total, gateway, file, seen, beat, metered, again>>
    BY <1>2 DEF Relay!Relay
  <2>2. Credit' = Credit /\ Relay!Delta' = Relay!Delta
    BY <2>1 DEF Credit, Last, Relay!Delta
  <2>3. ASSUME NEW q \in Pages
        PROVE  sent'[q] \in Nat /\ session[q].last <= sent'[q] /\ sent'[q] <= MaxRelay
    <3>1. sent[q] \in Nat /\ session[q].last \in Nat /\ session[q].last <= sent[q] /\ sent[q] <= MaxRelay
      BY DEF MeterInv, Sessions
    <3>2. sent'[q] \in {sent[q], sent[q] + 1} /\ (q = p => sent[q] < MaxRelay) /\ (q # p => sent'[q] = sent[q])
      BY <2>1 DEF MeterInv
    <3> QED BY <3>1, <3>2, PagesAssumption
  <2>4. sent' \in [Pages -> Nat]
    BY <2>1, <2>3 DEF MeterInv
  <2> QED BY <2>1, <2>2, <2>3, <2>4 DEF MeterInv
<1> QED BY <1>1, <1>2, ConnectMeters, DisconnectMeters, BeaconMeters, TickMeters, EndedMeters, TellMeters
        DEF Relay!Next

LEMMA MeterGives == MeterInv => CountedOnce
<1> SUFFICES ASSUME MeterInv PROVE CountedOnce
  OBVIOUS
<1>1. Credit <= Cardinality(Relay!Units(sent, Pages))
  BY NoMoreUnits, DeltaFacts DEF Credit, MeterInv
<1>2. Cardinality(Relay!Units(sent, Pages)) \in Nat
  BY UnitsFinite
<1>3. metered + beat <= Cardinality(Relay!Units(sent, Pages)) + again
  BY <1>1, <1>2, DeltaFacts
<1> QED BY <1>3, RelayCount DEF CountedOnce, Relay!CountedOnce

\* Heartbeats that are lost or late, pages that reconnect, gateways and agents that restart, in
\* any order: no unit of the relay is counted twice, but what a gateway forgot or an agent reads
\* again (agent/gateway_webrtc.py credit, agent/health.py turn_bytes).
THEOREM UnitsCountOnce == Relay!Spec => []CountedOnce
<1>1. Relay!Spec => []MeterInv
  BY MeterStart, MeterStep, PTL DEF Relay!Spec
<1> QED BY <1>1, MeterGives, PTL

\* The relay's sessions end in time and what they relay is counted once, in every run of the gateway,
\* the agent and the pages (agent/gateway_webrtc.py, agent/health.py).
THEOREM RelayStaysMetered == Relay!Spec => []RelayIsMetered
<1>1. SessionIsCut /\ CountedOnce => RelayIsMetered
  BY DEF RelayIsMetered
<1> QED BY <1>1, SessionsAreCut, UnitsCountOnce, PTL

-----------------------------------------------------------------------------
(* The seat, of either kind                                                *)

\* Between refits the monitor of a GNOME seat has the size the agent recorded and the scale the
\* helper recorded, unless that one could not be applied, and the parts of a labwc seat use the sockets of one another, for any number of refits,
\* deaths, restarts and sessions of others (agent/seat_gnome.py, agent/seat_portal.py,
\* agent/styx_agent.py).
THEOREM SeatsStayLive == Helper!Spec /\ Labwc!Spec => []SeatIsLive
<1>1. Helper!Spec => []HelpInv
  BY HelpStart, HelpStep, PTL DEF Helper!Spec
<1>2. Labwc!Spec => []LabwcInv
  BY LabwcStart, LabwcStep, PTL DEF Labwc!Spec
<1>3. HelpInv /\ LabwcInv => SeatIsLive
  BY HelpGives, LabwcGives DEF SeatIsLive
<1> QED BY <1>1, <1>2, <1>3, PTL

-----------------------------------------------------------------------------
(* The supervision loop                                                    *)
(*                                                                         *)
(* That a restart is never forgotten rests on the standby: a refit makes   *)
(* it the live selkies, so a stale one must be due for both.  That the     *)
(* port file is right rests on the port the agent keeps to itself: the     *)
(* live selkies has it and the standby has another, whatever the file says.*)

ProcTypes ==
  /\ cfg \in Procs!Settings /\ wanted \in Procs!Settings
  /\ engine \in Procs!Processes /\ standby \in Procs!Processes /\ door \in Procs!Processes
  /\ internalPort \in Procs!Ports

Stale(p) == p.st = "up" /\ p.cfg # cfg

Due ==
  /\ Stale(engine) => "selkies" \in due
  /\ Stale(standby) => {"selkies", "standby"} \subseteq due
  /\ Stale(door) => "gateway" \in due

PortsDiffer ==
  /\ engine.st = "up" => engine.port = internalPort
  /\ standby.st = "up" => standby.port # internalPort
  /\ stage \in {"watch", "beat", "wait"} /\ engine.st = "up" => portFile = internalPort

LoopInv == ProcTypes /\ Due /\ PortsDiffer

LEMMA NoProcess == Procs!None \in Procs!Processes /\ Procs!None.st = "none"
BY DEF Procs!None, Procs!Processes, Procs!Zero, Procs!Settings, Procs!Ports

LEMMA NewProcess ==
  ASSUME cfg \in Procs!Settings, NEW port \in Procs!Ports
  PROVE  Procs!Proc(port) \in Procs!Processes /\ Procs!Proc(port).st = "up" /\ Procs!Proc(port).cfg = cfg
         /\ Procs!Proc(port).port = port
BY DEF Procs!Proc, Procs!Processes

LEMMA LoopStart == Procs!Init => LoopInv
BY NoProcess DEF Procs!Init, LoopInv, ProcTypes, Due, Stale, PortsDiffer, Procs!Zero, Procs!Settings, Procs!Ports

\* Processes that end, and nothing else that the invariant speaks of
LEMMA LoopEnds ==
  ASSUME LoopInv, UNCHANGED <<cfg, wanted, due, internalPort>>,
         engine' = engine \/ (engine' \in Procs!Processes /\ engine'.st # "up"),
         standby' = standby \/ (standby' \in Procs!Processes /\ standby'.st # "up"),
         door' = door \/ (door' \in Procs!Processes /\ door'.st # "up"),
         \/ UNCHANGED <<stage, portFile>>
         \/ stage' \notin {"watch", "beat", "wait"}
         \/ stage \in {"watch", "beat"} /\ UNCHANGED portFile
  PROVE  LoopInv'
<1>1. ProcTypes'
  BY DEF LoopInv, ProcTypes
<1>2. Due'
  BY DEF LoopInv, Due, Stale
<1>3. PortsDiffer'
  BY DEF LoopInv, PortsDiffer
<1> QED BY <1>1, <1>2, <1>3 DEF LoopInv

\* the deferred restarts
LEMMA LoopApplies == ASSUME LoopInv, NEW r \in Procs!TwoTries, Procs!Apply(r) PROVE LoopInv'
<1> DEFINE ripe == applyNow \/ ~Procs!ViewersConnected
           keys == IF ripe THEN Procs!PlanKeys ELSE {}
<1>1. /\ stage' = "seat" /\ due' = due \ keys /\ UNCHANGED <<wanted, cfg, internalPort>>
      /\ engine' = IF "selkies" \in keys THEN Procs!None ELSE engine
      /\ standby' = IF "standby" \in keys THEN Procs!None ELSE standby
      /\ door' = IF "gateway" \in keys THEN Procs!None ELSE door
  BY DEF Procs!Apply, Procs!Killed
<1>2. keys = due \/ keys = due \cap {"gateway"} \/ keys = {}
  BY DEF Procs!PlanKeys
<1> HIDE DEF keys
<1>3. ProcTypes'
  BY <1>1, NoProcess DEF LoopInv, ProcTypes
<1>4. Due'
  BY <1>1, <1>2, NoProcess DEF LoopInv, Due, Stale
<1>5. PortsDiffer'
  BY <1>1, NoProcess DEF LoopInv, PortsDiffer
<1> QED BY <1>3, <1>4, <1>5 DEF LoopInv

\* the start of what is not running
LEMMA LoopStarts == ASSUME LoopInv, NEW ok \in BOOLEAN, Procs!Start(ok) PROVE LoopInv'
<1>1. /\ stage = "start" /\ stage' = "watch" /\ UNCHANGED <<internalPort, wanted, cfg, due>>
      /\ engine' = engine \/ engine' = Procs!Proc(internalPort) \/ engine' = Procs!None
      /\ portFile' = IF engine.st = "up" THEN engine.port ELSE internalPort
      /\ door' = door \/ door' = Procs!Proc(0)
  BY DEF Procs!Start, Procs!Published, Procs!settingVars
<1>2. \/ standby' = standby
      \/ standby' = Procs!Proc(Procs!FreePort(engine'.port)) /\ engine'.st # "none"
  BY DEF Procs!Start
<1>3. engine.st # "up" => engine' = Procs!Proc(internalPort) \/ engine' = Procs!None
  BY DEF Procs!Start
<1>4. internalPort \in Procs!Ports /\ cfg \in Procs!Settings /\ 0 \in Procs!Ports
  BY DEF LoopInv, ProcTypes, Procs!Ports
<1>5. Procs!Proc(internalPort) \in Procs!Processes /\ Procs!Proc(internalPort).st = "up"
      /\ Procs!Proc(internalPort).cfg = cfg /\ Procs!Proc(internalPort).port = internalPort
  BY <1>4, NewProcess
<1>6. Procs!Proc(0) \in Procs!Processes /\ Procs!Proc(0).cfg = cfg
  BY <1>4, NewProcess
<1>7. engine' \in Procs!Processes /\ (engine'.st = "up" => engine'.port = internalPort)
  BY <1>1, <1>5, NoProcess DEF LoopInv, ProcTypes, PortsDiffer
<1>8. engine'.st # "none" => engine'.st = "up"
  BY <1>1, <1>3, <1>5, NoProcess DEF LoopInv, ProcTypes
<1>9. ASSUME standby' = Procs!Proc(Procs!FreePort(engine'.port)), engine'.st # "none"
      PROVE  standby' \in Procs!Processes /\ standby'.cfg = cfg /\ standby'.port # internalPort
  <2>1. engine'.port = internalPort
    BY <1>7, <1>8, <1>9
  <2>2. Procs!FreePort(internalPort) \in Procs!Ports /\ Procs!FreePort(internalPort) # internalPort
    BY <1>4 DEF Procs!FreePort, Procs!Ports
  <2> QED BY <1>4, <1>9, <2>1, <2>2, NewProcess
<1>10. ProcTypes'
  BY <1>1, <1>2, <1>6, <1>7, <1>9 DEF LoopInv, ProcTypes
<1>11. Due'
  BY <1>1, <1>2, <1>5, <1>6, <1>9, NoProcess DEF LoopInv, Due, Stale
<1>12. PortsDiffer'
  BY <1>1, <1>2, <1>7, <1>9 DEF LoopInv, PortsDiffer
<1> QED BY <1>10, <1>11, <1>12 DEF LoopInv

\* new settings
LEMMA LoopBeats == ASSUME LoopInv, NEW drop \in BOOLEAN, Procs!Beat(drop) PROVE LoopInv'
<1>1. /\ stage = "beat" /\ UNCHANGED <<wanted, engine, standby, internalPort, portFile>>
      /\ door' = door \/ door' = Procs!None
  BY DEF Procs!Beat, Procs!DropClients
<1>2. CASE wanted = cfg /\ UNCHANGED <<cfg, due>>
  BY <1>1, <1>2, NoProcess DEF LoopInv, ProcTypes, Due, Stale, PortsDiffer
<1>3. CASE stage' = "apply" /\ cfg' = wanted /\ due' = Procs!Merged(cfg, wanted)
  <2>1. {"selkies", "standby", "gateway"} \subseteq due'
    BY <1>3 DEF Procs!Merged, Procs!RestartKeys
  <2> QED BY <1>1, <1>3, <2>1, NoProcess DEF LoopInv, ProcTypes, Due, PortsDiffer
<1> QED BY <1>2, <1>3 DEF Procs!Beat

\* the standby becomes the live selkies
LEMMA LoopRefits == ASSUME LoopInv, NEW r \in Procs!TwoTries, Procs!Refit(r) PROVE LoopInv'
<1>1. stage' = "apply" /\ UNCHANGED <<wanted, cfg, due>>
  BY DEF Procs!Refit, Procs!settingVars
<1>2. CASE UNCHANGED Procs!procVars
  BY <1>1, <1>2, LoopEnds DEF Procs!procVars
<1>3. CASE /\ standby.st = "up" /\ engine' = standby /\ internalPort' = standby.port
           /\ standby' = Procs!None /\ UNCHANGED door
  <2>1. internalPort' \in Procs!Ports
    BY <1>3 DEF LoopInv, ProcTypes, Procs!Processes
  <2> QED BY <1>1, <1>3, <2>1, NoProcess DEF LoopInv, ProcTypes, Due, Stale, PortsDiffer
<1>4. CASE engine' = Procs!None /\ UNCHANGED <<internalPort, portFile, standby, door>>
  BY <1>1, <1>4, NoProcess, LoopEnds
<1> QED BY <1>2, <1>3, <1>4 DEF Procs!Refit

\* the rest of the loop
LEMMA LoopGoesOn == ASSUME LoopInv, Procs!Exit \/ Procs!SeatCheck \/ Procs!Watch \/ Procs!Wait PROVE LoopInv'
<1>1. CASE Procs!Exit
  BY <1>1, NoProcess, LoopEnds DEF Procs!Exit, Procs!settingVars
<1>2. CASE Procs!SeatCheck
  BY <1>2, NoProcess, LoopEnds DEF Procs!SeatCheck, Procs!settingVars
<1>3. CASE Procs!Watch
  BY <1>3, NoProcess, LoopEnds DEF Procs!Watch, Procs!settingVars
<1>4. CASE Procs!Wait
  BY <1>4, NoProcess, LoopEnds DEF Procs!Wait, Procs!settingVars, Procs!Cut
<1> QED BY <1>1, <1>2, <1>3, <1>4

\* A process that dies keeps its settings and its port.
LEMMA LoopDeaths == ASSUME LoopInv, Procs!SelkiesDies \/ Procs!StandbyDies \/ Procs!GatewayDies PROVE LoopInv'
<1>1. ASSUME NEW p \in Procs!Processes
      PROVE  [p EXCEPT !.st = "dead"] \in Procs!Processes /\ [p EXCEPT !.st = "dead"].st = "dead"
  BY DEF Procs!Processes
<1>2. CASE Procs!SelkiesDies
  BY <1>1, <1>2, LoopEnds DEF Procs!SelkiesDies, Procs!settingVars, LoopInv, ProcTypes
<1>3. CASE Procs!StandbyDies
  BY <1>1, <1>3, LoopEnds DEF Procs!StandbyDies, Procs!settingVars, LoopInv, ProcTypes
<1>4. CASE Procs!GatewayDies
  BY <1>1, <1>4, LoopEnds DEF Procs!GatewayDies, Procs!settingVars, LoopInv, ProcTypes
<1> QED BY <1>2, <1>3, <1>4

LEMMA LoopSurrounded == ASSUME LoopInv, Procs!Around PROVE LoopInv'
<1>1. CASE Procs!BeatFails
  BY <1>1, LoopEnds DEF Procs!BeatFails, Procs!procVars, Procs!settingVars
<1>2. CASE Procs!Crash
  <2>1. 0 \in Procs!Ports
    BY DEF Procs!Ports
  <2> QED BY <1>2, <2>1, NoProcess DEF Procs!Crash, LoopInv, ProcTypes, Due, Stale, PortsDiffer
<1>3. ASSUME NEW g \in {"down", "up", "hung"}, NEW h \in {"none", "up", "dead"}, Procs!SeatDies(g, h)
      PROVE  LoopInv'
  BY <1>3, LoopEnds DEF Procs!SeatDies, Procs!procVars, Procs!settingVars
<1>4. ASSUME NEW f \in Procs!Fields, Procs!Push(f) PROVE LoopInv'
  <2>1. wanted' \in Procs!Settings
    BY <1>4 DEF Procs!Push, LoopInv, ProcTypes, Procs!Settings
  <2> QED BY <1>4, <2>1 DEF Procs!Push, Procs!procVars, LoopInv, ProcTypes, Due, Stale, PortsDiffer
<1>5. CASE Procs!Viewers \/ Procs!Starve \/ Procs!Frame \/ Procs!AskCut \/ Procs!AskRefit \/ Procs!GraceEnds \/ Procs!WindowEnds
  <2>1. UNCHANGED <<stage, Procs!procVars, Procs!settingVars>>
    BY <1>5 DEF Procs!Viewers, Procs!Starve, Procs!Frame, Procs!AskCut, Procs!AskRefit, Procs!GraceEnds, Procs!WindowEnds
  <2> QED BY <2>1, LoopEnds DEF Procs!procVars, Procs!settingVars
<1> QED BY <1>1, <1>2, <1>3, <1>4, <1>5, LoopDeaths DEF Procs!Around

LEMMA LoopStep == LoopInv /\ [Procs!Next]_(Procs!vars) => LoopInv'
<1> SUFFICES ASSUME LoopInv, [Procs!Next]_(Procs!vars) PROVE LoopInv'
  OBVIOUS
<1>1. CASE Procs!Loop
  BY <1>1, LoopApplies, LoopRefits, LoopGoesOn, LoopStarts, LoopBeats DEF Procs!Loop
<1>2. CASE UNCHANGED Procs!vars
  BY <1>2, LoopEnds DEF Procs!vars, Procs!procVars, Procs!settingVars
<1> QED BY <1>1, <1>2, LoopSurrounded DEF Procs!Next

LEMMA LoopGives == LoopInv => ProcessesAreCurrent
<1> SUFFICES ASSUME LoopInv PROVE ProcessesAreCurrent
  OBVIOUS
<1>1. Procs!StaleIsPending
  BY DEF LoopInv, Due, Stale, Procs!StaleIsPending
<1>2. Procs!PortIsLive
  BY DEF LoopInv, PortsDiffer, Procs!PortIsLive
<1> QED BY <1>1, <1>2 DEF ProcessesAreCurrent, Procs!ProcessesAreCurrent

\* After every pass, push, refit, crash or death: a process that runs on settings the portal has
\* replaced is due for a restart, and the gateway reads the port of the live selkies
\* (agent/styx_agent.py run, publish_port, merge_pending).
THEOREM RestartsAreKept == Procs!Spec => []ProcessesAreCurrent
<1>1. Procs!Init => LoopInv
  BY LoopStart
<1>2. LoopInv /\ [Procs!Next]_(Procs!vars) => LoopInv'
  BY LoopStep
<1>3. LoopInv => ProcessesAreCurrent
  BY LoopGives
<1> QED BY <1>1, <1>2, <1>3, PTL DEF Procs!Spec

-----------------------------------------------------------------------------
(* The agent as a whole                                                    *)

\* All of it holds of the composed agent that MCAgent instantiates: the limit of a session and
\* its count, the seat, its clipboard and its keys, and the processes of the loop.
THEOREM AgentIsSafe ==
  SpecAll => [](RelayIsMetered /\ SeatIsLive /\ ClipboardIsCurrent /\ NoKeyStuck /\ ProcessesAreCurrent)
<1> DEFINE Inv == CutInv /\ MeterInv /\ HelpInv /\ LabwcInv /\ ClipInv /\ KeyInv /\ LoopInv
<1>1. InitAll => Inv
  BY CutStart, MeterStart, HelpStart, LabwcStart, ClipStart, KeyStart, LoopStart DEF InitAll
<1>2. ASSUME [NextAll]_allVars
      PROVE  /\ [Relay!Next]_(Relay!relayVars) /\ [Helper!Next]_(Helper!helpVars)
             /\ [Labwc!Next]_(Labwc!labwcVars) /\ [Seat!Next]_(Seat!clipVars)
             /\ [Typing!Next]_(Typing!keyVars) /\ [Procs!Next]_(Procs!vars)
  <2>1. Relay!Next \/ UNCHANGED relayVars
    BY <1>2 DEF NextAll, allVars
  <2>2. Helper!Next \/ UNCHANGED helpVars
    BY <1>2 DEF NextAll, allVars
  <2>3. Labwc!Next \/ UNCHANGED labwcVars
    BY <1>2 DEF NextAll, allVars
  <2>4. Seat!Next \/ UNCHANGED clipVars
    BY <1>2 DEF NextAll, allVars
  <2>5. Typing!Next \/ UNCHANGED keyVars
    BY <1>2 DEF NextAll, allVars
  <2>6. UNCHANGED relayVars => UNCHANGED Relay!relayVars
    BY DEF relayVars, Relay!relayVars, Relay!gatewayVars, Relay!meterVars
  <2>7. UNCHANGED helpVars => UNCHANGED Helper!helpVars
    BY DEF helpVars, Helper!helpVars, Helper!agentVars, Helper!helperVars, Helper!mutterVars,
           Helper!scaleVars, Helper!fileVars, Helper!budget
  <2>8. UNCHANGED labwcVars => UNCHANGED Labwc!labwcVars
    BY DEF labwcVars, Labwc!labwcVars, Labwc!found, Labwc!ghosts
  <2>9. UNCHANGED clipVars => UNCHANGED Seat!clipVars
    BY DEF clipVars, Seat!clipVars
  <2>10. UNCHANGED keyVars => UNCHANGED Typing!keyVars
    BY DEF keyVars, Typing!keyVars
  <2>11. Procs!Next \/ UNCHANGED loopVars
    BY <1>2 DEF NextAll, allVars
  <2>12. UNCHANGED loopVars => UNCHANGED Procs!vars
    BY DEF loopVars, Procs!vars, Procs!procVars, Procs!settingVars, Procs!seatVars,
           Procs!fileVars, Procs!dogVars
  <2> QED BY <2>1, <2>2, <2>3, <2>4, <2>5, <2>6, <2>7, <2>8, <2>9, <2>10, <2>11, <2>12
<1>3. Inv /\ [NextAll]_allVars => Inv'
  BY <1>2, CutStep, MeterStep, HelpStep, LabwcStep, ClipStep, KeyStep, LoopStep
<1>4. Inv => RelayIsMetered /\ SeatIsLive /\ ClipboardIsCurrent /\ NoKeyStuck /\ ProcessesAreCurrent
  BY CutGives, MeterGives, HelpGives, LabwcGives, ClipGives, KeyGives, LoopGives
     DEF SeatIsLive, RelayIsMetered
<1> QED BY <1>1, <1>3, <1>4, PTL DEF SpecAll
=============================================================================
