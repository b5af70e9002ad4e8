--------------------------- MODULE MountJobProofs ---------------------------
(***************************************************************************)
(* What TLAPS proves of MountJob for every set of services, containers and *)
(* jobs and every value of the bounds.                                     *)
(***************************************************************************)
EXTENDS MountJob, TLAPS

\* A request inside the critical section holds its service's lock, and no job
\* of the service can start or resume under it.
LockHeld ==
  \A j \in Jobs : pc[j] \in RequestPoints =>
    lock[sid[j]] = j /\ UnfinishedJobs(sid[j]) = {}

\* The saved state of a row at each program point of its task.  A job that was
\* "done" and is undone again belongs to a deleted service.  No task survives
\* the process.
RowMatchesPoint ==
  \A j \in Jobs :
    /\ backend = "down" => pc[j] \in {"free", "end"}
    /\ pc[j] \in {"free"} \cup RequestPoints => state[j] = "none"
    /\ pc[j] = "preflight" => state[j] = "pending"
    /\ pc[j] \in {"confirm", "manage"} => state[j] = "done"
    /\ pc[j] \in {"backup", "stored", "apply", "write", "busy", "written", "restart", "verify"}
         => state[j] = "running"
    /\ pc[j] \in {"rollback", "undo", "undone", "undofailed"}
         => state[j] = "running" \/ (state[j] = "done" /\ sid[j] \notin live)

\* `changed` brackets the points from which the file may hold the job's text.
MarkedAroundWrite ==
  \A j \in Jobs :
    /\ pc[j] \in {"write", "written", "restart", "verify", "manage",
                  "rollback", "undo", "undone", "undofailed"} => j \in changed
    /\ j \in changed \/ pc[j] = "apply" => backup[j] = orig[j] /\ orig[j] # NoBackup
    /\ pc[j] = "stored" => orig[j] # NoBackup
    /\ pc[j] \in {"free", "preflight", "confirm", "backup", "stored", "apply"}
                   \cup RequestPoints => j \notin changed

\* The last writer of a file is a job past its write, on its own container.
WriterPastWrite ==
  \A j \in Jobs, c \in Containers : writer[c] = j =>
    /\ target[j] = c /\ j \in changed
    /\ pc[j] \in {"end", "written", "restart", "verify", "manage",
                  "rollback", "undo", "undone", "undofailed"}
    /\ pc[j] \in {"written", "restart", "verify", "manage"} => file[c] = sid[j]
    /\ pc[j] = "undone" => file[c] = orig[j]

\* The backup of a running job is its service's newest directory.
BackupIsNewest ==
  \A j \in Jobs :
    LET dirs == disk[sid[j]] IN
    state[j] = "running" /\ (j \in changed \/ pc[j] \in {"stored", "apply"}) =>
      dirs # << >> /\ dirs[Len(dirs)] = j

IInv ==
  /\ LockHeld /\ RowMatchesPoint /\ OneActiveJob
  /\ MarkedAroundWrite /\ WriterPastWrite /\ NoHalfChange
  /\ BackupIsNewest

LEMMA PruneLast ==
  ASSUME NEW d \in Seq(Jobs), NEW j \in Jobs
  PROVE  LET dirs == Prune(Append(d, j))
         IN  dirs \in Seq(Jobs) /\ dirs # << >> /\ dirs[Len(dirs)] = j
<1> DEFINE e == Append(d, j)
<1>1. e \in Seq(Jobs) /\ Len(e) = Len(d) + 1 /\ e[Len(e)] = j /\ Len(d) \in Nat
  OBVIOUS
<1> HIDE DEF e
<1>2. CASE Len(e) > KeepBackups
  <2> DEFINE m == Len(e) - KeepBackups + 1
  <2>1. m \in 1..Len(e) /\ Len(e) - m + 1 = KeepBackups /\ KeepBackups >= 1 /\ m + KeepBackups - 1 = Len(e)
    BY <1>1, <1>2, KeepAssumption
  <2>2. Prune(e) = SubSeq(e, m, Len(e))
    BY <1>2 DEF Prune
  <2>3. SubSeq(e, m, Len(e)) \in Seq(Jobs) /\ Len(SubSeq(e, m, Len(e))) = KeepBackups
    BY <1>1, <2>1
  <2>4. \A i \in 1..(Len(e) - m + 1) : SubSeq(e, m, Len(e))[i] = e[m + i - 1]
    BY <1>1, <2>1
  <2>5. KeepBackups \in 1..(Len(e) - m + 1) /\ m + KeepBackups - 1 = Len(e)
    BY <2>1, KeepAssumption
  <2>6. SubSeq(e, m, Len(e))[KeepBackups] = e[Len(e)]
    BY <2>4, <2>5
  <2>7. Prune(e) \in Seq(Jobs) /\ Len(Prune(e)) = KeepBackups /\ Prune(e)[KeepBackups] = j
    BY <1>1, <2>2, <2>3, <2>6
  <2>8. Prune(e) # << >>
    BY <2>1, <2>7, KeepAssumption
  <2> QED BY <2>7, <2>8 DEF e
<1>3. CASE ~(Len(e) > KeepBackups)
  BY <1>1, <1>3 DEF Prune, e
<1> QED BY <1>2, <1>3

LEMMA PlanKindType ==
  \A s, text : PlanKind(s, text) \in {"none", "nochange", "edit", "create"}
BY DEF PlanKind

LEMMA AnyServiceType == AnyService \in Services
BY ServicesAssumption DEF AnyService

LEMMA TypeInit == Init => TypeOK
BY AnyServiceType, BoundsAssumption DEF Init, TypeOK, Texts, Unfinished, Finished

LEMMA TypeStep == TypeOK /\ MarkedAroundWrite /\ [Next]_vars => TypeOK'
<1> SUFFICES ASSUME TypeOK, MarkedAroundWrite, [Next]_vars PROVE TypeOK'
  OBVIOUS
<1> USE DEF TypeOK, Texts, Unfinished, Finished, Steps, RequestPoints, TaskPoints,
        At, Goto, Save, Close, Put, rowVars, svcVars, taskVars, boundVars
<1>1. CASE UNCHANGED vars
  BY <1>1 DEF vars
<1>2. ASSUME NEW j \in Jobs, NEW s \in Services, ApplyBegin(j, s) PROVE TypeOK'
  <2>1. /\ lock' = lock \/ lock' = [lock EXCEPT ![s] = j]
        /\ Goto(j, "planning") \/ Goto(j, "end")
        /\ sid' = [sid EXCEPT ![j] = s]
        /\ UNCHANGED <<svcVars, file, disk, rowVars, plan, target, orig, backend,
                       boundVars, writer>>
    BY <1>2 DEF ApplyBegin
  <2>2. lock' \in [Services -> Jobs \cup {NoJob}]
    <3>1. CASE lock' = lock
      BY <3>1
    <3>2. CASE lock' = [lock EXCEPT ![s] = j]
      BY <3>2
    <3> QED BY <2>1, <3>1, <3>2
  <2>3. sid' \in [Jobs -> Services]
    BY <2>1
  <2>4. pc' \in [Jobs -> {"free", "end"} \cup RequestPoints \cup TaskPoints]
    BY <2>1
  <2> QED BY <2>1, <2>2, <2>3, <2>4
<1>3. ASSUME NEW j \in Jobs, ApplyPlan(j) PROVE TypeOK'
  BY <1>3, PlanKindType DEF ApplyPlan
<1>4. ASSUME NEW j \in Jobs, ApplyRefuse(j) PROVE TypeOK'
  BY <1>4 DEF ApplyRefuse
<1>5. ASSUME NEW j \in Jobs, ApplyInsert(j) PROVE TypeOK'
  BY <1>5 DEF ApplyInsert
<1>6. ASSUME NEW j \in Jobs, Preflight(j) PROVE TypeOK'
  <2>1. CASE sid[j] \notin live
    BY <1>6, <2>1 DEF Preflight
  <2>2. CASE sid[j] \in live /\ plan[j] = "nochange"
    BY <1>6, <2>2 DEF Preflight
  <2>3. CASE sid[j] \in live /\ plan[j] # "nochange"
    <3>1. /\ Save(j, "running", "backup") /\ Goto(j, "backup")
          /\ target' = [target EXCEPT ![j] = cont[sid[j]]]
          /\ UNCHANGED <<svcVars, file, disk, lock, sid, plan, orig, backend, boundVars, writer>>
      BY <1>6, <2>3 DEF Preflight
    <3> QED BY <3>1
  <2> QED BY <1>6, <2>1, <2>2, <2>3 DEF Preflight
<1>7. ASSUME NEW j \in Jobs, Confirm(j) PROVE TypeOK'
  BY <1>7 DEF Confirm
<1>8. ASSUME NEW j \in Jobs, Backup(j) PROVE TypeOK'
  <2> DEFINE s == sid[j]
             text == IF plan[j] = "create" THEN Template ELSE file[target[j]]
  <2>1. /\ text # Absent /\ Goto(j, "stored")
        /\ orig' = [orig EXCEPT ![j] = text]
        /\ disk' = [disk EXCEPT ![s] = Prune(Append(@, j))]
        /\ UNCHANGED <<svcVars, file, rowVars, lock, sid, plan, target, backend, boundVars, writer>>
    BY <1>8 DEF Backup
  <2>2. s \in Services /\ disk[s] \in Seq(Jobs) /\ text \in Texts
    BY <2>1
  <2>3. Prune(Append(disk[s], j)) \in Seq(Jobs)
    BY <2>2, PruneLast
  <2>4. disk' \in [Services -> Seq(Jobs)] /\ orig' \in [Jobs -> Texts \cup {NoBackup}]
    BY <2>1, <2>2, <2>3
  <2> QED BY <2>1, <2>4
<1>9. ASSUME NEW j \in Jobs, BackupFail(j) PROVE TypeOK'
  BY <1>9 DEF BackupFail
<1>10. ASSUME NEW j \in Jobs, BackupSave(j) PROVE TypeOK'
  BY <1>10 DEF BackupSave
<1>11. ASSUME NEW j \in Jobs, Edit(j) PROVE TypeOK'
  <2>1. CASE orig[j] # Garbled
    BY <1>11, <2>1 DEF Edit
  <2>2. CASE orig[j] = Garbled
    BY <1>11, <2>2 DEF Edit
  <2> QED BY <1>11, <2>1, <2>2 DEF Edit
<1>12. ASSUME NEW j \in Jobs, Write(j) PROVE TypeOK'
  BY <1>12 DEF Write
<1>13. ASSUME NEW j \in Jobs, WriteFail(j) PROVE TypeOK'
  BY <1>13 DEF WriteFail
<1>14. ASSUME NEW j \in Jobs, WriteBusy(j) PROVE TypeOK'
  BY <1>14 DEF WriteBusy
<1>15. ASSUME NEW j \in Jobs, BusyFail(j) PROVE TypeOK'
  BY <1>15 DEF BusyFail
<1>16. ASSUME NEW j \in Jobs, Written(j) PROVE TypeOK'
  BY <1>16 DEF Written
<1>17. ASSUME NEW j \in Jobs, Restart(j) PROVE TypeOK'
  BY <1>17 DEF Restart
<1>18. ASSUME NEW j \in Jobs, Verify(j) PROVE TypeOK'
  <2>1. CASE Close(j, "done")
    BY <1>18, <2>1 DEF Verify
  <2>2. CASE UNCHANGED rowVars
    BY <1>18, <2>2 DEF Verify
  <2> QED BY <1>18, <2>1, <2>2 DEF Verify
<1>19. ASSUME NEW j \in Jobs, Manage(j) PROVE TypeOK'
  BY <1>19 DEF Manage
<1>20. ASSUME NEW j \in Jobs, Rollback(j) PROVE TypeOK'
  BY <1>20 DEF Rollback
<1>21. ASSUME NEW j \in Jobs, Undo(j) PROVE TypeOK'
  <2>1. CASE Put(j, orig[j])
    BY <1>21, <2>1 DEF Undo, MarkedAroundWrite
  <2>2. CASE \E text \in {file[target[j]], orig[j], Garbled} : Put(j, text)
    <3>1. At(j, "undo") /\ orig[j] \in Texts
      BY <1>21, MarkedAroundWrite DEF Undo, MarkedAroundWrite
    <3>2. PICK text \in {file[target[j]], orig[j], Garbled} : Put(j, text)
      BY <2>2
    <3>3. Goto(j, "undone") \/ Goto(j, "undofailed")
      BY <1>21 DEF Undo
    <3>5. pc' \in [Jobs -> {"free", "end"} \cup RequestPoints \cup TaskPoints]
      BY <3>3
    <3>4. UNCHANGED <<svcVars, disk, rowVars, lock, taskVars, backend, boundVars>>
      BY <1>21 DEF Undo
    <3> QED BY <3>1, <3>2, <3>4, <3>5
  <2> QED BY <1>21, <2>1, <2>2 DEF Undo
<1>22. ASSUME NEW j \in Jobs, Undone(j) PROVE TypeOK'
  <2>1. CASE Close(j, "rolled_back")
    BY <1>22, <2>1 DEF Undone
  <2>2. CASE Close(j, "failed")
    BY <1>22, <2>2 DEF Undone
  <2> QED BY <1>22, <2>1, <2>2 DEF Undone
<1>23. ASSUME NEW s \in Services, PlanMount(s) PROVE TypeOK'
  BY <1>23 DEF PlanMount
<1>24. ASSUME NEW s \in Services, DeleteService(s) PROVE TypeOK'
  BY <1>24, BoundsAssumption DEF DeleteService, Edited
<1>25. ASSUME NEW s \in Services, NEW c \in Containers, UpdateService(s, c) PROVE TypeOK'
  BY <1>25, BoundsAssumption DEF UpdateService, Edited
<1>26. ASSUME NEW c \in Containers, AppWrites(c) PROVE TypeOK'
  BY <1>26, BoundsAssumption DEF AppWrites, Edited
<1>27. CASE Crash
  BY <1>27, BoundsAssumption DEF Crash
<1>28. CASE Boot
  BY <1>28 DEF Boot, Interrupted, SweptState
<1> QED BY <1>1, <1>2, <1>3, <1>4, <1>5, <1>6, <1>7, <1>8, <1>9, <1>10, <1>11, <1>12,
       <1>13, <1>14, <1>15, <1>16, <1>17, <1>18, <1>19, <1>20, <1>21, <1>22, <1>23,
       <1>24, <1>25, <1>26, <1>27, <1>28 DEF Next, Request, Task


LEMMA IInvInit == Init => IInv
BY NoJobAssumption DEF Init, IInv, LockHeld, RowMatchesPoint, OneActiveJob, MarkedAroundWrite, WriterPastWrite,
   NoHalfChange, BackupIsNewest, RequestPoints, TaskPoints, UnfinishedJobs, Unfinished, Finished

\* A step that starts no job leaves at most one unfinished job per service.
LEMMA NoneStarted ==
  ASSUME OneActiveJob, sid' = sid,
         \A k \in Jobs : state'[k] \in Unfinished => state[k] \in Unfinished
  PROVE  OneActiveJob' /\ \A s : UnfinishedJobs(s)' \subseteq UnfinishedJobs(s)
BY DEF OneActiveJob, UnfinishedJobs, Unfinished

LEMMA IInvStep == TypeOK /\ TypeOK' /\ IInv /\ [Next]_vars => IInv'
<1> SUFFICES ASSUME TypeOK, TypeOK', IInv, [Next]_vars PROVE IInv'
  OBVIOUS
<1> USE DEF TypeOK, IInv, LockHeld, RowMatchesPoint, OneActiveJob, MarkedAroundWrite, WriterPastWrite,
        NoHalfChange, BackupIsNewest, UnfinishedJobs, Unfinished, Finished, RequestPoints, TaskPoints,
        At, Goto, Save, Close, Put, rowVars, svcVars, taskVars, boundVars
<1>1. CASE UNCHANGED vars
  BY <1>1 DEF vars
<1>2. ASSUME NEW j \in Jobs, NEW s \in Services, ApplyBegin(j, s) PROVE IInv'
  <2>1. CASE UnfinishedJobs(s) = {}
    <3>1. LockHeld'
      <4>1. /\ pc[j] = "free" /\ lock[s] = NoJob /\ state' = state
            /\ sid' = [sid EXCEPT ![j] = s] /\ lock' = [lock EXCEPT ![s] = j]
            /\ pc' = [pc EXCEPT ![j] = "planning"]
        BY <1>2, <2>1 DEF ApplyBegin
      <4>2. state[j] = "none"
        BY <4>1
      <4>3. UnfinishedJobs(s)' = {} /\ lock'[s] = j /\ sid'[j] = s
        BY <2>1, <4>1, <4>2
      <4>4. ASSUME NEW k \in Jobs, k # j, pc'[k] \in RequestPoints
            PROVE  lock'[sid'[k]] = k /\ UnfinishedJobs(sid[k])' = {} /\ sid'[k] = sid[k]
        <5>1. sid'[k] = sid[k] /\ pc[k] = pc'[k]
          BY <4>1, <4>4
        <5>2. lock[sid[k]] = k /\ UnfinishedJobs(sid[k]) = {}
          BY <4>4, <5>1
        <5>3. sid[k] # s /\ lock'[sid[k]] = k
          BY <4>1, <5>2, NoJobAssumption
        <5>4. UnfinishedJobs(sid[k])' = {}
          BY <4>1, <4>2, <5>1, <5>2
        <5> QED BY <5>1, <5>3, <5>4
      <4> QED BY <4>3, <4>4
    <3>2. RowMatchesPoint'
      BY <1>2, <2>1 DEF ApplyBegin
    <3>3. OneActiveJob'
      BY <1>2, <2>1 DEF ApplyBegin
    <3>4. MarkedAroundWrite'
      BY <1>2, <2>1 DEF ApplyBegin
    <3>5. WriterPastWrite'
      BY <1>2, <2>1 DEF ApplyBegin
    <3>6. NoHalfChange'
      BY <1>2, <2>1 DEF ApplyBegin
    <3>7. BackupIsNewest'
      BY <1>2, <2>1 DEF ApplyBegin
    <3> QED BY <3>1, <3>2, <3>3, <3>4, <3>5, <3>6, <3>7
  <2>2. CASE UnfinishedJobs(s) # {}
    BY <1>2, <2>2 DEF ApplyBegin
  <2> QED BY <1>2, <2>1, <2>2 DEF ApplyBegin
<1>3. ASSUME NEW j \in Jobs, ApplyPlan(j) PROVE IInv'
  BY <1>3 DEF ApplyPlan
<1>4. ASSUME NEW j \in Jobs, ApplyRefuse(j) PROVE IInv'
  BY <1>4 DEF ApplyRefuse
<1>5. ASSUME NEW j \in Jobs, ApplyInsert(j) PROVE IInv'
  BY <1>5 DEF ApplyInsert
<1>6. ASSUME NEW j \in Jobs, Preflight(j) PROVE IInv'
  <2>1. CASE sid[j] \notin live
    <3>1. LockHeld'
      BY <1>6, <2>1 DEF Preflight
    <3>2. RowMatchesPoint'
      BY <1>6, <2>1 DEF Preflight
    <3>3. OneActiveJob'
      <4>1. /\ pc[j] = "preflight" /\ sid' = sid
            /\ state' = [state EXCEPT ![j] = "failed"]
        BY <1>6, <2>1 DEF Preflight
      <4>2. state[j] = "pending"
        BY <4>1
      <4> QED BY <4>1, <4>2, NoneStarted
    <3>4. MarkedAroundWrite'
      BY <1>6, <2>1 DEF Preflight
    <3>5. WriterPastWrite'
      BY <1>6, <2>1 DEF Preflight
    <3>6. NoHalfChange'
      BY <1>6, <2>1 DEF Preflight
    <3>7. BackupIsNewest'
      BY <1>6, <2>1 DEF Preflight
    <3> QED BY <3>1, <3>2, <3>3, <3>4, <3>5, <3>6, <3>7
  <2>2. CASE sid[j] \in live /\ plan[j] = "nochange"
    <3>1. LockHeld'
      BY <1>6, <2>2 DEF Preflight
    <3>2. RowMatchesPoint'
      BY <1>6, <2>2 DEF Preflight
    <3>3. OneActiveJob'
      <4>1. /\ pc[j] = "preflight" /\ sid' = sid
            /\ state' = [state EXCEPT ![j] = "done"]
        BY <1>6, <2>2 DEF Preflight
      <4>2. state[j] = "pending"
        BY <4>1
      <4> QED BY <4>1, <4>2, NoneStarted
    <3>4. MarkedAroundWrite'
      BY <1>6, <2>2 DEF Preflight
    <3>5. WriterPastWrite'
      BY <1>6, <2>2 DEF Preflight
    <3>6. NoHalfChange'
      BY <1>6, <2>2 DEF Preflight
    <3>7. BackupIsNewest'
      BY <1>6, <2>2 DEF Preflight
    <3> QED BY <3>1, <3>2, <3>3, <3>4, <3>5, <3>6, <3>7
  <2>3. CASE sid[j] \in live /\ plan[j] # "nochange"
    <3>1. LockHeld'
      BY <1>6, <2>3 DEF Preflight
    <3>2. RowMatchesPoint'
      <4>1. /\ state' = [state EXCEPT ![j] = "running"] /\ pc' = [pc EXCEPT ![j] = "backup"]
            /\ sid' = sid /\ live' = live /\ backend = "up" /\ backend' = backend
        BY <1>6, <2>3 DEF Preflight
      <4>2. ASSUME NEW k \in Jobs, k # j
            PROVE  state'[k] = state[k] /\ pc'[k] = pc[k]
        BY <4>1, <4>2
      <4>3. state'[j] = "running" /\ pc'[j] = "backup"
        BY <4>1
      <4> QED BY <4>1, <4>2, <4>3
    <3>3. OneActiveJob'
      <4>1. /\ pc[j] = "preflight" /\ sid' = sid
            /\ state' = [state EXCEPT ![j] = "running"]
        BY <1>6, <2>3 DEF Preflight
      <4>2. state[j] = "pending"
        BY <4>1
      <4> QED BY <4>1, <4>2, NoneStarted
    <3>4. MarkedAroundWrite'
      BY <1>6, <2>3 DEF Preflight
    <3>5. WriterPastWrite'
      BY <1>6, <2>3 DEF Preflight
    <3>6. NoHalfChange'
      BY <1>6, <2>3 DEF Preflight
    <3>7. BackupIsNewest'
      BY <1>6, <2>3 DEF Preflight
    <3> QED BY <3>1, <3>2, <3>3, <3>4, <3>5, <3>6, <3>7
  <2> QED BY <1>6, <2>1, <2>2, <2>3 DEF Preflight
<1>7. ASSUME NEW j \in Jobs, Confirm(j) PROVE IInv'
  BY <1>7 DEF Confirm
<1>8. ASSUME NEW j \in Jobs, Backup(j) PROVE IInv'
  <2> DEFINE s == sid[j]
             text == IF plan[j] = "create" THEN Template ELSE file[target[j]]
  <2>1. /\ pc[j] = "backup" /\ text # Absent
        /\ pc' = [pc EXCEPT ![j] = "stored"]
        /\ orig' = [orig EXCEPT ![j] = text]
        /\ disk' = [disk EXCEPT ![s] = Prune(Append(@, j))]
        /\ UNCHANGED <<svcVars, file, rowVars, lock, sid, plan, target, backend, boundVars, writer>>
    BY <1>8 DEF Backup
  <2>2. s \in Services /\ disk[s] \in Seq(Jobs) /\ text # NoBackup
    BY <2>1, ContentAssumption DEF Texts
  <2>3. state[j] = "running" /\ j \notin changed
    BY <2>1
  <2> HIDE DEF text
  <2>4. LockHeld'
    BY <2>1
  <2>5. RowMatchesPoint'
    BY <2>1, <2>3
  <2>6. OneActiveJob'
    BY <2>1, NoneStarted
  <2>7. MarkedAroundWrite'
    BY <2>1, <2>2, <2>3
  <2>8. WriterPastWrite'
    BY <2>1, <2>3
  <2>9. NoHalfChange'
    <3> SUFFICES ASSUME NEW k \in Jobs, NEW c \in Containers, writer[c] = k, pc'[k] = "end"
                 PROVE  k # j /\ pc[k] = "end" /\ orig'[k] = orig[k]
      BY <2>1
    <3> QED BY <2>1
  <2>10. BackupIsNewest'
    <3>1. disk'[s] # << >> /\ disk'[s][Len(disk'[s])] = j
      <4> DEFINE dirs == Prune(Append(disk[s], j))
      <4>1. dirs # << >> /\ dirs[Len(dirs)] = j
        BY <2>2, PruneLast
      <4>2. disk'[s] = dirs
        BY <2>1, <2>2
      <4> HIDE DEF dirs
      <4> QED BY <4>1, <4>2
    <3>2. ASSUME NEW k \in Jobs, k # j, state[k] = "running"
          PROVE  sid[k] # s /\ disk'[sid[k]] = disk[sid[k]]
      BY <2>1, <2>3, <3>2
    <3> QED BY <2>1, <3>1, <3>2
  <2> QED BY <2>4, <2>5, <2>6, <2>7, <2>8, <2>9, <2>10
<1>9. ASSUME NEW j \in Jobs, BackupFail(j) PROVE IInv'
  BY <1>9 DEF BackupFail
<1>10. ASSUME NEW j \in Jobs, BackupSave(j) PROVE IInv'
  BY <1>10 DEF BackupSave
<1>11. ASSUME NEW j \in Jobs, Edit(j) PROVE IInv'
  <2>1. CASE orig[j] # Garbled
    BY <1>11, <2>1 DEF Edit
  <2>2. CASE orig[j] = Garbled
    <3>1. LockHeld'
      BY <1>11, <2>2 DEF Edit
    <3>2. RowMatchesPoint'
      BY <1>11, <2>2 DEF Edit
    <3>3. OneActiveJob'
      <4>1. sid' = sid /\ state' = [state EXCEPT ![j] = "failed"]
        BY <1>11, <2>2 DEF Edit
      <4> QED BY <4>1, NoneStarted
    <3>4. MarkedAroundWrite'
      BY <1>11, <2>2 DEF Edit
    <3>5. WriterPastWrite'
      BY <1>11, <2>2 DEF Edit
    <3>6. NoHalfChange'
      BY <1>11, <2>2 DEF Edit
    <3>7. BackupIsNewest'
      BY <1>11, <2>2 DEF Edit
    <3> QED BY <3>1, <3>2, <3>3, <3>4, <3>5, <3>6, <3>7
  <2> QED BY <1>11, <2>1, <2>2 DEF Edit
<1>12. ASSUME NEW j \in Jobs, Write(j) PROVE IInv'
  BY <1>12 DEF Write
<1>13. ASSUME NEW j \in Jobs, WriteFail(j) PROVE IInv'
  BY <1>13 DEF WriteFail
<1>14. ASSUME NEW j \in Jobs, WriteBusy(j) PROVE IInv'
  BY <1>14 DEF WriteBusy
<1>15. ASSUME NEW j \in Jobs, BusyFail(j) PROVE IInv'
  BY <1>15 DEF BusyFail
<1>16. ASSUME NEW j \in Jobs, Written(j) PROVE IInv'
  BY <1>16 DEF Written
<1>17. ASSUME NEW j \in Jobs, Restart(j) PROVE IInv'
  BY <1>17 DEF Restart
<1>18. ASSUME NEW j \in Jobs, Verify(j) PROVE IInv'
  <2>1. CASE Close(j, "done")
    BY <1>18, <2>1 DEF Verify
  <2>2. CASE UNCHANGED rowVars
    BY <1>18, <2>2 DEF Verify
  <2> QED BY <1>18, <2>1, <2>2 DEF Verify
<1>19. ASSUME NEW j \in Jobs, Manage(j) PROVE IInv'
  BY <1>19 DEF Manage
<1>20. ASSUME NEW j \in Jobs, Rollback(j) PROVE IInv'
  BY <1>20 DEF Rollback
<1>21. ASSUME NEW j \in Jobs, Undo(j) PROVE IInv'
  <2>1. CASE Put(j, orig[j])
    BY <1>21, <2>1 DEF Undo
  <2>2. CASE \E text \in {file[target[j]], orig[j], Garbled} : Put(j, text)
    <3>1. LockHeld'
      BY <1>21, <2>2 DEF Undo
    <3>2. RowMatchesPoint'
      BY <1>21, <2>2 DEF Undo
    <3>3. OneActiveJob'
      BY <1>21, <2>2 DEF Undo
    <3>4. MarkedAroundWrite'
      BY <1>21, <2>2 DEF Undo
    <3>5. WriterPastWrite'
      BY <1>21, <2>2 DEF Undo
    <3>6. NoHalfChange'
      BY <1>21, <2>2 DEF Undo
    <3>7. BackupIsNewest'
      BY <1>21, <2>2 DEF Undo
    <3> QED BY <3>1, <3>2, <3>3, <3>4, <3>5, <3>6, <3>7
  <2> QED BY <1>21, <2>1, <2>2 DEF Undo
<1>22. ASSUME NEW j \in Jobs, Undone(j) PROVE IInv'
  <2>1. CASE Close(j, "rolled_back")
    BY <1>22, <2>1 DEF Undone
  <2>2. CASE Close(j, "failed")
    BY <1>22, <2>2 DEF Undone
  <2> QED BY <1>22, <2>1, <2>2 DEF Undone
<1>23. ASSUME NEW s \in Services, PlanMount(s) PROVE IInv'
  BY <1>23 DEF PlanMount
<1>24. ASSUME NEW s \in Services, DeleteService(s) PROVE IInv'
  BY <1>24 DEF DeleteService, Edited
<1>25. ASSUME NEW s \in Services, NEW c \in Containers, UpdateService(s, c) PROVE IInv'
  BY <1>25 DEF UpdateService, Edited
<1>26. ASSUME NEW c \in Containers, AppWrites(c) PROVE IInv'
  <2>1. LockHeld'
    BY <1>26, NoJobAssumption DEF AppWrites, Edited
  <2>2. RowMatchesPoint'
    BY <1>26, NoJobAssumption DEF AppWrites, Edited
  <2>3. OneActiveJob'
    BY <1>26, NoJobAssumption DEF AppWrites, Edited
  <2>4. MarkedAroundWrite'
    BY <1>26, NoJobAssumption DEF AppWrites, Edited
  <2>5. WriterPastWrite'
    BY <1>26, NoJobAssumption DEF AppWrites, Edited
  <2>6. NoHalfChange'
    BY <1>26, NoJobAssumption DEF AppWrites, Edited
  <2>7. BackupIsNewest'
    BY <1>26, NoJobAssumption DEF AppWrites, Edited
  <2> QED BY <2>1, <2>2, <2>3, <2>4, <2>5, <2>6, <2>7
<1>27. CASE Crash
  <2>1. LockHeld'
    BY <1>27 DEF Crash
  <2>2. RowMatchesPoint'
    BY <1>27 DEF Crash
  <2>3. OneActiveJob'
    BY <1>27 DEF Crash
  <2>4. MarkedAroundWrite'
    BY <1>27 DEF Crash
  <2>5. WriterPastWrite'
    BY <1>27 DEF Crash
  <2>6. NoHalfChange'
    <3>1. /\ pc' = [k \in Jobs |-> IF pc[k] = "free" THEN "free" ELSE "end"]
          /\ UNCHANGED <<writer, state, sid, live, file, orig, changed, backup>>
      BY <1>27 DEF Crash
    <3> SUFFICES ASSUME NEW k \in Jobs, NEW c \in Containers, writer[c] = k,
                        state[k] \in Finished, sid[k] \in live
                 PROVE  \/ state[k] = "done" /\ file[c] = sid[k]
                        \/ state[k] = "rolled_back" /\ file[c] = orig[k]
                        \/ state[k] = "failed" /\ k \in changed /\ backup[k] = orig[k]
      BY <3>1
    <3>2. pc[k] \in {"end", "written", "restart", "verify", "manage",
                     "rollback", "undo", "undone", "undofailed"}
      OBVIOUS
    <3>3. CASE pc[k] = "end"
      BY <3>3
    <3>4. CASE pc[k] \in {"written", "restart", "verify"}
      BY <3>4
    <3>5. CASE pc[k] = "manage"
      BY <3>5
    <3>6. CASE pc[k] \in {"rollback", "undo", "undone", "undofailed"}
      BY <3>6
    <3> QED BY <3>2, <3>3, <3>4, <3>5, <3>6
  <2>7. BackupIsNewest'
    BY <1>27 DEF Crash
  <2> QED BY <2>1, <2>2, <2>3, <2>4, <2>5, <2>6, <2>7
<1>28. CASE Boot
  <2>1. LockHeld'
    BY <1>28 DEF Boot, Interrupted, SweptState
  <2>2. RowMatchesPoint'
    <3>1. /\ state' = [k \in Jobs |-> IF k \in Interrupted THEN SweptState ELSE state[k]]
          /\ UNCHANGED <<pc, sid, live>> /\ backend = "down"
      BY <1>28 DEF Boot
    <3>2. ASSUME NEW k \in Jobs
          PROVE  pc'[k] = "end" \/ (pc'[k] = "free" /\ state'[k] = "none")
      <4>1. pc'[k] = pc[k] /\ pc[k] \in {"free", "end"}
        BY <3>1
      <4>2. pc[k] = "free" => state[k] = "none" /\ k \notin Interrupted
        BY DEF Interrupted
      <4> QED BY <3>1, <4>1, <4>2
    <3> QED BY <3>2
  <2>3. OneActiveJob'
    BY <1>28 DEF Boot, Interrupted, SweptState
  <2>4. MarkedAroundWrite'
    BY <1>28 DEF Boot, Interrupted, SweptState
  <2>5. WriterPastWrite'
    BY <1>28 DEF Boot, Interrupted, SweptState
  <2>6. NoHalfChange'
    BY <1>28 DEF Boot, Interrupted, SweptState
  <2>7. BackupIsNewest'
    BY <1>28 DEF Boot, Interrupted, SweptState
  <2> QED BY <2>1, <2>2, <2>3, <2>4, <2>5, <2>6, <2>7
<1> QED BY <1>1, <1>2, <1>3, <1>4, <1>5, <1>6, <1>7, <1>8, <1>9, <1>10, <1>11, <1>12,
       <1>13, <1>14, <1>15, <1>16, <1>17, <1>18, <1>19, <1>20, <1>21, <1>22, <1>23,
       <1>24, <1>25, <1>26, <1>27, <1>28 DEF Next, Request, Task

LEMMA Inductive == Spec => [](TypeOK /\ IInv)
<1>1. Init => TypeOK /\ IInv
  BY TypeInit, IInvInit
<1>2. TypeOK /\ IInv /\ [Next]_vars => (TypeOK /\ IInv)'
  BY TypeStep, IInvStep DEF IInv
<1> QED BY <1>1, <1>2, PTL DEF Spec

\* Every variable of the base-path job keeps its type, for any number of
\* services, containers and concurrent applies, and any number of crashes.
THEOREM TypeCorrect == Spec => []TypeOK
BY Inductive, PTL

\* The per-service lock and the 409 check together admit one unfinished job
\* of a service (mount_apply, service_mounts.py:77-98).
THEOREM OneActiveJobHolds == Spec => []OneActiveJob
<1>1. IInv => OneActiveJob
  BY DEF IInv
<1> QED BY <1>1, Inductive, PTL

\* No file carries the work of a job whose row does not admit a change: the
\* order of run_job's save and write (mount_jobs.py:243-244) suffices.
THEOREM ChangeIsMarkedHolds == Spec => []ChangeIsMarked
<1>1. IInv => ChangeIsMarked
  BY DEF IInv, WriterPastWrite, ChangeIsMarked
<1> QED BY <1>1, Inductive, PTL

\* A running job that may have written can be undone, also by hand: pruning
\* at any KEEP_BACKUPS >= 1 spares the directory it needs (mount_jobs.py:137).
THEOREM RestorePossibleHolds == Spec => []RestorePossible
<1>1. TypeOK /\ IInv => RestorePossible
  <2> SUFFICES ASSUME TypeOK, IInv, NEW j \in Jobs, state[j] = "running", j \in changed
               PROVE  /\ backup[j] = orig[j] /\ orig[j] # NoBackup
                      /\ \E i \in DOMAIN disk[sid[j]] : disk[sid[j]][i] = j
    BY DEF RestorePossible
  <2>1. backup[j] = orig[j] /\ orig[j] # NoBackup
    BY DEF IInv, MarkedAroundWrite
  <2>2. disk[sid[j]] # << >> /\ disk[sid[j]][Len(disk[sid[j]])] = j
    BY DEF IInv, BackupIsNewest
  <2>3. disk[sid[j]] \in Seq(Jobs)
    BY DEF TypeOK
  <2>4. Len(disk[sid[j]]) \in DOMAIN disk[sid[j]]
    BY <2>2, <2>3
  <2> QED BY <2>1, <2>2, <2>4
<1> QED BY <1>1, Inductive, PTL

\* Committed or restored or owned up to: what a finished row says of the file
\* it wrote last is true (run_job, mount_jobs.py:159-294).
THEOREM NoHalfChangeHolds == Spec => []NoHalfChange
<1>1. IInv => NoHalfChange
  BY DEF IInv
<1> QED BY <1>1, Inductive, PTL
=============================================================================
