------------------------------ MODULE MountJob ------------------------------
(***************************************************************************)
(* Managed base path: the job that writes a service's base path into its   *)
(* container's settings file (backend/app/services/mount_jobs.py) and the  *)
(* endpoint that starts it (backend/app/routers/service_mounts.py).        *)
(*                                                                         *)
(* A settings file is abstracted to the base path it holds.  The path of a *)
(* service is its slug, which is unique and never updated, so the service  *)
(* itself stands for it.  Every await of the code is a step boundary; the  *)
(* backend can be killed at each of them.  Database commits succeed.       *)
(***************************************************************************)
EXTENDS Naturals, Sequences

CONSTANTS
  Services,    \* proxied_services rows of kind docker-local
  Containers,  \* the app containers; two services may name the same one
  Jobs,        \* apply requests, each with the mount_jobs row it may insert
  Creatable,   \* services whose preset can write a missing settings file
  KeepBackups, \* KEEP_BACKUPS
  MaxCrashes,  \* bound: how often the backend is killed
  MaxEdits,    \* bound: service updates and deletions, writes of a file by others
  Unset,       \* the app's own file, without a base path
  Template,    \* the file Styx creates from the preset, without a base path
  Garbled,     \* a file that does not parse, or a write that partly landed
  Absent,      \* no settings file
  NoBackup, NoStep, NoJob,
  Outsider     \* the app or a person, as the writer of a file

ASSUME KeepAssumption == KeepBackups \in Nat \ {0}
ASSUME BoundsAssumption == MaxCrashes \in Nat /\ MaxEdits \in Nat
ASSUME ServicesAssumption == Services # {} /\ Creatable \subseteq Services
ASSUME ContentAssumption ==
  /\ Services \cap {Unset, Template, Garbled, Absent, NoBackup} = {}
  /\ Absent \notin {Unset, Template, Garbled, NoBackup}
  /\ NoBackup \notin {Unset, Template, Garbled}
  /\ Garbled \notin {Unset, Template}
ASSUME NoJobAssumption == NoJob \notin Jobs /\ Outsider \notin Jobs

VARIABLES
  live,     \* the services whose row still exists
  cont,     \* proxied_services.container
  managed,  \* the services with mount_managed set
  file,     \* the settings file inside each container
  disk,     \* backup directories of a service, oldest first, named by their job
  state, active, backup, changed,  \* mount_jobs rows: state, the step saved as
            \* "active", what backup_dir holds, and the jobs with changed set
  swept,    \* history: the jobs sweep_interrupted finished
  sid,      \* the service a request, its job row and its task are for
  lock,     \* _apply_locks: the request inside a service's critical section
  pc,       \* where the request of a job, then its run_job task, stands
  plan,     \* the kind of MountPlan the request computed
  target,   \* the container run_job captured
  orig,     \* `original`: the bytes run_job will restore
  backend,  \* the process is "up" or "down"
  crashes, edits,
  writer    \* history: the job or outsider that last changed each file

svcVars  == <<live, cont, managed>>
rowVars  == <<state, active, backup, changed, swept>>
taskVars == <<sid, plan, target, orig>>
boundVars == <<crashes, edits>>
vars == <<svcVars, file, disk, rowVars, lock, pc, taskVars, backend, boundVars, writer>>

Texts      == Services \cup {Unset, Template, Garbled}   \* what a file can hold
Unfinished == {"pending", "running"}
Finished   == {"done", "rolled_back", "failed"}
Steps      == {"backup", "apply", "restart", "verify"}
RequestPoints == {"planning", "insert"}
TaskPoints == {"preflight", "confirm", "backup", "stored", "apply", "write", "busy",
               "written", "restart", "verify", "manage", "rollback", "undo", "undone",
               "undofailed"}

AnyService == CHOOSE s \in Services : TRUE   \* before the request is made

Init ==
  /\ live = Services
  /\ cont \in [Services -> Containers]
  /\ managed = {}
  /\ file \in [Containers -> {Absent, Unset}]
  /\ disk = [s \in Services |-> << >>]
  /\ state = [j \in Jobs |-> "none"]
  /\ active = [j \in Jobs |-> NoStep]
  /\ backup = [j \in Jobs |-> NoBackup]
  /\ changed = {} /\ swept = {}
  /\ lock = [s \in Services |-> NoJob]
  /\ pc = [j \in Jobs |-> "free"]
  /\ plan = [j \in Jobs |-> "none"]
  /\ sid = [j \in Jobs |-> AnyService]
  /\ target = [j \in Jobs |-> cont[AnyService]]
  /\ orig = [j \in Jobs |-> NoBackup]
  /\ backend = "up"
  /\ crashes = 0 /\ edits = 0
  /\ writer = [c \in Containers |-> NoJob]

-----------------------------------------------------------------------------
(* mount_apply: one critical section per service                           *)

\* mutant: the 409 check forgets jobs that have not started yet
UnfinishedJobs_RunningOnly(s) == {k \in Jobs : sid[k] = s /\ state[k] = "running"}

UnfinishedJobs(s) == {k \in Jobs : sid[k] = s /\ state[k] \in Unfinished}

Goto(j, point) == pc' = [pc EXCEPT ![j] = point]
At(j, point) == backend = "up" /\ pc[j] = point

\* save(): the row's state and the one step it shows as "active"
Save(j, result, step) ==
  /\ state' = [state EXCEPT ![j] = result]
  /\ active' = [active EXCEPT ![j] = step]
  /\ UNCHANGED <<backup, changed, swept>>

Close(j, result) == Save(j, result, NoStep)

ApplyBegin(j, s) ==
  /\ At(j, "free")
  /\ lock[s] = NoJob
  /\ sid' = [sid EXCEPT ![j] = s]
  /\ \/ /\ UnfinishedJobs(s) = {}
        /\ lock' = [lock EXCEPT ![s] = j]
        /\ Goto(j, "planning")
     \/ /\ UnfinishedJobs(s) # {}            \* 409: a change is already running
        /\ Goto(j, "end")
        /\ UNCHANGED lock
  /\ UNCHANGED <<svcVars, file, disk, rowVars, plan, target, orig, backend, boundVars,
                 writer>>

\* What plan_mount can make of a settings file; any read may also fail.
PlanKind(s, text) ==
  CASE text = s -> "nochange"
    [] text \in Texts \ {s, Garbled} -> "edit"
    [] text = Absent /\ s \in Creatable -> "create"
    [] OTHER -> "none"

ApplyPlan(j) ==
  LET s == sid[j]
      kind == PlanKind(s, file[cont[s]])
  IN /\ At(j, "planning")
     /\ s \in live /\ kind # "none"
     /\ plan' = [plan EXCEPT ![j] = kind]
     /\ Goto(j, "insert")
     /\ UNCHANGED <<svcVars, file, disk, rowVars, lock, sid, target, orig, backend,
                    boundVars, writer>>

\* 404, an unreadable file, no consent, or the reviewed changes moved.
ApplyRefuse(j) ==
  /\ At(j, "planning")
  /\ lock' = [lock EXCEPT ![sid[j]] = NoJob]
  /\ Goto(j, "end")
  /\ UNCHANGED <<svcVars, file, disk, rowVars, taskVars, backend, boundVars, writer>>

ApplyInsert(j) ==
  /\ At(j, "insert")
  /\ Close(j, "pending")
  /\ lock' = [lock EXCEPT ![sid[j]] = NoJob]
  /\ Goto(j, "preflight")
  /\ UNCHANGED <<svcVars, file, disk, taskVars, backend, boundVars, writer>>

-----------------------------------------------------------------------------
(* run_job                                                                 *)

Preflight(j) ==
  LET s == sid[j] IN
  /\ At(j, "preflight")
  /\ \/ s \notin live /\ Close(j, "failed") /\ Goto(j, "end") /\ UNCHANGED target
     \/ /\ s \in live /\ plan[j] = "nochange"
        /\ Close(j, "done") /\ Goto(j, "confirm") /\ UNCHANGED target
     \/ /\ s \in live /\ plan[j] # "nochange"
        /\ Save(j, "running", "backup")
        /\ target' = [target EXCEPT ![j] = cont[s]]
        /\ Goto(j, "backup")
  /\ UNCHANGED <<svcVars, file, disk, lock, sid, plan, orig, backend, boundVars,
                 writer>>

\* _set_managed of a plan without changes; a deleted service fails the job
Confirm(j) ==
  LET s == sid[j] IN
  /\ At(j, "confirm")
  /\ \/ s \in live /\ managed' = managed \cup {s} /\ UNCHANGED rowVars
     \/ s \notin live /\ Close(j, "failed") /\ UNCHANGED managed
  /\ Goto(j, "end")
  /\ UNCHANGED <<live, cont, file, disk, lock, taskVars, backend, boundVars, writer>>

\* mutant: _prune keeps the oldest directories
Prune_Oldest(dirs) == IF Len(dirs) > KeepBackups THEN SubSeq(dirs, 1, KeepBackups) ELSE dirs

\* _prune: the newest KEEP_BACKUPS directories stay
Prune(dirs) ==
  IF Len(dirs) > KeepBackups THEN SubSeq(dirs, Len(dirs) - KeepBackups + 1, Len(dirs)) ELSE dirs

Backup(j) ==
  LET s == sid[j]
      text == IF plan[j] = "create" THEN Template ELSE file[target[j]]
  IN /\ At(j, "backup")
     /\ text # Absent
     /\ orig' = [orig EXCEPT ![j] = text]
     /\ disk' = [disk EXCEPT ![s] = Prune(Append(@, j))]
     /\ Goto(j, "stored")
     /\ UNCHANGED <<svcVars, file, rowVars, lock, sid, plan, target, backend,
                    boundVars, writer>>

\* the file vanished, a Docker read failed or the backup could not be stored
BackupFail(j) ==
  /\ At(j, "backup")
  /\ Close(j, "failed")
  /\ Goto(j, "end")
  /\ UNCHANGED <<svcVars, file, disk, lock, taskVars, backend, boundVars, writer>>

BackupSave(j) ==
  /\ At(j, "stored")
  /\ backup' = [backup EXCEPT ![j] = orig[j]]
  /\ active' = [active EXCEPT ![j] = "apply"]
  /\ UNCHANGED <<state, changed, swept>>
  /\ Goto(j, "apply")
  /\ UNCHANGED <<svcVars, file, disk, lock, taskVars, backend, boundVars, writer>>

\* edit_config, then save(changed=True) before the write is tried
Edit(j) ==
  /\ At(j, "apply")
  /\ \/ /\ orig[j] # Garbled
        /\ changed' = changed \cup {j}
        /\ Goto(j, "write")
        /\ UNCHANGED <<state, active, backup, swept>>
     \/ orig[j] = Garbled /\ Close(j, "failed") /\ Goto(j, "end")
  /\ UNCHANGED <<svcVars, file, disk, lock, taskVars, backend, boundVars, writer>>

\* docker.write_file of job j leaves text in its container
Put(j, text) ==
  LET c == target[j] IN
  /\ file' = [file EXCEPT ![c] = text]
  /\ writer' = IF text = file[c] THEN writer ELSE [writer EXCEPT ![c] = j]

Write(j) ==
  /\ At(j, "write")
  /\ file' = [file EXCEPT ![target[j]] = sid[j]]
  /\ writer' = [writer EXCEPT ![target[j]] = j]
  /\ Goto(j, "written")
  /\ UNCHANGED <<svcVars, disk, rowVars, lock, taskVars, backend, boundVars>>

\* any other error: the write may have landed, in part or as a whole
WriteFail(j) ==
  /\ At(j, "write")
  /\ \E text \in {file[target[j]], sid[j], Garbled} : Put(j, text)
  /\ Goto(j, "rollback")
  /\ UNCHANGED <<svcVars, disk, rowVars, lock, taskVars, backend, boundVars>>

\* "device or resource busy": the file is a mount of its own, nothing changed
WriteBusy(j) ==
  /\ At(j, "write")
  /\ changed' = changed \ {j}
  /\ UNCHANGED <<state, active, backup, swept>>
  /\ Goto(j, "busy")
  /\ UNCHANGED <<svcVars, file, disk, lock, taskVars, backend, boundVars, writer>>

BusyFail(j) ==
  /\ At(j, "busy")
  /\ Close(j, "failed")
  /\ Goto(j, "end")
  /\ UNCHANGED <<svcVars, file, disk, lock, taskVars, backend, boundVars, writer>>

Written(j) ==
  /\ At(j, "written")
  /\ Save(j, "running", "restart")
  /\ Goto(j, "restart")
  /\ UNCHANGED <<svcVars, file, disk, lock, taskVars, backend, boundVars, writer>>

Restart(j) ==
  /\ At(j, "restart")
  /\ \/ Save(j, "running", "verify") /\ Goto(j, "verify")
     \/ Goto(j, "rollback") /\ UNCHANGED rowVars
  /\ UNCHANGED <<svcVars, file, disk, lock, taskVars, backend, boundVars, writer>>

\* _verify: "ok", or "down"/"probe", which undo the change
Verify(j) ==
  /\ At(j, "verify")
  /\ \/ Close(j, "done") /\ Goto(j, "manage")
     \/ Goto(j, "rollback") /\ UNCHANGED rowVars
  /\ UNCHANGED <<svcVars, file, disk, lock, taskVars, backend, boundVars, writer>>

\* _finish_ok inside the try: a deleted service raises, and that rolls back
Manage(j) ==
  LET s == sid[j] IN
  /\ At(j, "manage")
  /\ \/ s \in live /\ managed' = managed \cup {s} /\ Goto(j, "end")
     \/ s \notin live /\ Goto(j, "rollback") /\ UNCHANGED managed
  /\ UNCHANGED <<live, cont, file, disk, rowVars, lock, taskVars, backend, boundVars,
                 writer>>

Rollback(j) ==
  /\ At(j, "rollback")
  /\ Save(j, state[j], NoStep)
  /\ Goto(j, "undo")
  /\ UNCHANGED <<svcVars, file, disk, lock, taskVars, backend, boundVars, writer>>

\* mutant: a failed restore is taken for a restored file
Undo_ErrorsSwallowed(j) ==
  /\ At(j, "undo")
  /\ \E text \in {file[target[j]], orig[j], Garbled} : Put(j, text)
  /\ Goto(j, "undone")
  /\ UNCHANGED <<svcVars, disk, rowVars, lock, taskVars, backend, boundVars>>

Undo(j) ==
  /\ At(j, "undo")
  /\ \/ Put(j, orig[j]) /\ Goto(j, "undone")
     \/ /\ \E text \in {file[target[j]], orig[j], Garbled} : Put(j, text)
        /\ Goto(j, "undofailed")
  /\ UNCHANGED <<svcVars, disk, rowVars, lock, taskVars, backend, boundVars>>

\* the second restart and the informative verify, then the final save
Undone(j) ==
  /\ \/ At(j, "undone") /\ (Close(j, "rolled_back") \/ Close(j, "failed"))
     \/ At(j, "undofailed") /\ Close(j, "failed")
  /\ Goto(j, "end")
  /\ UNCHANGED <<svcVars, file, disk, lock, taskVars, backend, boundVars, writer>>

-----------------------------------------------------------------------------
(* The rest of the system                                                  *)

Edited == edits < MaxEdits /\ edits' = edits + 1

\* mount_plan finds the base path already set
PlanMount(s) ==
  /\ backend = "up" /\ s \in live /\ s \notin managed
  /\ file[cont[s]] = s
  /\ managed' = managed \cup {s}
  /\ UNCHANGED <<live, cont, file, disk, rowVars, lock, pc, taskVars, backend,
                 boundVars, writer>>

\* update_service moves the service to another container; the slug is fixed
UpdateService(s, c) ==
  /\ backend = "up" /\ s \in live /\ c # cont[s]
  /\ cont' = [cont EXCEPT ![s] = c]
  /\ Edited
  /\ UNCHANGED <<live, managed, file, disk, rowVars, lock, pc, taskVars, backend,
                 crashes, writer>>

DeleteService(s) ==
  /\ backend = "up" /\ s \in live
  /\ live' = live \ {s}
  /\ Edited
  /\ UNCHANGED <<cont, managed, file, disk, rowVars, lock, pc, taskVars, backend,
                 crashes, writer>>

\* the app saves its settings, or a person edits them (external)
AppWrites(c) ==
  /\ \E text \in Services \cup {Unset} :
       text # file[c] /\ file' = [file EXCEPT ![c] = text]
  /\ writer' = [writer EXCEPT ![c] = Outsider]
  /\ Edited
  /\ UNCHANGED <<svcVars, disk, rowVars, lock, pc, taskVars, backend, crashes>>

\* the process dies: every request and task in it is gone
Crash ==
  /\ backend = "up" /\ crashes < MaxCrashes
  /\ backend' = "down"
  /\ crashes' = crashes + 1
  /\ pc' = [j \in Jobs |-> IF pc[j] = "free" THEN "free" ELSE "end"]
  /\ lock' = [s \in Services |-> NoJob]
  /\ UNCHANGED <<svcVars, file, disk, rowVars, taskVars, edits, writer>>

\* mutant: jobs that never started are left
Interrupted_RunningOnly == {j \in Jobs : state[j] = "running"}
Interrupted == {j \in Jobs : state[j] \in Unfinished}
SweptState == "failed"

\* sweep_interrupted; it looks for steps in state "running", which run_job never
\* saves, so the step saved as "active" stays active
Boot ==
  /\ backend = "down"
  /\ backend' = "up"
  /\ state' = [j \in Jobs |-> IF j \in Interrupted THEN SweptState ELSE state[j]]
  /\ swept' = swept \cup Interrupted
  /\ UNCHANGED <<svcVars, file, disk, active, backup, changed, lock, pc, taskVars,
                 boundVars, writer>>

Request(j) == ApplyPlan(j) \/ ApplyRefuse(j) \/ ApplyInsert(j)

Task(j) ==
  \/ Preflight(j) \/ Confirm(j)
  \/ Backup(j) \/ BackupFail(j) \/ BackupSave(j)
  \/ Edit(j) \/ Write(j) \/ WriteFail(j) \/ WriteBusy(j) \/ BusyFail(j) \/ Written(j)
  \/ Restart(j) \/ Verify(j) \/ Manage(j)
  \/ Rollback(j) \/ Undo(j) \/ Undone(j)

Next ==
  \/ \E j \in Jobs : Request(j) \/ Task(j)
  \/ \E j \in Jobs, s \in Services : ApplyBegin(j, s)
  \/ \E s \in Services : PlanMount(s) \/ DeleteService(s)
  \/ \E s \in Services, c \in Containers : UpdateService(s, c)
  \/ \E c \in Containers : AppWrites(c)
  \/ Crash \/ Boot

\* asyncio runs every ready task, Docker calls return or time out, the verify
\* loop has a budget, and the container is restarted when the backend dies.
Fairness ==
  /\ \A j \in Jobs : WF_vars(Request(j)) /\ WF_vars(Task(j))
  /\ WF_vars(Boot)

Spec == Init /\ [][Next]_vars /\ Fairness

-----------------------------------------------------------------------------
TypeOK ==
  /\ live \subseteq Services /\ managed \subseteq Services
  /\ cont \in [Services -> Containers]
  /\ file \in [Containers -> Texts \cup {Absent}]
  /\ disk \in [Services -> Seq(Jobs)]
  /\ state \in [Jobs -> {"none"} \cup Unfinished \cup Finished]
  /\ active \in [Jobs -> Steps \cup {NoStep}]
  /\ backup \in [Jobs -> Texts \cup {NoBackup}]
  /\ changed \subseteq Jobs /\ swept \subseteq Jobs
  /\ sid \in [Jobs -> Services]
  /\ lock \in [Services -> Jobs \cup {NoJob}]
  /\ pc \in [Jobs -> {"free", "end"} \cup RequestPoints \cup TaskPoints]
  /\ plan \in [Jobs -> {"none", "nochange", "edit", "create"}]
  /\ target \in [Jobs -> Containers]
  /\ orig \in [Jobs -> Texts \cup {NoBackup}]
  /\ backend \in {"up", "down"}
  /\ crashes \in 0..MaxCrashes /\ edits \in 0..MaxEdits
  /\ writer \in [Containers -> Jobs \cup {NoJob, Outsider}]

\* At most one change of a service is under way, whatever the number of
\* concurrent applies and however the backend dies (service_mounts.py:77-81).
OneActiveJob == \A s \in Services : \A j, k \in UnfinishedJobs(s) : j = k

\* The sweep's note "Nothing was changed" is never told of a job that changed
\* a settings file: `changed` is saved before the write (mount_jobs.py:243).
ChangeIsMarked ==
  \A j \in Jobs, c \in Containers : writer[c] = j => j \in changed

\* While a job that may have written is unfinished, the text it would restore
\* is both in its row's backup_dir and on disk: no later prune removed it.
RestorePossible ==
  \A j \in Jobs :
    state[j] = "running" /\ j \in changed =>
      /\ backup[j] = orig[j] /\ orig[j] # NoBackup
      /\ \E i \in DOMAIN disk[sid[j]] : disk[sid[j]][i] = j

\* A job that is over and wrote a file last left it either new, with the row
\* "done", or as found, with "rolled_back", or the row says "failed", says that
\* the file may have changed and names a backup that holds the old text.
NoHalfChange ==
  \A j \in Jobs, c \in Containers :
    LET s == sid[j] IN
    writer[c] = j /\ pc[j] = "end" /\ state[j] \in Finished /\ s \in live =>
      \/ state[j] = "done" /\ file[c] = s
      \/ state[j] = "rolled_back" /\ file[c] = orig[j]
      \/ state[j] = "failed" /\ j \in changed /\ backup[j] = orig[j]

\* Every accepted apply ends, through crashes too, and then no longer makes
\* the next apply of its service a 409.
JobEnds ==
  \A j \in Jobs : pc[j] \in RequestPoints \cup TaskPoints
                    ~> pc[j] = "end" /\ state[j] \notin Unfinished

-----------------------------------------------------------------------------
(* Sentences of the code and its documents that the model refutes (README) *)

\* test_mount_jobs.py:262: after the sweep the interrupted step is "failed".
SweptStepIsFailed == \A j \in Jobs : j \in swept => active[j] = NoStep

\* mount_jobs.py:149: a follow-up must never break a finished job.
DoneIsFinal == [][\A j \in Jobs : state[j] = "done" => state'[j] = "done"]_vars

\* models.py:422: mount_managed means the base path is confirmed.  Files the
\* app or a person wrote last are left out.
ManagedIsConfirmed ==
  \A s \in Services : s \in live /\ s \in managed =>
    file[cont[s]] = s \/ writer[cont[s]] = Outsider
=============================================================================
