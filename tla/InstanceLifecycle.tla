-------------------------- MODULE InstanceLifecycle --------------------------
(***************************************************************************)
(* Desktop instances: the request handlers and the launch task of          *)
(* backend/app/routers/instances.py, the idle and crash monitor            *)
(* (session_monitor.py, background_loops.py) and the boot reconcile, all   *)
(* working on one table of rows and one Docker daemon.                     *)
(*                                                                         *)
(* Every handler loads the row, awaits Docker calls and commits.  Nothing  *)
(* locks a row: other handlers run at each await.  The ORM writes only the *)
(* columns whose value differs from what the session loaded, and the       *)
(* update of a row that is gone raises (StaleDataError).                   *)
(*                                                                         *)
(* Docker is external; time is the age of the last activity.  Not here:    *)
(* Kubernetes, volumes, images, networks other than isolation, routes.     *)
(***************************************************************************)
EXTENDS Naturals, FiniteSets

CONSTANTS
  Instances,   \* instance ids, each created at most once
  Boxes,       \* container ids
  MaxRequests, \* bound: API calls, each with the task it may start
  Name,        \* subdomain of an instance: its container is selkies-<subdomain>
  Profile,     \* profile volume of an instance
  FirstBox,    \* the container of an instance that exists at the start
  NewBox,      \* the container a request may create, at most one
  NoBox, NoProfile,
  MaxCrashes,  \* bound: kills of the backend
  MaxFaults    \* bound: Docker calls that fail, and containers that die

ASSUME NameAssumption == DOMAIN Name = Instances /\ DOMAIN Profile = Instances
Requests == 1..MaxRequests   \* numbered as they arrive

ASSUME BoxAssumption ==
  /\ NoBox \notin Boxes
  /\ FirstBox \in [Instances -> Boxes] /\ NewBox \in [Requests -> Boxes]
  /\ \A i, k \in Instances : FirstBox[i] = FirstBox[k] => i = k
  /\ \A q, r \in Requests : NewBox[q] = NewBox[r] => q = r
  /\ \A i \in Instances, r \in Requests : FirstBox[i] # NewBox[r]
ASSUME BoundAssumption ==
  MaxRequests \in Nat /\ MaxCrashes \in Nat /\ MaxFaults \in Nat

VARIABLES
  status,    \* Instance.status, or "none" before the row exists, "deleted" after
  cid,       \* Instance.container_id
  age,       \* of Instance.last_activity, against idle_timeout and grace_period
  box,       \* Docker's status of each container
  made,      \* the instance a container was created for
  isolated,  \* containers that ensure_isolated has moved off the portal network
  req,       \* each request: its place, what its session loaded and holds
  monitor,   \* "asleep", or inside a pass
  left,      \* the loaded rows the pass has still to visit
  loaded,    \* the status, age and container the pass loaded
  found,     \* the status the pass will write
  backend, crashes, faults

rowVars == <<status, cid, age>>
dockerVars == <<box, made, isolated>>
monitorVars == <<monitor, left, loaded, found>>
processVars == <<backend, crashes>>
vars == <<rowVars, dockerVars, req, monitorVars, processVars, faults>>

Statuses == {"none", "starting", "pulling", "running", "idle", "paused", "stopped",
             "error", "deleted"}
Ages     == {"recent", "idle", "over"}
Exists   == {"created", "running", "paused", "exited"}   \* docker knows the container
Down     == {"unborn", "gone", "exited"}                 \* "not_found" or "exited"
Active   == {"running", "starting", "pulling"}           \* profiles.ACTIVE
Kinds    == {"create", "start", "stop", "restart", "recreate", "pause", "unpause",
             "delete", "keepalive"}
DockerPoints == {"inspect", "stopbox", "removebox", "build", "isolate", "startbox",
                 "restartbox", "pausebox", "unpausebox"}
Points   == DockerPoints \cup {"free", "end", "insert", "launch", "mark", "save", "commit",
                               "unrow"}

AnyInstance == CHOOSE i \in Instances : TRUE
Rest(point) == [pc |-> point, kind |-> "stop", inst |-> AnyInstance, seen |-> "none",
                cid |-> NoBox, new |-> NoBox]

Present(i) == status[i] \notin {"none", "deleted"}
NameFree(i) == \A k \in Instances : Present(k) => Name[k] # Name[i]

\* profile_in_use: idle and paused holders are not counted
ProfileFree(i) ==
  Profile[i] = NoProfile \/
    \A k \in Instances \ {i} : Profile[k] = Profile[i] => status[k] \notin Active

Init ==
  /\ status \in [Instances -> {"none", "running", "stopped"}]
  /\ \A i, k \in Instances : i # k /\ Present(i) /\ Present(k) =>
       /\ Name[i] # Name[k]
       /\ Profile[i] = Profile[k] /\ Profile[i] # NoProfile =>
            ~(status[i] = "running" /\ status[k] = "running")
  /\ cid = [i \in Instances |-> IF Present(i) THEN FirstBox[i] ELSE NoBox]
  /\ age = [i \in Instances |-> "recent"]
  /\ made \in [Boxes -> Instances]
  /\ \A i \in Instances : made[FirstBox[i]] = i
  /\ \A b \in Boxes : (\A i \in Instances : b # FirstBox[i]) => made[b] = AnyInstance
  /\ box = [b \in Boxes |->
              IF b # FirstBox[made[b]] \/ ~Present(made[b]) THEN "unborn"
              ELSE IF status[made[b]] = "running" THEN "running" ELSE "exited"]
  /\ isolated = {b \in Boxes : box[b] # "unborn"}
  /\ req = [r \in Requests |-> Rest("free")]
  /\ monitor = "asleep" /\ left = {}
  /\ loaded = [i \in Instances |-> [status |-> "none", age |-> "recent", cid |-> NoBox]]
  /\ found = [i \in Instances |-> "same"]
  /\ backend = "up" /\ crashes = 0 /\ faults = 0

-----------------------------------------------------------------------------
(* Steps shared by the handlers                                            *)

At(r, point) == backend = "up" /\ req[r].pc = point

\* session.get(Instance): the handler keeps this copy over its awaits
Load(r, kind, i, point) ==
  /\ At(r, "free") /\ \A q \in 1..(r - 1) : req[q].pc # "free"
  /\ req' = [req EXCEPT ![r] = [pc |-> point, kind |-> kind, inst |-> i,
                                seen |-> status[i], cid |-> cid[i], new |-> NoBox]]

Goto(r, point) == req' = [req EXCEPT ![r].pc = point]
End(r) == req' = [req EXCEPT ![r] = Rest("end")]

\* mutant: the commit forgets container_id
UpdateRow_NoContainer(r, result) ==
  LET q == req[r] IN
  /\ status' = IF result = q.seen THEN status ELSE [status EXCEPT ![q.inst] = result]
  /\ UNCHANGED cid

\* commit: the columns that differ from the loaded ones
UpdateRow(r, result) ==
  LET q == req[r] IN
  /\ status' = IF result = q.seen THEN status ELSE [status EXCEPT ![q.inst] = result]
  /\ cid' = IF q.new # NoBox THEN [cid EXCEPT ![q.inst] = q.new] ELSE cid

\* a launch that raises marks its instance, if it still has a row
LaunchError(r) ==
  LET i == req[r].inst IN
  /\ status' = IF Present(i) THEN [status EXCEPT ![i] = "error"] ELSE status
  /\ UNCHANGED <<cid, age>>

\* an exception: a handler answers 500 and commits nothing
Abort(r) ==
  /\ End(r)
  /\ IF req[r].kind = "create" THEN LaunchError(r) ELSE UNCHANGED rowVars

-----------------------------------------------------------------------------
(* The handlers up to their first await                                    *)

CreateCheck(r, i) ==
  /\ status[i] = "none"
  /\ \A q \in Requests : req[q].pc = "insert" => req[q].inst # i
  /\ NameFree(i) /\ ProfileFree(i)
  /\ Load(r, "create", i, "insert")

StartLoad(r, i) ==
  /\ Present(i) /\ status[i] # "running" /\ ProfileFree(i)
  /\ Load(r, "start", i, IF cid[i] = NoBox THEN "build" ELSE "inspect")

StopLoad(r, i) ==
  Present(i) /\ Load(r, "stop", i, IF cid[i] = NoBox THEN "commit" ELSE "inspect")

RestartLoad(r, i) == Present(i) /\ cid[i] # NoBox /\ Load(r, "restart", i, "isolate")

RecreateLoad(r, i) ==
  /\ Present(i) /\ ProfileFree(i)
  /\ Load(r, "recreate", i, IF cid[i] = NoBox THEN "build" ELSE "inspect")

PauseLoad(r, i) == status[i] \in {"running", "idle"} /\ Load(r, "pause", i, "pausebox")
UnpauseLoad(r, i) == status[i] = "paused" /\ Load(r, "unpause", i, "unpausebox")

DeleteLoad(r, i) ==
  Present(i) /\ Load(r, "delete", i, IF cid[i] = NoBox THEN "unrow" ELSE "inspect")

KeepaliveLoad(r, i) == Present(i) /\ Load(r, "keepalive", i, "commit")

Accept(r, i) ==
  /\ \/ CreateCheck(r, i) \/ StartLoad(r, i) \/ StopLoad(r, i) \/ RestartLoad(r, i)
     \/ RecreateLoad(r, i) \/ PauseLoad(r, i) \/ UnpauseLoad(r, i) \/ DeleteLoad(r, i)
     \/ KeepaliveLoad(r, i)
  /\ UNCHANGED <<rowVars, dockerVars, monitorVars, processVars, faults>>

-----------------------------------------------------------------------------
(* create_instance after its checks, and _launch_instance_background       *)

CreateInsert(r) ==
  LET i == req[r].inst IN
  /\ At(r, "insert")
  /\ \/ /\ NameFree(i)
        /\ status' = [status EXCEPT ![i] = "starting"]
        /\ Goto(r, "launch")
     \/ /\ ~NameFree(i)                      \* unique index on subdomain
        /\ End(r)
        /\ UNCHANGED status
  /\ UNCHANGED <<cid, age, dockerVars, monitorVars, processVars, faults>>

LaunchLoad(r) ==
  LET i == req[r].inst IN
  /\ At(r, "launch")
  /\ IF Present(i)
     THEN req' = [req EXCEPT ![r].pc = "mark", ![r].seen = status[i], ![r].cid = cid[i]]
     ELSE End(r)
  /\ UNCHANGED <<rowVars, dockerVars, monitorVars, processVars, faults>>

\* "pulling" or "starting"; an unchanged status is not written, so a row that is
\* gone goes unnoticed
LaunchMark(r) ==
  LET q == req[r] IN
  /\ At(r, "mark")
  /\ \E mark \in {"pulling", "starting"} :
       \/ /\ Present(q.inst) \/ mark = q.seen
          /\ UpdateRow(r, mark)
          /\ req' = [req EXCEPT ![r].pc = "build", ![r].seen = mark]
       \/ /\ ~Present(q.inst) /\ mark # q.seen
          /\ End(r)
          /\ UNCHANGED <<status, cid>>
  /\ UNCHANGED <<age, dockerVars, monitorVars, processVars, faults>>

\* "starting" with the new container's id
LaunchSave(r) ==
  /\ At(r, "save")
  /\ \/ /\ Present(req[r].inst)
        /\ UpdateRow(r, "starting")
        /\ req' = [req EXCEPT ![r].pc = "isolate", ![r].seen = "starting",
                              ![r].new = NoBox]
     \/ /\ ~Present(req[r].inst)
        /\ End(r)
        /\ UNCHANGED <<status, cid>>
  /\ UNCHANGED <<age, dockerVars, monitorVars, processVars, faults>>

-----------------------------------------------------------------------------
(* Docker calls                                                            *)

\* mutant: start trusts an existing container to be isolated already
AfterInspect_Trusting(kind, now) ==
  CASE kind = "start"    -> IF now \in Exists THEN "startbox" ELSE "build"
    [] kind = "stop"     -> IF now \in Down THEN "commit" ELSE "stopbox"
    [] kind = "recreate" -> IF now \notin Exists THEN "build"
                            ELSE IF now = "exited" THEN "removebox" ELSE "stopbox"
    [] kind = "delete"   -> IF now \in Exists THEN "removebox" ELSE "unrow"
    [] OTHER             -> "end"

AfterInspect(kind, now) ==
  CASE kind = "start"    -> IF now \in Exists THEN "isolate" ELSE "build"
    [] kind = "stop"     -> IF now \in Down THEN "commit" ELSE "stopbox"
    [] kind = "recreate" -> IF now \notin Exists THEN "build"
                            ELSE IF now = "exited" THEN "removebox" ELSE "stopbox"
    [] kind = "delete"   -> IF now \in Exists THEN "removebox" ELSE "unrow"
    [] OTHER             -> "end"

Inspect(r) ==
  /\ At(r, "inspect")
  /\ Goto(r, AfterInspect(req[r].kind, box[req[r].cid]))
  /\ UNCHANGED <<rowVars, dockerVars, monitorVars, processVars, faults>>

\* One call on the request's container: in one of the states `from` it leaves the
\* container in `to`, in any other it raises.
Call(r, from, to, point) ==
  LET b == req[r].cid IN
  /\ \/ box[b] \in from /\ box' = [box EXCEPT ![b] = to] /\ Goto(r, point)
        /\ UNCHANGED rowVars
     \/ box[b] \notin from /\ Abort(r) /\ UNCHANGED box
  /\ UNCHANGED <<made, isolated, monitorVars, processVars, faults>>

StopBox(r) ==
  /\ At(r, "stopbox")
  /\ Call(r, Exists, IF box[req[r].cid] = "created" THEN "created" ELSE "exited",
          IF req[r].kind = "stop" THEN "commit" ELSE "removebox")

RemoveBox(r) ==
  /\ At(r, "removebox")
  /\ Call(r, Exists, "gone", IF req[r].kind = "recreate" THEN "build" ELSE "unrow")

StartBox(r) == At(r, "startbox") /\ Call(r, Exists \ {"paused"}, "running", "commit")
RestartBox(r) == At(r, "restartbox") /\ Call(r, Exists, "running", "commit")
PauseBox(r) == At(r, "pausebox") /\ Call(r, {"running"}, "paused", "commit")
UnpauseBox(r) == At(r, "unpausebox") /\ Call(r, {"paused"}, "running", "commit")

\* create_container removes whatever bears the name first
Build(r) ==
  LET q == req[r]
      b == NewBox[r]
      stale == {c \in Boxes : box[c] \in Exists /\ Name[made[c]] = Name[q.inst]}
  IN /\ At(r, "build")
     /\ box' = [c \in Boxes |-> IF c = b THEN "created"
                               ELSE IF c \in stale THEN "gone" ELSE box[c]]
     /\ made' = [made EXCEPT ![b] = q.inst]
     /\ req' = [req EXCEPT ![r].cid = b, ![r].new = b,
                           ![r].pc = IF q.kind = "create" THEN "save" ELSE "isolate"]
     /\ UNCHANGED <<rowVars, isolated, monitorVars, processVars, faults>>

\* ensure_isolated
Isolate(r) ==
  LET q == req[r] IN
  /\ At(r, "isolate")
  /\ \/ /\ box[q.cid] \in Exists
        /\ isolated' = isolated \cup {q.cid}
        /\ Goto(r, IF q.kind = "restart" THEN "restartbox" ELSE "startbox")
        /\ UNCHANGED rowVars
     \/ box[q.cid] \notin Exists /\ Abort(r) /\ UNCHANGED isolated
  /\ UNCHANGED <<box, made, monitorVars, processVars, faults>>

\* Any Docker call may fail; a container just built is then removed if it could
\* not be isolated.
Fault(r) ==
  LET q == req[r] IN
  /\ backend = "up" /\ q.pc \in DockerPoints
  /\ faults < MaxFaults /\ faults' = faults + 1
  /\ Abort(r)
  /\ box' = IF q.pc = "isolate" /\ q.new # NoBox /\ box[q.new] \in Exists
            THEN [box EXCEPT ![q.new] = "gone"] ELSE box
  /\ UNCHANGED <<made, isolated, monitorVars, processVars>>

-----------------------------------------------------------------------------
(* The commit that ends a handler                                          *)

Result(q) ==
  CASE q.kind = "stop"      -> "stopped"
    [] q.kind = "pause"     -> "paused"
    [] q.kind = "keepalive" -> IF q.seen = "idle" THEN "running" ELSE q.seen
    [] OTHER                -> "running"

Commit(r) ==
  LET q == req[r] IN
  /\ At(r, "commit")
  /\ \/ /\ Present(q.inst)
        /\ UpdateRow(r, Result(q))
        /\ age' = IF q.kind \in {"stop", "pause"} THEN age ELSE [age EXCEPT ![q.inst] = "recent"]
     \/ ~Present(q.inst) /\ UNCHANGED rowVars
  /\ End(r)
  /\ UNCHANGED <<dockerVars, monitorVars, processVars, faults>>

DeleteRow(r) ==
  LET i == req[r].inst IN
  /\ At(r, "unrow")
  /\ status' = [status EXCEPT ![i] = "deleted"]
  /\ cid' = [cid EXCEPT ![i] = NoBox]
  /\ age' = [age EXCEPT ![i] = "recent"]
  /\ End(r)
  /\ UNCHANGED <<dockerVars, monitorVars, processVars, faults>>

-----------------------------------------------------------------------------
(* _run_monitor_pass and SessionMonitor.check_instance                     *)

\* a pass that loads no row does nothing
MonitorLoad ==
  /\ backend = "up" /\ monitor = "asleep"
  /\ monitor' = "pass"
  /\ left' = {i \in Instances : status[i] \in {"running", "idle"}} /\ left' # {}
  /\ loaded' = [i \in Instances |->
                  IF i \in left' THEN [status |-> status[i], age |-> age[i], cid |-> cid[i]]
                  ELSE [status |-> "none", age |-> "recent", cid |-> NoBox]]
  /\ found' = [i \in Instances |-> "same"]
  /\ UNCHANGED <<rowVars, dockerVars, req, processVars, faults>>

\* mutant: only running instances are checked for a dead container
Verdict_RunningOnly(i) ==
  LET l == loaded[i] IN
  CASE box[l.cid] \in Down /\ l.status = "running" -> "stopped"
    [] l.status = "running" /\ l.age # "recent" -> "idle"
    [] OTHER                                    -> "same"

\* mutant: the stop is asked of running rows, which a pass turns idle long before
Verdict_StopsRunning(i) ==
  LET l == loaded[i] IN
  CASE box[l.cid] \in Down                      -> "stopped"
    [] l.status = "running" /\ l.age = "over"   -> "stopped"
    [] l.status = "running" /\ l.age # "recent" -> "idle"
    [] OTHER                                    -> "same"

\* what a visit decides, from the loaded row and Docker's answer
Verdict(i) ==
  LET l == loaded[i] IN
  CASE box[l.cid] \in Down                      -> "stopped"
    [] l.status = "idle" /\ l.age = "over"      -> "stopped"
    [] l.status = "running" /\ l.age # "recent" -> "idle"
    [] OTHER                                    -> "same"

MonitorVisit(i) ==
  LET b == loaded[i].cid IN
  /\ backend = "up" /\ monitor = "pass" /\ i \in left
  /\ left' = left \ {i}
  /\ found' = [found EXCEPT ![i] = Verdict(i)]
  /\ box' = IF Verdict(i) = "stopped" /\ box[b] \in {"running", "paused"}
            THEN [box EXCEPT ![b] = "exited"] ELSE box
  /\ UNCHANGED <<rowVars, made, isolated, req, monitor, loaded, processVars, faults>>

\* a Docker call raises: the rest of the pass is skipped
MonitorFault ==
  /\ backend = "up" /\ left # {}
  /\ faults < MaxFaults /\ faults' = faults + 1
  /\ left' = {}
  /\ UNCHANGED <<rowVars, dockerVars, req, monitor, loaded, found, processVars>>

\* the tick's commit: if one of its rows is gone, none is written
MonitorCommit ==
  LET dirty == {i \in Instances : found[i] # "same"} IN
  /\ backend = "up" /\ monitor = "pass" /\ left = {}
  /\ status' = IF \E i \in dirty : ~Present(i) THEN status
               ELSE [i \in Instances |-> IF i \in dirty THEN found[i] ELSE status[i]]
  /\ monitor' = "asleep"
  /\ loaded' = [i \in Instances |-> [status |-> "none", age |-> "recent", cid |-> NoBox]]
  /\ found' = [i \in Instances |-> "same"]
  /\ UNCHANGED <<cid, age, left, dockerVars, req, processVars, faults>>

-----------------------------------------------------------------------------
(* The rest of the system                                                  *)

Crash ==
  /\ backend = "up" /\ crashes < MaxCrashes
  /\ backend' = "down" /\ crashes' = crashes + 1
  /\ req' = [r \in Requests |-> IF req[r].pc = "free" THEN req[r] ELSE Rest("end")]
  /\ monitor' = "asleep" /\ left' = {}
  /\ loaded' = [i \in Instances |-> [status |-> "none", age |-> "recent", cid |-> NoBox]]
  /\ found' = [i \in Instances |-> "same"]
  /\ UNCHANGED <<rowVars, dockerVars, faults>>

\* mutant: the reconcile looks at running rows only
Reconciled_RunningOnly(i) ==
  IF status[i] = "running" /\ (cid[i] = NoBox \/ box[cid[i]] \in Down)
  THEN "stopped" ELSE status[i]

Reconciled(i) ==
  IF /\ status[i] \in {"running", "idle", "paused", "pulling", "starting"}
     /\ cid[i] = NoBox \/ box[cid[i]] \in Down
  THEN "stopped" ELSE status[i]

\* _reconcile_instances_at_boot, before the server listens; without Docker every
\* active instance is taken for stopped
Boot ==
  /\ backend = "down" /\ backend' = "up"
  /\ \/ status' = [i \in Instances |-> Reconciled(i)] /\ UNCHANGED faults
     \/ /\ faults < MaxFaults /\ faults' = faults + 1
        /\ status' = [i \in Instances |->
             IF status[i] \in {"running", "idle", "paused", "pulling", "starting"}
             THEN "stopped" ELSE status[i]]
  /\ UNCHANGED <<cid, age, dockerVars, req, monitorVars, crashes>>

\* the desktop exits or is killed on the host (external)
BoxDies(b) ==
  /\ box[b] \in {"running", "paused"}
  /\ faults < MaxFaults /\ faults' = faults + 1
  /\ box' = [box EXCEPT ![b] = "exited"]
  /\ UNCHANGED <<rowVars, made, isolated, req, monitorVars, processVars>>

\* idle_timeout, then grace_period, pass without activity
TimePasses(i) ==
  /\ status[i] \in {"running", "idle"} /\ age[i] # "over"
  /\ age' = [age EXCEPT ![i] = IF @ = "recent" THEN "idle" ELSE "over"]
  /\ UNCHANGED <<status, cid, dockerVars, req, monitorVars, processVars, faults>>

Handle(r) ==
  \/ CreateInsert(r) \/ LaunchLoad(r) \/ LaunchMark(r) \/ LaunchSave(r)
  \/ Inspect(r) \/ StopBox(r) \/ RemoveBox(r) \/ StartBox(r) \/ RestartBox(r)
  \/ PauseBox(r) \/ UnpauseBox(r) \/ Build(r) \/ Isolate(r)
  \/ Commit(r) \/ DeleteRow(r)

Monitor == MonitorLoad \/ (\E i \in Instances : MonitorVisit(i)) \/ MonitorCommit

Next ==
  \/ \E r \in Requests, i \in Instances : Accept(r, i)
  \/ \E r \in Requests : Handle(r) \/ Fault(r)
  \/ Monitor \/ MonitorFault
  \/ Crash \/ Boot
  \/ \E b \in Boxes : BoxDies(b)
  \/ \E i \in Instances : TimePasses(i)

\* The monitor ticks every 60 s and the container is restarted when the backend
\* dies.  Nothing is asked of the handlers: a Docker call may hang for ever.
Fairness == WF_vars(Monitor) /\ WF_vars(Boot)

Spec == Init /\ [][Next]_vars /\ Fairness

-----------------------------------------------------------------------------
Snapshots == [status : Statuses, age : Ages, cid : Boxes \cup {NoBox}]

TypeOK ==
  /\ status \in [Instances -> Statuses]
  /\ cid \in [Instances -> Boxes \cup {NoBox}]
  /\ age \in [Instances -> Ages]
  /\ box \in [Boxes -> {"unborn", "gone"} \cup Exists]
  /\ made \in [Boxes -> Instances]
  /\ isolated \subseteq Boxes
  /\ req \in [Requests -> [pc : Points, kind : Kinds, inst : Instances, seen : Statuses,
                           cid : Boxes \cup {NoBox}, new : Boxes \cup {NoBox}]]
  /\ monitor \in {"asleep", "pass"} /\ left \subseteq Instances
  /\ loaded \in [Instances -> Snapshots]
  /\ found \in [Instances -> {"same", "idle", "stopped"}]
  /\ backend \in {"up", "down"}
  /\ crashes \in 0..MaxCrashes /\ faults \in 0..MaxFaults

\* instances.py:59: never start a container that may share the portal network
\* with the backend, on any path, also one left over by a crash.
StartedIsIsolated == \A b \in Boxes : box[b] \in {"running", "paused"} => b \in isolated

\* What pause, unpause and the monitor rely on without a check: a row in use names
\* a container, and one that was created for it.
RowNamesItsBox ==
  \A i \in Instances : status[i] \in {"running", "idle", "paused"} =>
    cid[i] # NoBox /\ made[cid[i]] = i

\* After a boot with Docker no row claims a desktop that is not there, whatever
\* was in flight at the crash (background_loops.py:83).
BootAgrees ==
  [][backend = "down" /\ backend' = "up" /\ faults' = faults =>
       \A i \in Instances : status'[i] \in {"running", "idle", "paused"} =>
         box[cid[i]] \notin Down]_vars

\* A desktop that died is noticed, though handlers and passes write rows they
\* read long before, and passes are lost to deletions and faults.
DeathNoticed ==
  \A i \in Instances :
    status[i] \in {"running", "idle"} /\ box[cid[i]] \in Down
      ~> status[i] \notin {"running", "idle"} \/ box[cid[i]] \notin Down

\* desktops.md:25-27: an idle desktop whose grace period is over is stopped,
\* unless somebody comes back.
IdleStops ==
  \A i \in Instances :
    status[i] = "idle" /\ age[i] = "over" ~> status[i] # "idle" \/ age[i] # "over"

-----------------------------------------------------------------------------
(* Sentences of the code and its documents that the model refutes (README) *)

\* 2026-10-26-persistent-profiles-design.md:16: no two instances run on one
\* profile at a time.
OneInstancePerProfile ==
  \A i, k \in Instances : i # k /\ Profile[i] = Profile[k] /\ Profile[i] # NoProfile =>
    ~(status[i] \in Active /\ status[k] \in Active)

\* docs/use/desktops.md:42: deleting removes the container.
DeletedHasNoBox ==
  \A b \in Boxes : box[b] \in Exists =>
    \/ status[made[b]] # "deleted"
    \/ \E r \in Requests : req[r].inst = made[b] /\ req[r].pc \notin {"free", "end"}
=============================================================================
