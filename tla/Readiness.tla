------------------------------ MODULE Readiness ----------------------------
(***************************************************************************)
(* A desktop on Kubernetes (services/instance_readiness.py,                *)
(* services/k8s_instances.py, start, restart and stop of                   *)
(* routers/instances.py, the boot of services/background_loops.py): its    *)
(* Deployment is not up when it was patched, so the row is left "starting" *)
(* and a waiter asks the API until it is ready, or gives up.               *)
(*                                                                         *)
(* One desktop, whose Deployment exists.  What the API tells of it is the  *)
(* controller's last look.  Handlers and waiters are cut where they await. *)
(***************************************************************************)
EXTENDS Naturals

CONSTANTS
  Handlers,   \* requests
  Waiters,    \* bound: wait_until_ready tasks alive at once
  Timeout,    \* wait_until_ready's timeout, in ticks
  FATAL_GRACE,\* in ticks
  MaxOps,     \* bound: requests
  MaxCrashes  \* bound: restarts of the portal

Ages == 0..Timeout + 1

VARIABLES
  status,     \* the row: "stopped", "starting", "running", "error"
  dep,        \* the Deployment: [replicas, rev (of its template), generation]
  pod,        \* [rev, state]; rev 0 is no pod; "waiting", "fatal" or "ready"
  view,       \* its status: [observed, updated, ready, rev]; rev is the counted pod's
  req,        \* per handler: [op, at, loaded]
  task,       \* per waiter: [at, answer, age, fatal]; fatal is 0, or 1 + the time of it
  ops, crashes

vars == <<status, dep, pod, view, req, task, ops, crashes>>
cluster == <<dep, pod, view>>

Idle == [op |-> "none", at |-> "idle", loaded |-> "stopped"]
Off == [at |-> "off", answer |-> "none", age |-> 0, fatal |-> 0]

Init ==
  /\ status = "stopped"
  /\ dep = [replicas |-> 0, rev |-> 1, generation |-> 1]
  /\ pod = [rev |-> 0, state |-> "waiting"]
  /\ view = [observed |-> 1, updated |-> FALSE, ready |-> FALSE, rev |-> 0]
  /\ req = [h \in Handlers |-> Idle] /\ task = [w \in Waiters |-> Off]
  /\ ops = 0 /\ crashes = 0

-----------------------------------------------------------------------------
(* The cluster                                                             *)

\* The strategy is Recreate: no new pod before the old one is gone.
Controller ==
  /\ \/ /\ pod.rev # 0 /\ (dep.replicas = 0 \/ pod.rev # dep.rev)
        /\ pod' = [rev |-> 0, state |-> "waiting"]
     \/ /\ pod.rev = 0 /\ dep.replicas = 1
        /\ pod' = [rev |-> dep.rev, state |-> "waiting"]
  /\ UNCHANGED <<dep, view>>

Kubelet ==
  /\ pod.rev # 0
  /\ \E s \in {"waiting", "fatal", "ready"} \ {pod.state} : pod' = [pod EXCEPT !.state = s]
  /\ UNCHANGED <<dep, view>>

Observe ==
  /\ view' = [observed |-> dep.generation, updated |-> pod.rev = dep.rev,
              ready |-> pod.rev # 0 /\ pod.state = "ready", rev |-> pod.rev]
  /\ UNCHANGED <<dep, pod>>

Cluster ==
  /\ Controller \/ Kubelet \/ Observe
  /\ UNCHANGED <<status, req, task, ops, crashes>>

\* mutant: ready replicas are enough
Rolled_Always == TRUE

Rolled == view.observed >= dep.generation /\ view.updated

\* get_container_status, and _not_ready_reason from the pod itself
Says ==
  CASE dep.replicas = 0 -> "exited"
    [] dep.replicas = 1 /\ view.ready -> IF Rolled THEN "running" ELSE "wait"
    [] OTHER -> IF pod.rev # 0 /\ pod.state = "fatal" THEN "fatal" ELSE "wait"

-----------------------------------------------------------------------------
(* Requests                                                                *)

Load(h, op) ==
  /\ req[h].at = "idle" /\ ops < MaxOps
  /\ req' = [req EXCEPT ![h] = [op |-> op, at |-> "loaded", loaded |-> status]]
  /\ ops' = ops + 1
  /\ UNCHANGED <<status, cluster, task, crashes>>

StartInstance(h) == status # "running" /\ Load(h, "start")
StopInstance(h) == Load(h, "stop")
RestartInstance(h) == Load(h, "restart")

Patched(op) ==
  CASE op = "start" -> [dep EXCEPT !.replicas = 1]
    [] op = "stop" -> [dep EXCEPT !.replicas = 0]
    [] op = "restart" -> [dep EXCEPT !.rev = @ + 1]

\* start_container, stop_container, restart_container
Patch(h) ==
  /\ req[h].at = "loaded"
  /\ dep' = IF Patched(req[h].op) = dep THEN dep
            ELSE [Patched(req[h].op) EXCEPT !.generation = @ + 1]
  /\ req' = [req EXCEPT ![h].at = "patched"]
  /\ UNCHANGED <<status, pod, view, task, ops, crashes>>

\* defer_on_k8s parks the row
NewStatus(op) == IF op = "stop" THEN "stopped" ELSE "starting"

\*  The ORM writes the status only if it is not what it loaded.
Commit(h) ==
  /\ req[h].at = "patched"
  /\ LET new == NewStatus(req[h].op) IN
     /\ status' = IF new = req[h].loaded THEN status ELSE new
     /\ req' = [req EXCEPT ![h] = IF new = "starting" THEN [@ EXCEPT !.at = "committed"]
                                  ELSE Idle]
  /\ UNCHANGED <<cluster, task, ops, crashes>>

\* A task takes any free place: places are names only.
Free == {w \in Waiters : task[w].at = "off"}
Begin(w) == task' = [task EXCEPT ![w] = [Off EXCEPT !.at = "look"]]

\* kick, after the row was read again
Kick(h) ==
  /\ req[h].at = "committed"
  /\ IF status = "starting" THEN Free # {} /\ Begin(CHOOSE w \in Free : TRUE)
     ELSE UNCHANGED task
  /\ req' = [req EXCEPT ![h] = Idle]
  /\ UNCHANGED <<status, cluster, ops, crashes>>

GoesOn(h) == Patch(h) \/ Commit(h) \/ Kick(h)

-----------------------------------------------------------------------------
(* The waiter                                                              *)

Ends(w) == task' = [task EXCEPT ![w] = Off]

\* The row is read again: a waiter stops when it is not "starting" any more.
Look(w) ==
  /\ task[w].at = "look"
  /\ IF status = "starting" THEN task' = [task EXCEPT ![w].at = "ask"] ELSE Ends(w)
  /\ UNCHANGED <<status, cluster, req, ops, crashes>>

\* The API answers, or fails, which counts as waiting.
Ask(w) ==
  /\ task[w].at = "ask"
  /\ \E a \in {Says, "wait"} : task' = [task EXCEPT ![w].at = "answered", ![w].answer = a]
  /\ UNCHANGED <<status, cluster, req, ops, crashes>>

Fatal(w) == IF task[w].answer # "fatal" THEN 0
            ELSE IF task[w].fatal = 0 THEN 1 ELSE task[w].fatal
GivesUp(w) == Fatal(w) > FATAL_GRACE + 1 \/ task[w].age > Timeout

\* Whatever became of the row meanwhile, "running" or "error" is written over it.
Act(w) ==
  /\ task[w].at = "answered"
  /\ \/ task[w].answer = "running" /\ status' = "running" /\ Ends(w)
     \/ task[w].answer # "running" /\ GivesUp(w) /\ status' = "error" /\ Ends(w)
     \/ /\ task[w].answer # "running" /\ ~GivesUp(w)
        /\ task' = [task EXCEPT ![w].at = "look", ![w].answer = "none", ![w].fatal = Fatal(w)]
        /\ UNCHANGED status
  /\ UNCHANGED <<cluster, req, ops, crashes>>

Waiter(w) == Look(w) \/ Ask(w) \/ Act(w)

Later(n) == IF n > Timeout THEN n ELSE n + 1
Tick ==
  /\ task' = [w \in Waiters |-> IF task[w].at = "off" THEN Off
              ELSE [task[w] EXCEPT !.age = Later(@), !.fatal = IF @ = 0 THEN 0 ELSE Later(@)]]
  /\ UNCHANGED <<status, cluster, req, ops, crashes>>

-----------------------------------------------------------------------------
(* The portal restarts                                                     *)

\* start_waiting of every row that is still "starting"
Rekick ==
  LET first == CHOOSE w \in Waiters : TRUE
  IN  task' = [w \in Waiters |-> IF w = first /\ status' = "starting"
                                 THEN [Off EXCEPT !.at = "look"] ELSE Off]

\* _reconcile_instances_at_boot; an API that cannot be reached means nothing runs.
Restart ==
  /\ crashes < MaxCrashes /\ crashes' = crashes + 1
  /\ req' = [h \in Handlers |-> Idle]
  /\ \E reachable \in BOOLEAN :
       status' = IF status \in {"running", "starting"} /\ (~reachable \/ Says = "exited")
                 THEN "stopped" ELSE status
  /\ Rekick
  /\ UNCHANGED <<cluster, ops>>

Next ==
  \/ Cluster \/ Tick \/ Restart
  \/ \E h \in Handlers :
       StartInstance(h) \/ StopInstance(h) \/ RestartInstance(h) \/ GoesOn(h)
  \/ \E w \in Waiters : Waiter(w)

\* Handlers and tasks are scheduled, and time passes; nothing is assumed of the cluster.
Fairness ==
  /\ WF_vars(Tick)
  /\ \A h \in Handlers : WF_vars(GoesOn(h))
  /\ \A w \in Waiters : WF_vars(Waiter(w))

Spec == Init /\ [][Next]_vars /\ Fairness

-----------------------------------------------------------------------------
(* Properties                                                              *)

\* What the API says of a Deployment that was just patched, by the controller's last look at the
\* old pod, is not taken for the new desktop's readiness (k8s_instances.py:125-134).
ReadyIsNew == Says = "running" => view.rev = dep.rev

\* A row does not stay "starting": it runs, or it ends in an error when the pod cannot start or
\* the API does not answer, also when the portal restarts meanwhile.
StartingEnds == status = "starting" ~> status # "starting"

-----------------------------------------------------------------------------
(* Sentences of the code and its documents that the model refutes (README) *)

\* What a user asked for last stays: a stopped Deployment's row does not read as running once
\* every request and waiter is done.
StopStays == (\A h \in Handlers : req[h] = Idle) /\ (\A w \in Waiters : task[w].at = "off") =>
               ~(status = "running" /\ dep.replicas = 0)
=============================================================================
