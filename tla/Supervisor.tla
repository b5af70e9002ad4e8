----------------------------- MODULE Supervisor ------------------------------
(***************************************************************************)
(* The agent's supervision loop over a GNOME seat (agent/styx_agent.py     *)
(* run, agent_procs.py, seat_gnome.py): the live selkies and its warm      *)
(* standby, the gateway, GNOME and its capture helper, settings that wait  *)
(* for the viewers to leave, the port file, refits, the gateway's kill     *)
(* flag and the watchdog of streams without frames.                        *)
(*                                                                         *)
(* The loop is sequential: one action per part of a pass.  Around it       *)
(* processes die or hang, viewers come and go, the portal pushes settings  *)
(* and the gateway writes its files.  Settings are the fields the loop     *)
(* tells apart.  Not here: the labwc seat (LabwcSeat), the viewer's        *)
(* transport, and the agent's updates, icons and thumbnails.               *)
(***************************************************************************)
EXTENDS Naturals, FiniteSets

CONSTANTS
  MaxEvents,       \* bound: faults and pushes together
  EscalationLimit, \* engine restarts in the window that question the seat
  Strikes          \* unanswered probes that mark a deadlocked GNOME

\* idle: what the gateway enforces; fps: the helper's; seat: geometry; shell: which shell
Fields == {"idle", "fps", "seat", "shell"}
Settings == [Fields -> {0, 1}]
Parts == {"selkies", "standby", "gateway", "seat", "portal"}
Ports == {0, 1}

VARIABLES
  pc,         \* the part of the pass that comes next
  want,       \* the settings at the portal
  cfg,        \* the agent's settings, on disk
  pending,    \* keys of the deferred restart
  applyNow,   \* a security setting changed, viewers or not
  exitDue,    \* pending_exit: another seat shell is wanted
  selkies, standby, gateway,  \* a process: st, the settings it was launched with, its port
  internalPort,
  portFile,   \* the file selkies-port, read by the gateway
  gnome,      \* "down", "up" or "hung" (its main loop does not answer)
  x11,        \* GNOME was started with Xwayland
  marker,     \* the file seat-no-x11
  strikes,
  helper,     \* the seat helper: "none", "up" or "dead"
  rate,       \* the field fps of the settings the helper was last launched at
  conn,       \* the gateway's state file reports viewers
  starving,   \* and one of them without a frame for FRAME_START_TIMEOUT_S
  grace,      \* selkies was restarted within FRAME_START_TIMEOUT_S
  restarts,   \* engine restarts by the watchdog in its window
  kill,       \* the gateway's kill flag
  request,    \* a refit request
  events

procVars == <<selkies, standby, gateway, internalPort, portFile>>
seatVars == <<gnome, x11, marker, strikes, helper, rate>>
settingVars == <<want, cfg, pending, applyNow, exitDue>>
fileVars == <<conn, starving, kill, request>>
dogVars == <<grace, restarts>>
vars == <<pc, procVars, seatVars, settingVars, fileVars, dogVars, events>>

Zero == [f \in Fields |-> 0]
None == [st |-> "none", cfg |-> Zero, port |-> 0]
Proc(port) == [st |-> "up", cfg |-> cfg, port |-> port]
Killed(p, keys, key) == IF key \in keys THEN None ELSE p
Spend(n) == events + n <= MaxEvents /\ events' = events + n

\* mutant: the helper is not looked at
Alive_ShellOnly(g, h) == g # "down"

\* GnomeSeat.alive, of a shell and a helper
Alive(g, h) == g # "down" /\ h # "dead"

Init ==
  /\ pc = "apply"
  /\ want = Zero /\ cfg = Zero /\ pending = {} /\ applyNow = FALSE /\ exitDue = FALSE
  /\ selkies = None /\ standby = None /\ gateway = None /\ internalPort = 0 /\ portFile = 0
  /\ gnome = "down" /\ x11 = FALSE /\ marker = FALSE /\ strikes = 0
  /\ helper = "none" /\ rate = 0
  /\ conn = FALSE /\ starving = FALSE /\ grace = FALSE /\ restarts = 0
  /\ kill = FALSE /\ request = FALSE /\ events = 0

-----------------------------------------------------------------------------
(* What the loop reads and stops                                           *)

\* viewers_connected: what the gateway's file says, also of a gateway that is dead
ViewersConnected == conn

\* stream_starving_seconds: a live gateway whose viewer waits without a frame
Frameless == gateway.st = "up" /\ starving

\* restarts that were put off until the viewers leave can be made now
DeferredCanApply == (pending # {} \/ exitDue) /\ ~ViewersConnected

\* GnomeSeat.stop: the helper, then the shell with its whole group
StopSeat == gnome' = "down" /\ helper' = "none"

\* a GNOME deadlocked with Xwayland is started without it from now on
MarkFallback(dead) == marker' = (marker \/ dead)

-----------------------------------------------------------------------------
(* Settings                                                                *)

\* mutant: the standby keeps its old settings
RestartKeys_NoStandby(old, new) ==
  {"selkies", "gateway"}
  \cup (IF old["seat"] # new["seat"] THEN {"seat"}
        ELSE IF old["fps"] # new["fps"] THEN {"portal"} ELSE {})

\* settings_restart_keys
RestartKeys(old, new) ==
  {"selkies", "standby", "gateway"}
  \cup (IF old["seat"] # new["seat"] THEN {"seat"}
        ELSE IF old["fps"] # new["fps"] THEN {"portal"} ELSE {})

\* How two launches of the helper, at the new value and back at the old one, may
\* end: at the new, at the old, with a helper that exited, or with one that never
\* became ready and was stopped.
TwoTries == {"new", "old", "dead", "none"}
HelperAfter(r) == IF r \in {"new", "old"} THEN "up" ELSE r
SpendUnless(good) == IF good THEN UNCHANGED events ELSE Spend(1)

\* apply_portal_restart: GNOME is stopped if alive() then finds the helper dead
PortalRestart(r) ==
  /\ rate' = IF r = "new" THEN cfg["fps"] ELSE rate
  /\ SpendUnless(r = "new")
  /\ gnome' = IF r = "dead" THEN "down" ELSE gnome
  /\ helper' = IF r = "dead" THEN "none" ELSE HelperAfter(r)

\* restart_plan: everything without viewers, only the gateway for a security change
PlanKeys == IF ~ViewersConnected THEN pending ELSE IF applyNow THEN pending \cap {"gateway"} ELSE {}

\* the top of a pass: what was deferred
Apply(r) ==
  LET due == applyNow \/ ~ViewersConnected
      keys == IF due THEN PlanKeys ELSE {}
      portal == "portal" \in keys /\ "seat" \notin keys /\ Alive(gnome, helper)
  IN  /\ pc = "apply"
      /\ ~(exitDue /\ due)
      /\ pc' = "seat"
      /\ pending' = pending \ keys
      /\ applyNow' = FALSE
      /\ selkies' = Killed(selkies, keys, "selkies")
      /\ standby' = Killed(standby, keys, "standby")
      /\ gateway' = Killed(gateway, keys, "gateway")
      /\ IF portal THEN PortalRestart(r)
         ELSE /\ r = "new" /\ UNCHANGED <<rate, events>>
              /\ IF "seat" \in keys THEN StopSeat ELSE UNCHANGED <<gnome, helper>>
      /\ UNCHANGED <<want, cfg, exitDue, internalPort, portFile, x11, marker, strikes,
                     fileVars, dogVars>>

\* The shell is chosen once per process: the agent exits, and systemd starts it anew
\* over the other seat.
Exit ==
  /\ pc = "apply" /\ exitDue /\ (applyNow \/ ~ViewersConnected) /\ pc' = "off"
  /\ selkies' = None /\ standby' = None /\ gateway' = None /\ StopSeat
  /\ UNCHANGED <<internalPort, portFile, x11, marker, strikes, rate, settingVars, fileVars,
                 dogVars, events>>

\* The agent crashes, its processes with it, and starts anew; a refit request of the
\* old run is dropped.
Crash ==
  /\ pc # "off" /\ pc' = "apply" /\ Spend(1)
  /\ pending' = {} /\ applyNow' = FALSE /\ exitDue' = (cfg["shell"] = 1)
  /\ selkies' = None /\ standby' = None /\ gateway' = None /\ internalPort' = 0
  /\ StopSeat /\ strikes' = 0
  /\ grace' = FALSE /\ restarts' = 0 /\ request' = FALSE
  /\ UNCHANGED <<want, cfg, portFile, x11, marker, rate, conn, starving, kill>>

-----------------------------------------------------------------------------
(* The processes of a pass                                                 *)

\* healthy(): the probe counts strikes; the third marks this GNOME as deadlocked
Struck == gnome = "hung" /\ strikes + 1 >= Strikes

\* a GNOME with Xwayland is probed; one marked deadlocked is stopped.  Without a live
\* seat selkies and the standby are captured against nothing.
SeatCheck ==
  LET probed == x11 /\ Alive(gnome, helper)
      stop == probed /\ Struck
      dead == stop \/ ~Alive(gnome, helper)
  IN  /\ pc = "seat" /\ pc' = "start"
      /\ strikes' = IF ~probed THEN strikes ELSE IF gnome # "hung" \/ stop THEN 0 ELSE strikes + 1
      /\ MarkFallback(stop)
      /\ IF stop THEN StopSeat ELSE UNCHANGED <<gnome, helper>>
      /\ selkies' = IF dead THEN None ELSE selkies
      /\ standby' = IF dead THEN None ELSE standby
      /\ UNCHANGED <<gateway, internalPort, portFile, x11, rate, settingVars, fileVars, dogVars, events>>

\* ensure_gnome_seat.  A live seat is left alone; a dead helper alone is launched
\* again; else GNOME starts anew, which fails at once when the old helper has exited.
\* A start that fails ends in stop().
SeatStarts(ok) ==
  IF Alive(gnome, helper) THEN ok /\ UNCHANGED <<seatVars, events>>
  ELSE IF gnome # "down" THEN
    /\ helper' = IF ok THEN "up" ELSE "none"
    /\ gnome' = IF ok THEN gnome ELSE "down"
    /\ rate' = cfg["fps"] /\ SpendUnless(ok)
    /\ UNCHANGED <<x11, marker, strikes>>
  ELSE
    /\ (helper = "dead") => ~ok
    /\ gnome' = IF ok THEN "up" ELSE "down"
    /\ helper' = IF ok THEN "up" ELSE "none"
    /\ rate' = cfg["fps"] /\ strikes' = 0 /\ x11' = ~marker
    /\ IF ok \/ helper = "dead" THEN UNCHANGED <<marker, events>>
       ELSE Spend(1) /\ marker' \in {marker, TRUE}

\* publish_port, every pass: the port of the live selkies
Published == IF selkies.st = "up" THEN selkies.port ELSE internalPort

\* pick_free_port: not the one in use
FreePort(port) == 1 - port

\* selkies if it is not running, the port, the standby, the gateway
Start(ok) ==
  LET start == selkies.st # "up"
  IN  /\ pc = "start" /\ pc' = "watch"
      /\ IF start THEN SeatStarts(ok) ELSE ok /\ UNCHANGED <<seatVars, events>>
      /\ selkies' = IF ~start THEN selkies ELSE IF ok THEN Proc(internalPort) ELSE None
      /\ portFile' = Published
      /\ standby' = IF standby.st = "up" \/ selkies'.st = "none" \/ ~Alive(gnome', helper') THEN standby
                    ELSE Proc(FreePort(selkies'.port))
      /\ IF gateway.st = "up" THEN UNCHANGED <<gateway, conn, starving>>
         ELSE gateway' = Proc(0) /\ conn' = FALSE /\ starving' = FALSE
      /\ UNCHANGED <<internalPort, settingVars, kill, request, dogVars>>

\* on the last restart of the window the seat is probed
Escalate == gnome = "hung"

\* The stream-start watchdog: a viewer without frames restarts selkies, and after
\* EscalationLimit of that a GNOME that does not answer.
Watch ==
  LET fire == selkies.st = "up" /\ Frameless /\ ~grace
      last == restarts + 1 >= EscalationLimit
      stop == fire /\ last /\ Escalate
  IN  /\ pc = "watch" /\ pc' = IF fire THEN "apply" ELSE "beat"
      /\ selkies' = IF fire THEN None ELSE selkies
      /\ grace' = (grace \/ fire)
      /\ restarts' = IF ~fire THEN restarts ELSE IF last THEN 0 ELSE restarts + 1
      /\ standby' = IF stop THEN None ELSE standby
      /\ IF stop THEN StopSeat ELSE UNCHANGED <<gnome, helper>>
      /\ strikes' = IF fire /\ last /\ gnome = "up" THEN 0 ELSE strikes
      /\ MarkFallback(stop /\ x11 /\ Struck)
      /\ UNCHANGED <<gateway, internalPort, portFile, x11, rate, settingVars, fileVars, events>>

-----------------------------------------------------------------------------
(* The heartbeat and the wait                                              *)

\* merge_pending
Merged(old, new) == pending \cup RestartKeys(old, new)

\* drop_clients: the loop starts another gateway, whose viewers must sign in
DropClients == gateway' = None

MustApplyNow(old, new) == old["idle"] # new["idle"]

\* the portal answers with its settings, and perhaps with an order to drop the viewers
Beat(drop) ==
  /\ pc = "beat"
  /\ IF drop THEN DropClients ELSE UNCHANGED gateway
  /\ IF want = cfg
     THEN pc' = "wait" /\ UNCHANGED <<cfg, pending, applyNow>>
     ELSE /\ pc' = "apply" /\ cfg' = want
          /\ pending' = Merged(cfg, want)
          /\ applyNow' = (applyNow \/ MustApplyNow(cfg, want))
  /\ exitDue' = (exitDue \/ want["shell"] = 1)
  /\ UNCHANGED <<want, selkies, standby, internalPort, portFile, seatVars, fileVars,
                 dogVars, events>>

\* it does not answer
BeatFails ==
  /\ pc = "beat" /\ pc' = "wait" /\ Spend(1)
  /\ UNCHANGED <<procVars, seatVars, settingVars, fileVars, dogVars>>

\* cut_stream: a selkies whose flag was set is killed
Cut(p) == IF kill THEN None ELSE p

\* sleep_or_kill
Interrupted == kill \/ ~Alive(gnome, helper) \/ DeferredCanApply

\* The wait ends after the interval, or with a refit request; at once, before the
\* request is read, with a kill flag, a dead seat or settings that can be applied.
Wait ==
  /\ pc = "wait"
  /\ pc' = IF request /\ ~Interrupted THEN "refit" ELSE "apply"
  /\ kill' = FALSE /\ selkies' = Cut(selkies) /\ grace' = (grace \/ kill)
  /\ UNCHANGED <<standby, gateway, internalPort, portFile, seatVars, settingVars, conn,
                 starving, request, restarts, events>>

\* A refit: selkies is killed, the monitor resized (or the helper launched twice),
\* the standby promoted.  The request is cleared.
Refit(r) ==
  /\ pc = "refit" /\ pc' = "apply" /\ request' = FALSE
  /\ IF ~Alive(gnome, helper)
     THEN r = "new" /\ UNCHANGED <<procVars, seatVars, dogVars, events>>
     ELSE /\ SpendUnless(r = "new")
          /\ helper' = HelperAfter(r) /\ grace' = TRUE
          /\ IF standby.st = "up"
             THEN /\ selkies' = standby /\ internalPort' = standby.port
                  /\ portFile' = standby.port /\ standby' = None
             ELSE selkies' = None /\ UNCHANGED <<internalPort, portFile, standby>>
          /\ UNCHANGED <<gateway, gnome, x11, marker, strikes, rate, restarts>>
  /\ UNCHANGED <<settingVars, conn, starving, kill>>

-----------------------------------------------------------------------------
(* Around the loop                                                         *)

Die(p) == p.st = "up" /\ Spend(1)
SelkiesDies == Die(selkies) /\ selkies' = [selkies EXCEPT !.st = "dead"] /\
  UNCHANGED <<pc, standby, gateway, internalPort, portFile, seatVars, settingVars, fileVars, dogVars>>
StandbyDies == Die(standby) /\ standby' = [standby EXCEPT !.st = "dead"] /\
  UNCHANGED <<pc, selkies, gateway, internalPort, portFile, seatVars, settingVars, fileVars, dogVars>>
GatewayDies == Die(gateway) /\ gateway' = [gateway EXCEPT !.st = "dead"] /\
  UNCHANGED <<pc, selkies, standby, internalPort, portFile, seatVars, settingVars, fileVars, dogVars>>

\* a GNOME that dies takes its helper along, now or later
SeatDies(g, h) ==
  /\ gnome # "down" /\ Spend(1)
  /\ <<g, h>> \in {<<"down", "dead">>, <<"down", helper>>, <<"hung", helper>>}
                   \cup (IF helper = "up" THEN {<<gnome, "dead">>} ELSE {})
  /\ <<g, h>> # <<gnome, helper>>
  /\ gnome' = g /\ helper' = h
  /\ UNCHANGED <<pc, procVars, x11, marker, strikes, rate, settingVars, fileVars, dogVars>>

\* the portal's settings change
Push(f) ==
  /\ Spend(1) /\ want' = [want EXCEPT ![f] = 1 - want[f]]
  /\ UNCHANGED <<pc, cfg, pending, applyNow, exitDue, procVars, seatVars, fileVars, dogVars>>

\* the gateway's files
Viewers ==
  /\ gateway.st = "up" /\ conn' = ~conn /\ starving' = FALSE
  /\ UNCHANGED <<pc, procVars, seatVars, settingVars, kill, request, dogVars, events>>
Starve ==
  /\ gateway.st = "up" /\ conn /\ ~grace /\ ~starving /\ starving' = TRUE
  /\ SpendUnless(restarts > 0)   \* of a series only the first counts
  /\ UNCHANGED <<pc, procVars, seatVars, settingVars, conn, kill, request, dogVars>>
Frame ==
  /\ starving /\ selkies.st = "up" /\ helper = "up" /\ gnome = "up" /\ starving' = FALSE
  /\ UNCHANGED <<pc, procVars, seatVars, settingVars, conn, kill, request, dogVars, events>>
AskCut ==
  /\ gateway.st = "up" /\ conn /\ ~kill /\ kill' = TRUE /\ Spend(1)
  /\ UNCHANGED <<pc, procVars, seatVars, settingVars, conn, starving, request, dogVars>>
AskRefit ==
  /\ gateway.st = "up" /\ conn /\ ~request /\ request' = TRUE
  /\ UNCHANGED <<pc, procVars, seatVars, settingVars, conn, starving, kill, dogVars, events>>

\* time passes: a pass is shorter than the grace, the heartbeat and the wait are not
GraceEnds ==
  /\ grace /\ grace' = FALSE /\ pc \in {"beat", "wait"}
  /\ UNCHANGED <<pc, procVars, seatVars, settingVars, fileVars, restarts, events>>
WindowEnds ==
  /\ restarts > 0 /\ restarts' = 0
  /\ UNCHANGED <<pc, procVars, seatVars, settingVars, fileVars, grace, events>>

Loop ==
  \/ \E r \in TwoTries : Apply(r) \/ Refit(r)
  \/ Exit \/ SeatCheck \/ Watch \/ Wait
  \/ \E ok \in BOOLEAN : Start(ok)
  \/ \E drop \in BOOLEAN : Beat(drop)
Around ==
  \/ BeatFails \/ Crash \/ SelkiesDies \/ StandbyDies \/ GatewayDies
  \/ (\E g \in {"down", "up", "hung"}, h \in {"none", "up", "dead"} : SeatDies(g, h))
  \/ (\E f \in Fields : Push(f))
  \/ Viewers \/ Starve \/ Frame \/ AskCut \/ AskRefit \/ GraceEnds \/ WindowEnds
Next == Loop \/ Around

\* the loop never stops, and time passes
Fairness == WF_vars(Loop) /\ WF_vars(GraceEnds)

Spec == Init /\ [][Next]_vars /\ Fairness
-----------------------------------------------------------------------------
(* Properties                                                              *)

Processes == [st : {"none", "up", "dead"}, cfg : Settings, port : Ports]

\* Every variable keeps its type.
TypeOK ==
  /\ pc \in {"apply", "seat", "start", "watch", "beat", "wait", "refit", "off"}
  /\ want \in Settings /\ cfg \in Settings
  /\ pending \subseteq Parts /\ applyNow \in BOOLEAN /\ exitDue \in BOOLEAN
  /\ selkies \in Processes /\ standby \in Processes /\ gateway \in Processes
  /\ internalPort \in Ports /\ portFile \in Ports
  /\ gnome \in {"down", "up", "hung"} /\ x11 \in BOOLEAN /\ marker \in BOOLEAN
  /\ strikes \in 0..Strikes /\ helper \in {"none", "up", "dead"} /\ rate \in {0, 1}
  /\ conn \in BOOLEAN /\ starving \in BOOLEAN /\ kill \in BOOLEAN /\ request \in BOOLEAN
  /\ grace \in BOOLEAN /\ restarts \in 0..EscalationLimit /\ events \in 0..MaxEvents

\* A process that runs on older settings is due for a restart: whatever pushes, refits
\* that promote the standby, crashes and partial restarts came before, no process is
\* left on settings the portal has replaced (styx_agent.py:222-239, 381-395).
StaleIsPending ==
  \A p \in {<<"selkies", selkies>>, <<"standby", standby>>, <<"gateway", gateway>>} :
    p[2].st = "up" /\ p[2].cfg # cfg => p[1] \in pending

\* When the loop reports and waits, the port the gateway reads is the one of the live
\* selkies, and the standby has another: "a stale port means the gateway serves the
\* hold page to everyone" (styx_agent.py:119-137, 418-423).
PortIsLive ==
  pc \in {"watch", "beat", "wait"} /\ selkies.st = "up" =>
    portFile = selkies.port /\ (standby.st = "up" => standby.port # selkies.port)

\* No restart that is due is forgotten, and the gateway finds the engine, after any pass.
ProcessesAreCurrent == StaleIsPending /\ PortIsLive

\* After any deaths, hangs, failed starts and crashes the loop gets a live selkies over
\* a live seat again and again, and no GNOME that hangs with Xwayland stays
\* (styx_agent.py:245-262, seat_gnome.py:239-271).
SeatComesBack ==
  []<>(pc = "off" \/ (selkies.st = "up" /\ gnome # "down" /\ helper # "dead"
                         /\ ~(gnome = "hung" /\ x11)))

-----------------------------------------------------------------------------
(* Sentences of the code and its documents that the model refutes (README) *)

\* What seat_gnome.py:341-342 and 351-353 say: a failed refit or framerate change never
\* leaves the seat without the helper that owns its monitor.
SeatHasMonitor == pc = "wait" /\ gnome = "up" => helper # "none"
=============================================================================
