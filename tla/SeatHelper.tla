----------------------------- MODULE SeatHelper -----------------------------
(***************************************************************************)
(* The size and the scale of a GNOME seat's virtual monitor: the agent's   *)
(* refit (agent/seat_gnome.py), the helper that holds the monitor          *)
(* (agent/seat_portal.py) and its scale (agent/seat_scale.py).             *)
(*                                                                         *)
(* The two processes talk through files: the request, the ready file, the  *)
(* scale wanted and the scale that is live.  Mutter may take any time to   *)
(* make a size current, and then resets the scale; the agent and the       *)
(* helper each give up after some time.  A scale that cannot be applied is *)
(* logged and not tried again.                                             *)
(***************************************************************************)
EXTENDS Naturals

CONSTANTS
  Sizes,
  MaxScale,   \* scales are 1 .. MaxScale
  MaxRefits,  \* bound: sizes asked for
  MaxDeaths,  \* bound: deaths of the helper
  MaxScaled   \* bound: changes of the scale

VARIABLES
  phase,    \* "idle", "live" (resize_live waits), "start", "back" (_start_helper waits)
  target,   \* the size the agent waits for
  size,     \* self.size
  helper,   \* "none", "starting" (poll), "up" (watch_resize, watch_scale)
  monitor,  \* Monitor.w, h
  pending,  \* rq["pending"] is set
  mode,     \* Mutter: the current size of the virtual monitor, None without one
  scale,    \* Mutter: its logical scale
  want,     \* seat-scale
  seenWant, \* sc["mtime"]: the scale file was read as it is
  live,     \* seat-scale-live
  failed,   \* ghost: the scale was looked at last and not applied, or not recorded
  ready,    \* the ready file
  request,  \* seat-resize-request
  left,     \* ghost: the request of a helper that died was left for the next one
  refits, deaths, scaled

agentVars == <<phase, target, size>>
helperVars == <<helper, monitor, pending>>
mutterVars == <<mode, scale>>
scaleVars == <<want, seenWant, live, failed>>
fileVars == <<ready, request>>
budget == <<refits, deaths, scaled>>
helpVars == <<agentVars, helperVars, mutterVars, scaleVars, fileVars, left, budget>>

None == "none"

\* a Monitor: a virtual monitor without a mode until its consumer plays
NewMonitor(s) == monitor' = s /\ mode' = None /\ scale' = 1

\* _write_ready
WriteReady == ready' = monitor

\* Monitor.stop, at the end of main: the virtual monitor is gone
NoMonitor == mode' = None

Init ==
  /\ \E s \in Sizes : size = s /\ target = s /\ monitor = s /\ mode = s /\ ready = s
  /\ phase = "idle" /\ helper = "up" /\ pending = FALSE
  /\ scale = 1 /\ want = 1 /\ seenWant = TRUE /\ live = 1 /\ failed = FALSE
  /\ request = None /\ left = FALSE
  /\ refits = 0 /\ deaths = 0 /\ scaled = 0

-----------------------------------------------------------------------------
(* The agent                                                               *)

\* main, with nothing read yet
HelperMain(s) == helper' = "starting" /\ pending' = FALSE /\ seenWant' = FALSE /\ NewMonitor(s)

\* _start_helper: the old helper is stopped, and removes its ready file and its monitor
StartHelper(s) ==
  /\ target' = s
  /\ HelperMain(s) /\ ready' = None
  /\ UNCHANGED <<want, live, failed>>

\* resize_live of a helper that runs
Resize(s) ==
  /\ phase = "idle" /\ helper # "none" /\ s # size /\ refits < MaxRefits
  /\ refits' = refits + 1
  /\ phase' = "live" /\ target' = s /\ request' = s /\ left' = FALSE
  /\ UNCHANGED <<size, helperVars, mutterVars, scaleVars, ready, deaths, scaled>>

\* the size and the size file, which the gateway and the next start read
WriteSize(s) == size' = s

\* The size is live: self.size and the size file.
Arrived ==
  /\ phase # "idle" /\ helper # "none" /\ ready = target
  /\ phase' = "idle" /\ WriteSize(target)
  /\ UNCHANGED <<target, helperVars, mutterVars, scaleVars, fileVars, left, budget>>

\* mutant: the request is not taken back when the wait is over
TakenBack_Never == request

\* resize_live: after HELPER_READY_S the request is taken back
TakenBack == None

\* refit: resize_live gave up, or its helper died, which leaves the request
ResizeFails ==
  /\ phase = "live" /\ phase' = "start"
  /\ \/ helper = "none" /\ request' = request
     \/ helper # "none" /\ ready # target /\ request' = TakenBack
  /\ StartHelper(target)
  /\ UNCHANGED <<size, left, budget>>

\* The new helper died, or did not get ready in time.
NotUp == helper = "none" \/ ready # target

\* refit: the new size did not come up, back to the old one
StartFails ==
  /\ phase = "start" /\ NotUp /\ phase' = "back"
  /\ StartHelper(size)
  /\ UNCHANGED <<size, request, left, budget>>

\* _stop_helper
StopHelper == helper' = "none" /\ pending' = FALSE /\ NoMonitor

\* refit: nor did the old one, and the helper is stopped
BackFails ==
  /\ phase = "back" /\ NotUp
  /\ phase' = "idle" /\ StopHelper /\ ready' = None
  /\ UNCHANGED <<target, size, monitor, scale, scaleVars, request, left, budget>>

\* start of a seat, or refit, without a helper
StartAnew(s) ==
  /\ phase = "idle" /\ helper = "none" /\ refits < MaxRefits
  /\ refits' = refits + 1
  /\ phase' = "start" /\ StartHelper(s)
  /\ UNCHANGED <<size, request, left, deaths, scaled>>

-----------------------------------------------------------------------------
(* The helper                                                              *)

\* apply_scale: the largest scale offered up to the one wanted, and the file that says it is
\* live; an exception of the bus, of Mutter or of the write is logged
Applied ==
  \/ \E pick \in 1 .. want : scale' = pick /\ live' = pick /\ failed' = FALSE
  \/ failed' = TRUE /\ live' = live /\ scale' \in {scale} \cup 1 .. want

\* watch_scale: the file counts as read before it is applied
Rescaled == seenWant' = TRUE /\ Applied

\* poll: the monitor is current; the scale follows
Ready ==
  /\ helper = "starting" /\ mode = monitor
  /\ helper' = "up" /\ WriteReady
  /\ UNCHANGED <<agentVars, monitor, pending, mutterVars, scaleVars, request, left, budget>>

\* watch_scale: at startup and when the file changed
WatchScale ==
  /\ helper = "up" /\ ~seenWant
  /\ Rescaled
  /\ UNCHANGED <<agentVars, helperVars, mode, want, fileVars, left, budget>>

\* watch_resize: a request is taken
TakeRequest ==
  /\ helper = "up" /\ ~pending /\ request # None
  /\ pending' = TRUE /\ monitor' = request /\ request' = None
  /\ UNCHANGED <<agentVars, helper, mutterVars, scaleVars, ready, left, budget>>

\* watch_resize: it is current
Resized ==
  /\ helper = "up" /\ pending /\ mode = monitor
  /\ pending' = FALSE /\ WriteReady
  /\ Rescaled
  /\ UNCHANGED <<agentVars, helper, monitor, mode, want, request, left, budget>>

\* watch_resize: ten seconds over
ResizeGivesUp ==
  /\ helper = "up" /\ pending /\ mode # monitor
  /\ pending' = FALSE
  /\ UNCHANGED <<agentVars, helper, monitor, mutterVars, scaleVars, fileVars, left, budget>>

\* Mutter makes the size of the consumer current, and resets the scale.
ModeSet ==
  /\ helper # "none" /\ mode # monitor
  /\ mode' = monitor /\ scale' = 1
  /\ UNCHANGED <<agentVars, helperVars, scaleVars, fileVars, left, budget>>

\* The helper dies, or GNOME ends its session; its monitor goes with it, a request not.
HelperDies ==
  /\ helper # "none" /\ deaths < MaxDeaths /\ deaths' = deaths + 1
  /\ StopHelper /\ left' = (left \/ request # None)
  /\ UNCHANGED <<agentVars, monitor, scale, scaleVars, fileVars, refits, scaled>>

\* write_scale: the file has another mtime
WriteScale(s) == want' = s /\ seenWant' = FALSE

\* The gateway writes the owner's scale.
Scale ==
  /\ scaled < MaxScaled /\ scaled' = scaled + 1
  /\ \E s \in 1 .. MaxScale \ {want} : WriteScale(s)
  /\ UNCHANGED <<agentVars, helperVars, mutterVars, live, failed, fileVars, left, refits, deaths>>

Next ==
  \/ \E s \in Sizes : Resize(s) \/ StartAnew(s)
  \/ Arrived \/ ResizeFails \/ StartFails \/ BackFails
  \/ Ready \/ WatchScale \/ TakeRequest \/ Resized \/ ResizeGivesUp
  \/ ModeSet \/ HelperDies \/ Scale

Spec == Init /\ [][Next]_helpVars

-----------------------------------------------------------------------------
(* Properties                                                              *)

\* Between refits the monitor has the size the agent has recorded, whatever was slow or
\* failed on the way, unless a helper found the request that its predecessor died with
\* (agent/seat_gnome.py resize_live, refit; agent/seat_portal.py watch_resize).
SizeIsLive == phase = "idle" /\ helper = "up" /\ ~left => mode = size

\* Selkies maps the pointer with the scale of the live file: between refits it is Mutter's
\* scale, unless the scale was changed since and is about to be applied, or could not be
\* applied (agent/seat_portal.py:526-530, agent/seat_scale.py:71-91).
ScaleIsLive == ~failed /\ phase = "idle" /\ helper = "up" /\ ~left /\ seenWant => live = scale

\* Refuted.  "Where the seat helper records the scale it applied (selkies must run at it)"
\* (agent/seat_scale.py:40): so it is for every scale that was looked at.
EveryScaleIsLive == phase = "idle" /\ helper = "up" /\ ~left /\ seenWant => live = scale

\* What the agent records of the monitor is what Mutter shows: size and scale.
SeatIsLive == SizeIsLive /\ ScaleIsLive
=============================================================================
