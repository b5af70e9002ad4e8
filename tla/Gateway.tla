------------------------------- MODULE Gateway -------------------------------
(***************************************************************************)
(* Who may drive a GNOME seat, and at which size: the stream sockets of    *)
(* the agent's gateway, its viewers (one per browser tab), the owner of    *)
(* the seat size, game mode, and the refit that the gateway asks of the    *)
(* agent through a file (agent/gateway.py, viewers.py, refit.py,           *)
(* gamemode.py, and the refit branch of styx_agent.py).                    *)
(*                                                                         *)
(* asyncio runs a handler without a break from one await to the next: each *)
(* action is such a stretch.  A size stands for all sizes within the       *)
(* tolerance of one another after clamp(); a scale for a dpi.  selkies is  *)
(* external: it keeps one controller and drops the one before.             *)
(***************************************************************************)
EXTENDS Naturals, Sequences, SequencesExt

CONSTANTS
  Vids,       \* browser tabs (styx_vid)
  Shared,     \* the tabs that only watch (role=viewer)
  Socks,      \* stream sockets
  TabOf,      \* the tab a socket belongs to
  Sizes,
  Scales,
  FirstSize, FirstScale,
  FirstWindow, \* the sizes of the tabs' windows at first
  MaxEvents,  \* bound: resized windows, picked scales, game mode, failed refits, closed
              \* tabs and dropped sockets together
  None

ASSUME NamesAssumption ==
  /\ Shared \subseteq Vids /\ TabOf \in [Socks -> Vids]
  /\ FirstSize \in Sizes /\ FirstScale \in Scales /\ FirstWindow \in [Vids -> Sizes]
  /\ None \notin Vids \cup Sizes \cup Scales
ASSUME BoundAssumption == MaxEvents \in Nat

VARIABLES
  sock,     \* where the handler of each socket is; one cut or closed is "ending"
  told,     \* sockets over which the client has sent its window's size
  order,    \* by_vid: the known viewers, in the order they connected
  size,     \* Viewer.size
  dpi,      \* Viewer.dpi
  timer,    \* viewers whose settle timer is armed
  gone,     \* viewers whose grace timer is armed
  active,   \* viewers with input within the hold
  owner,    \* size_owner
  pin,      \* game mode pins the seat size
  scale,    \* the file seat-scale
  scaleDue, \* the scale changed after the last refit, restart_for_scale is armed
  age,      \* of the last refit: 0 within MIN_INTERVAL_S, 1 within REFIT_HOLD_S, 2 older
  request,  \* the file refit-request
  agent,    \* the size the agent is resizing to, or None
  seat,     \* the file seat-size
  stream,   \* the scale selkies' stream of the monitor was made at
  tabs,     \* tabs open in a browser
  window,   \* the size of each tab's window
  events

viewerVars == <<order, size, dpi, timer, gone, active>>
ownerVars  == <<owner, pin, scale, scaleDue, age>>
agentVars  == <<request, agent, seat, stream>>
clientVars == <<tabs, window, events>>
vars == <<sock, told, viewerVars, ownerVars, agentVars, clientVars>>

Known == ToSet(order)
Attached(v) == {s \in Socks : sock[s] \in {"open", "ending"} /\ TabOf[s] = v}
\* by_vid.pop: the ones behind v move up
Without(v) ==
  IF v \notin Known THEN order
  ELSE [i \in 1..(Len(order) - 1) |-> IF \E j \in 1..i : order[j] = v THEN order[i + 1] ELSE order[i]]
LiveTabs == {v \in Known : Attached(v) # {}}       \* Viewers.live
AskOnce == events < MaxEvents /\ events' = events + 1

Init ==
  /\ sock = [s \in Socks |-> "idle"] /\ told = {}
  /\ order = <<>> /\ size = [v \in Vids |-> None] /\ dpi = [v \in Vids |-> None]
  /\ timer = {} /\ gone = {} /\ active = {}
  /\ owner = None /\ pin = FALSE /\ scale = FirstScale /\ scaleDue = FALSE /\ age = 2
  /\ request = None /\ agent = None /\ seat = FirstSize /\ stream = FirstScale
  /\ tabs = Vids /\ window = FirstWindow /\ events = 0

\* SizeOwner.claim
Claim(v) == IF owner = None THEN v ELSE owner

\* Viewers.drop: what the gateway remembers of a tab goes
Forget(v, rest) ==
  /\ order' = rest /\ gone' = gone \ {v} /\ active' = active \ {v}
  /\ size' = [size EXCEPT ![v] = None] /\ dpi' = [dpi EXCEPT ![v] = None]

-----------------------------------------------------------------------------
(* The refit: what a handler asks of the agent.  All of this is code that  *)
(* runs inside a handler, so each operator relates the state after the     *)
(* handler's own changes (its arguments) to the next state.                *)

\* abort_for_refit, of every client
Hangups(after) == [s \in Socks |-> IF after[s] = "open" THEN "ending" ELSE after[s]]

\* write the request, cut every client socket; a scale change is served too
RequestRefit(z, socks) ==
  /\ request' = z /\ age' = 0 /\ scaleDue' = FALSE
  /\ sock' = Hangups(socks)

NoRefit(due, socks) == UNCHANGED <<request, age>> /\ scaleDue' = due /\ sock' = socks

\* fire_refit for the owner v whose last size is z: nothing to do, too soon, or a refit
FireRefit(v, z, socks, armed, due) ==
  LET connected == \E s \in Socks : socks[s] = "open" /\ TabOf[s] = v
      wanted == z # None /\ z # seat /\ connected
  IN  IF wanted /\ age # 0
      THEN RequestRefit(z, socks) /\ timer' = armed \ {v}
      ELSE /\ NoRefit(due, socks)
           /\ timer' = IF wanted THEN armed \cup {v} ELSE armed \ {v}

\* publish_scale: the file after the owner's choice d, and whether it changed
ScaleAfter(d) == IF d = None THEN scale ELSE d
DueAfter(d) == scaleDue \/ ScaleAfter(d) # scale

\* set_owner: v, known and not the owner yet
SetOwner(v, socks, armed) ==
  /\ owner' = v /\ scale' = ScaleAfter(dpi[v])
  /\ FireRefit(v, size[v], socks, armed \ {owner, v}, DueAfter(dpi[v]))

Keep(socks, armed) ==
  UNCHANGED <<owner, scale>> /\ NoRefit(scaleDue, socks) /\ timer' = armed

-----------------------------------------------------------------------------
(* A stream socket: ws_proxy                                               *)

\* Viewers.busy
Busy(v) == \E u \in LiveTabs : u \notin Shared /\ u # v /\ u \in active

\* An upgrade waits while a refit request is pending, at most REFIT_WAIT_S: it may go
\* on at any time.  Then it is refused (no change), or starts to connect to selkies.
Admit(s) ==
  /\ sock[s] = "idle" /\ TabOf[s] \in tabs
  /\ TabOf[s] \in Shared \/ ~Busy(TabOf[s])
  /\ sock' = [sock EXCEPT ![s] = "dialing"]
  /\ UNCHANGED <<told, viewerVars, ownerVars, agentVars, clientVars>>

\* selkies does not answer: 502
DialFails(s) ==
  /\ sock[s] = "dialing" /\ agent # None
  /\ sock' = [sock EXCEPT ![s] = "idle"]
  /\ UNCHANGED <<told, viewerVars, ownerVars, agentVars, clientVars>>

\* the sockets after selkies took s: it drops the controller it had
Taken(s) == [t \in Socks |->
  IF t = s THEN "open"
  ELSE IF sock[t] = "open" /\ TabOf[s] \notin Shared /\ TabOf[t] \notin Shared THEN "ending"
  ELSE sock[t]]

\* Viewers.connect: newest again after a full close
Connected(v) ==
  IF v \in Known /\ Attached(v) # {} THEN order
  ELSE Append(Without(v), v)

\* connected to selkies: attach, where a controller claims or takes the size
Attach(s) ==
  LET v == TabOf[s]
  IN  /\ sock[s] = "dialing" /\ agent = None
      /\ order' = Connected(v) /\ gone' = gone \ {v}
      /\ told' = told \ {s}
      /\ IF v \in Shared THEN Keep(Taken(s), timer)
         ELSE IF owner = None
              THEN owner' = Claim(v) /\ UNCHANGED scale /\ NoRefit(scaleDue, Taken(s)) /\ timer' = timer
              ELSE IF owner = v THEN Keep(Taken(s), timer)
              ELSE SetOwner(v, Taken(s), timer)
      /\ UNCHANGED <<size, dpi, active, pin, agent, seat, stream, clientVars>>

\* submit_size: remember the size, and let the owner's settle
SubmitSize(v, z) ==
  /\ size' = [size EXCEPT ![v] = z]
  /\ owner' = Claim(v)
  /\ timer' = IF owner' = v THEN timer \cup {v} ELSE timer

\* on_client, a resize: swallowed in game mode
Resize(s) ==
  LET v == TabOf[s]
  IN  /\ sock[s] = "open" /\ v \notin Shared /\ s \notin told
      /\ told' = told \cup {s}
      /\ IF pin THEN UNCHANGED <<size, owner, timer>> ELSE SubmitSize(v, window[v])
      /\ UNCHANGED <<sock, order, dpi, gone, active, pin, scale, scaleDue, age,
                     agentVars, clientVars>>

\* on_client, a scale picked on the page; it counts when the tab owns the seat
PickScale(s, d) ==
  LET v == TabOf[s]
  IN  /\ sock[s] = "open" /\ v \notin Shared /\ AskOnce
      /\ dpi' = [dpi EXCEPT ![v] = d]
      /\ IF owner = v THEN scale' = d /\ scaleDue' = DueAfter(d)
                      ELSE UNCHANGED <<scale, scaleDue>>
      /\ UNCHANGED <<sock, told, order, size, timer, gone, active, owner, pin, age,
                     agentVars, tabs, window>>

\* on_client: input after the connect burst holds the seat; later the hold ends
Input(s) ==
  /\ sock[s] = "open" /\ TabOf[s] \notin active
  /\ active' = active \cup {TabOf[s]}
  /\ UNCHANGED <<sock, told, order, size, dpi, timer, gone, ownerVars, agentVars, clientVars>>
Idle(v) ==
  /\ v \in active /\ active' = active \ {v}
  /\ UNCHANGED <<sock, told, order, size, dpi, timer, gone, ownerVars, agentVars, clientVars>>

\* the client of a closed tab leaves
Hangup(s) ==
  /\ sock[s] = "open" /\ TabOf[s] \notin tabs
  /\ sock' = [sock EXCEPT ![s] = "ending"]
  /\ UNCHANGED <<told, viewerVars, ownerVars, agentVars, clientVars>>

\* the network or the idle closer ends a socket
Drop(s) ==
  /\ sock[s] = "open" /\ AskOnce
  /\ sock' = [sock EXCEPT ![s] = "ending"]
  /\ UNCHANGED <<told, viewerVars, ownerVars, agentVars, tabs, window>>

\* ws_proxy's finally: the last socket of a tab starts its grace
Detach(s) ==
  LET v == TabOf[s]
      last == Attached(v) = {s}
  IN  /\ sock[s] = "ending" /\ sock' = [sock EXCEPT ![s] = "idle"]
      /\ told' = told \ {s}
      /\ timer' = IF last THEN timer \ {v} ELSE timer
      /\ gone' = IF last /\ v \in Known THEN gone \cup {v} ELSE gone
      /\ UNCHANGED <<order, size, dpi, active, ownerVars, agentVars, clientVars>>

-----------------------------------------------------------------------------
(* Timers and game mode                                                    *)

\* mutant: a timer that comes too soon is forgotten
Settle_NoRetry(v) ==
  /\ v \in timer /\ timer' = timer \ {v}
  /\ IF owner = v /\ age # 0 /\ size[v] # seat THEN RequestRefit(size[v], sock)
                                               ELSE NoRefit(scaleDue, sock)
  /\ UNCHANGED <<told, order, size, dpi, gone, active, owner, pin, scale,
                 agent, seat, stream, clientVars>>

\* fire_refit from its timer: a viewer that no longer owns the seat does nothing.
\* Within MIN_INTERVAL_S the timer arms itself again: it stays armed.
Settle(v) ==
  /\ v \in timer
  /\ age = 0 => owner # v \/ size[v] = seat
  /\ IF owner = v THEN FireRefit(v, size[v], sock, timer, scaleDue)
                  ELSE NoRefit(scaleDue, sock) /\ timer' = timer \ {v}
  /\ UNCHANGED <<told, order, size, dpi, gone, active, owner, pin, scale,
                 agent, seat, stream, clientVars>>

\* a scale change settled: refit at the live size, for a new stream
RestartForScale ==
  /\ scaleDue /\ RequestRefit(seat, sock)
  /\ UNCHANGED <<told, viewerVars, owner, pin, scale, agent, seat, stream, clientVars>>

\* Viewers.newest: the last of seq that is connected and drives (a set of one), or None
Newest(seq) ==
  LET fit == {i \in DOMAIN seq : seq[i] \in LiveTabs \ Shared}
  IN  IF fit = {} THEN {None} ELSE {seq[i] : i \in {i \in fit : \A j \in fit : j <= i}}

\* mutant: the seat stays with the tab that is forgotten
Expire_KeepOwner(v) ==
  LET rest == Without(v)
  IN  /\ v \in gone /\ Attached(v) = {} /\ age = 2
      /\ Forget(v, rest)
      /\ pin' = (pin /\ rest # <<>>)
      /\ Keep(sock, timer \ {v})
      /\ UNCHANGED <<told, agent, seat, stream, clientVars>>

\* The grace is over: forget the tab and hand the size to the newest one.
\* Within REFIT_HOLD_S of a refit the timer arms itself again.
Expire(v) ==
  LET rest == Without(v)
      armed == timer \ {v}
  IN  /\ v \in gone /\ Attached(v) = {} /\ age = 2
      /\ Forget(v, rest)
      /\ pin' = (pin /\ rest # <<>>)
      /\ IF owner # v THEN Keep(sock, armed)
         ELSE \E next \in Newest(rest) :
                IF next = None
                THEN owner' = None /\ UNCHANGED scale /\ NoRefit(scaleDue, sock) /\ timer' = armed
                ELSE SetOwner(next, sock, armed)
      /\ UNCHANGED <<told, agent, seat, stream, clientVars>>

\* POST /styx/gamemode from a page: the pin, and a size for the owner or the newest
Gamemode(v, on) ==
  /\ v \in tabs \ Shared /\ AskOnce /\ pin # on
  /\ pin' = on
  /\ \E rec \in IF owner \in Known THEN {owner} ELSE Newest(order) :
       IF rec = None THEN UNCHANGED <<size, owner, timer>> ELSE SubmitSize(rec, window[v])
  /\ UNCHANGED <<sock, told, order, dpi, gone, active, scale, scaleDue, age,
                 agentVars, tabs, window>>

Age ==
  /\ age < 2 /\ age' = age + 1
  /\ UNCHANGED <<sock, told, viewerVars, owner, pin, scale, scaleDue, agentVars, clientVars>>

-----------------------------------------------------------------------------
(* The agent                                                               *)

\* wait_for_request ends early
Requested == agent = None /\ request # None

\* It reads the request and kills selkies: every upstream socket closes.  The
\* seat is resized, or keeps its size.
TakeRequest(ok) ==
  /\ Requested /\ agent' = request
  /\ IF ok THEN seat' = request /\ UNCHANGED events ELSE AskOnce /\ UNCHANGED seat
  /\ sock' = Hangups(sock)
  /\ UNCHANGED <<told, viewerVars, ownerVars, request, stream, tabs, window>>

\* another selkies streams the monitor; the request is cleared, whatever it says by now
FinishRefit ==
  /\ agent # None /\ agent' = None /\ request' = None /\ stream' = scale
  /\ UNCHANGED <<sock, told, viewerVars, ownerVars, seat, clientVars>>

-----------------------------------------------------------------------------
(* The people                                                              *)

\* a window is resized: the client sends the new size over its socket
ResizeWindow(v, z) ==
  /\ v \in tabs \ Shared /\ z # window[v] /\ AskOnce
  /\ window' = [window EXCEPT ![v] = z]
  /\ told' = {s \in told : TabOf[s] # v}
  /\ UNCHANGED <<sock, viewerVars, ownerVars, agentVars, tabs>>

CloseTab(v) ==
  /\ v \in tabs /\ AskOnce
  /\ tabs' = tabs \ {v}
  /\ UNCHANGED <<sock, told, viewerVars, ownerVars, agentVars, window>>

Handler(s) == Admit(s) \/ DialFails(s) \/ Attach(s) \/ Resize(s) \/ Hangup(s) \/ Detach(s)
Timers == (\E v \in Vids : Settle(v) \/ Expire(v)) \/ RestartForScale \/ Age
Client == \/ \E s \in Socks : Input(s) \/ Drop(s) \/ \E d \in Scales : PickScale(s, d)
          \/ \E v \in Vids : Idle(v) \/ CloseTab(v) \/ (\E z \in Sizes : ResizeWindow(v, z))
                             \/ \E on \in BOOLEAN : Gamemode(v, on)
Next ==
  \/ \E s \in Socks : Handler(s)
  \/ Timers \/ Client
  \/ (\E ok \in BOOLEAN : TakeRequest(ok)) \/ FinishRefit

\* asyncio runs every handler and every timer that is due, the agent polls the
\* request file, and the page of an open tab reconnects and resends its size
Fairness ==
  /\ \A s \in Socks : WF_vars(Handler(s))
  /\ \A v \in Vids : WF_vars(Settle(v)) /\ WF_vars(Expire(v))
  /\ WF_vars(RestartForScale) /\ WF_vars(Age)
  /\ WF_vars(TakeRequest(TRUE)) /\ WF_vars(FinishRefit)

Spec == Init /\ [][Next]_vars /\ Fairness

-----------------------------------------------------------------------------
(* Properties                                                              *)

\* The seat size is never owned by a tab the gateway has forgotten, nor by one that
\* only watches, and while a controller is connected somebody owns it: after every
\* order of reconnects, refits and expiries (gateway.py:218-245).  A stale
\* owner would keep every later tab from resizing the desktop.
OwnerIsKnown ==
  /\ owner # None => owner \in Known \ Shared
  /\ owner = None => LiveTabs \subseteq Shared

\* The desktop gets the size of its owner's window: if a tab stays the owner, and game
\* mode does not pin the size, the seat ends at that size and stays there.  A request
\* that the agent clears unread, a refit that fails and a reconnect that is cut again
\* only delay it (gateway.py:187-203).
SizeConverges ==
  \A v \in Vids :
    <>[](owner = v /\ v \in tabs /\ ~pin) => <>[](seat = window[v])

\* A change of scale reaches the stream: mutter maps the pointer of a stream with the
\* scale the stream was made at, so selkies must be restarted after the change
\* (gateway.py:148-161), also one made while another refit is under way.
ScaleConverges == <>[](stream = scale)

\* Both, with resizes, changes of scale and the refits that serve them in any order.
GeometryConverges == SizeConverges /\ ScaleConverges

-----------------------------------------------------------------------------
(* Sentences of the code and its documents that the model refutes (README) *)

\* What gateway.py:64-68 says: a new controller tab is refused while another tab had
\* input within the hold.
ActiveSeatIsNotTaken ==
  [][\A s \in Socks : sock[s] = "dialing" /\ sock'[s] = "open" /\ TabOf[s] \notin Shared
                        => ~Busy(TabOf[s])]_vars
=============================================================================
