-------------------------------- MODULE Agent -------------------------------
(***************************************************************************)
(* The workstation agent as a whole: its remote update, its supervision    *)
(* loop, and the smaller machines that run beside them: the relay's meter, *)
(* the helper of a GNOME seat, its clipboard, the bridge between two       *)
(* clipboards, its keys, and the sockets of a labwc seat.  Machines that   *)
(* share no state, each on its own: the variables of the others keep their *)
(* initial values.                                                         *)
(***************************************************************************)
EXTENDS AgentUpdate

CONSTANTS
  Pages, MaxAge, IdleFor, Grace, MaxRelay, MaxRestarts,  \* RelayMeter
  Sizes, MaxScale, MaxRefits, MaxDeaths, MaxScaled,      \* SeatHelper
  MaxCopies, MaxServers,                                 \* SeatClipboard
  Images, Calm, MaxFails,                                \* ClipboardBridge
  Keys, MaxEvents,                                       \* KeyOrder
  MaxSlot, MaxFaults,                                    \* LabwcSeat
  MaxTroubles, EscalationLimit, Strikes                  \* Supervisor

ASSUME ServersAssumption == MaxServers \in Nat
ASSUME SizesAssumption == "none" \notin Sizes  \* a size is width by height
ASSUME SlotsAssumption == MaxSlot \in Nat
ASSUME TroublesAssumption ==
  MaxTroubles \in Nat /\ EscalationLimit \in Nat \ {0} /\ Strikes \in Nat \ {0}
ASSUME PagesAssumption == IsFiniteSet(Pages) /\ MaxRelay \in Nat
ASSUME LimitsAssumption == MaxAge \in Nat /\ IdleFor \in Nat /\ Grace \in Nat

VARIABLES
  part,
  sent, open, session, streak, total, gateway, file, seen, beat, metered, again, restarts,
  phase, target, size, helper, monitor, pending, mode, scale, want, seenWant, live, failed, ready,
  request, left, refits, deaths, scaled,
  copies, selection, signals, server, socket,
  clipA, clipB, lastA, lastB, readA, readB, poll, made, fails,
  held, onWire, down, early, mutter, events,
  pass, index, selkies, shell, bridge, seatSocket, appSocket, others, fresh, mixed, missed, faults,
  stage, wanted, cfg, due, applyNow, exitDue, engine, standby, door, internalPort, portFile, gnome,
  x11, marker, strikes, holder, rate, conn, starving, grace, revivals, kill, refit, troubles

Relay == INSTANCE RelayMeter
Helper == INSTANCE SeatHelper
Seat == INSTANCE SeatClipboard
Bridge == INSTANCE ClipboardBridge
Typing == INSTANCE KeyOrder
Labwc == INSTANCE LabwcSeat WITH pc <- pass, late <- missed
Procs == INSTANCE Supervisor WITH
           pc <- stage, want <- wanted, pending <- due, selkies <- engine, gateway <- door,
           helper <- holder, restarts <- revivals, request <- refit, events <- troubles,
           MaxEvents <- MaxTroubles

relayVars == <<sent, open, session, streak, total, gateway, file, seen, beat, metered, again,
               restarts>>
helpVars == <<phase, target, size, helper, monitor, pending, mode, scale, want, seenWant, live,
              failed, ready, request, left, refits, deaths, scaled>>
clipVars == <<copies, selection, signals, server, socket>>
bridgeVars == <<clipA, clipB, lastA, lastB, readA, readB, poll, made, fails>>
keyVars == <<held, onWire, down, early, mutter, events>>
labwcVars == <<pass, index, selkies, shell, bridge, seatSocket, appSocket, others, fresh, mixed,
               missed, faults>>
loopVars == <<stage, wanted, cfg, due, applyNow, exitDue, engine, standby, door, internalPort,
              portFile, gnome, x11, marker, strikes, holder, rate, conn, starving, grace, revivals,
              kill, refit, troubles>>
allVars == <<vars, relayVars, helpVars, clipVars, bridgeVars, keyVars, labwcVars, loopVars, part>>

InitAll ==
  /\ part \in {"update", "relay", "helper", "seat", "bridge", "typing", "labwc", "loop"}
  /\ Init /\ Relay!Init /\ Helper!Init /\ Seat!Init /\ Bridge!Init /\ Typing!Init
  /\ Labwc!Init /\ Procs!Init

NextAll ==
  /\ UNCHANGED part
  /\ \/ part = "update" /\ Next
        /\ UNCHANGED <<relayVars, helpVars, clipVars, bridgeVars, keyVars, labwcVars, loopVars>>
     \/ part = "relay" /\ Relay!Next
        /\ UNCHANGED <<vars, helpVars, clipVars, bridgeVars, keyVars, labwcVars, loopVars>>
     \/ part = "helper" /\ Helper!Next
        /\ UNCHANGED <<vars, relayVars, clipVars, bridgeVars, keyVars, labwcVars, loopVars>>
     \/ part = "seat" /\ Seat!Next
        /\ UNCHANGED <<vars, relayVars, helpVars, bridgeVars, keyVars, labwcVars, loopVars>>
     \/ part = "bridge" /\ Bridge!Next
        /\ UNCHANGED <<vars, relayVars, helpVars, clipVars, keyVars, labwcVars, loopVars>>
     \/ part = "typing" /\ Typing!Next
        /\ UNCHANGED <<vars, relayVars, helpVars, clipVars, bridgeVars, labwcVars, loopVars>>
     \/ part = "labwc" /\ Labwc!Next
        /\ UNCHANGED <<vars, relayVars, helpVars, clipVars, bridgeVars, keyVars, loopVars>>
     \/ part = "loop" /\ Procs!Next
        /\ UNCHANGED <<vars, relayVars, helpVars, clipVars, bridgeVars, keyVars, labwcVars>>

\* The fairness of AgentUpdate, ClipboardBridge and Supervisor, each in its part.
FairnessAll ==
  /\ WF_vars(part = "update" /\ Send) /\ WF_vars(part = "update" /\ Answered)
  /\ WF_vars(part = "update" /\ Updater)
  /\ SF_vars(part = "update" /\ \E m \in wire : m.mine /\ Heartbeat(m, TRUE))
  /\ WF_vars(part = "update" /\ \E m \in wire : ~m.mine /\ (Heartbeat(m, FALSE) \/ Lose(m)))
  /\ WF_bridgeVars(part = "bridge" /\ Bridge!ReadA)
  /\ WF_bridgeVars(part = "bridge" /\ Bridge!ReadB)
  /\ WF_bridgeVars(part = "bridge" /\ Bridge!Mirror)
  /\ WF_loopVars(part = "loop" /\ Procs!Loop)
  /\ WF_loopVars(part = "loop" /\ Procs!GraceEnds)

SpecAll == InitAll /\ [][NextAll]_allVars /\ FairnessAll

SessionIsCut == Relay!SessionIsCut
CountedOnce == Relay!CountedOnce

\* The relay's sessions: cut after their time, and counted once.
RelayIsMetered == SessionIsCut /\ CountedOnce

\* The seat the viewer gets is whole: a GNOME seat's monitor, a labwc seat's sockets.
SeatIsLive == Helper!SeatIsLive /\ Labwc!SeatIsWhole

ClipboardIsCurrent == Seat!ClipboardIsCurrent
SidesMeet == Bridge!SidesMeet
NoKeyStuck == Typing!NoKeyStuck
ProcessesAreCurrent == Procs!ProcessesAreCurrent
SeatComesBack == part = "loop" => Procs!SeatComesBack
=============================================================================
