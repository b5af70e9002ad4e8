----------------------------- MODULE LabwcSeat ------------------------------
(***************************************************************************)
(* The labwc seat of the agent (agent/styx_agent.py start_selkies,         *)
(* start_labwc_shell, agent/seat_labwc.py, the sockets of agent/engine.py, *)
(* agent_procs.py _restart_engine): selkies is the compositor, labwc runs  *)
(* in it as the shell and is a compositor too, and the clipboard bridge    *)
(* joins the two.  Nobody says which wayland-N a compositor took: the      *)
(* agent waits for a socket to appear.                                     *)
(*                                                                         *)
(* Slot 0 is held by the agent (guard_default_socket).  A compositor takes *)
(* the first free slot; sessions of others come and go.  labwc ends with   *)
(* the compositor it runs in.                                              *)
(***************************************************************************)
EXTENDS Naturals, FiniteSets

CONSTANTS
  MaxSlot,   \* bound: the slots are 1 .. MaxSlot
  MaxFaults  \* bound: deaths, waits that end without a socket, restarts, other sessions

VARIABLES
  pc,         \* "start", "seek", "shell", "hunt", "check", "rehunt", "bridge", "wait"
  index,      \* cfg["seat_socket_index"], on disk
  selkies,    \* st, the index it was launched with, the slot its compositor took
  shell,      \* labwc: st, the compositor it runs in, the slot it took
  bridge,     \* the clipboard bridge: st and its two sockets
  seatSocket, \* what the agent found, 0 for None
  appSocket,
  others,     \* slots of other sessions
  fresh,      \* slots taken since the wait in progress made its list
  mixed,      \* ghost: a wait found a socket that is not the one it waited for
  late,       \* ghost: the last wait for labwc's socket ended without one
  faults

found == <<seatSocket, appSocket>>
ghosts == <<mixed, late>>
labwcVars == <<pc, index, selkies, shell, bridge, found, others, fresh, ghosts, faults>>

Slots == 1 .. MaxSlot
NoEngine == [st |-> "none", index |-> 0, at |-> 0]
NoShell == [st |-> "none", on |-> 0, at |-> 0]
NoBridge == [st |-> "none", seat |-> 0, app |-> 0]
Lowest(S) == {s \in S : \A t \in S : s <= t}  \* empty, or one slot
Free == Slots \ (others \cup {selkies.at, shell.at})
Fault == faults < MaxFaults /\ faults' = faults + 1

\* labwc after the compositor at this slot is gone
Orphan(slot) == IF shell.st = "up" /\ shell.on = slot THEN [NoShell EXCEPT !.st = "dead"] ELSE shell

\* The index of the last run; another session may be there already.
Init ==
  /\ pc = "start" /\ index \in {1, 2}
  /\ selkies = NoEngine /\ shell = NoShell /\ bridge = NoBridge
  /\ seatSocket = 0 /\ appSocket = 0
  /\ others \in {{}, {1}} /\ fresh = {} /\ mixed = FALSE /\ late = FALSE /\ faults = 0

-----------------------------------------------------------------------------
(* The loop                                                                *)

\* start_selkies: the sockets are about to change
StartSelkies ==
  /\ pc = "start" /\ selkies.st # "up" /\ pc' = "seek"
  /\ seatSocket' = 0 /\ appSocket' = 0 /\ bridge' = NoBridge
  /\ selkies' = [st |-> "up", index |-> index, at |-> 0]
  /\ fresh' = {} /\ mixed' = FALSE /\ late' = FALSE
  /\ UNCHANGED <<index, shell, others, faults>>

Runs ==
  /\ pc = "start" /\ selkies.st = "up" /\ pc' = "check"
  /\ UNCHANGED <<index, selkies, shell, bridge, found, others, fresh, ghosts, faults>>

\* wait_for_wayland_socket: the first by name of the fresh ones
Appeared(exclude) == Lowest(fresh \ exclude)

\* The seat's socket.  selkies' own helpers go by the index it was launched with: with
\* another one it is launched again.
Seek ==
  /\ pc = "seek"
  /\ \E s \in Appeared({}) :
       /\ seatSocket' = s /\ mixed' = (s # selkies.at)
       /\ index' = s
       /\ \/ s = index /\ pc' = "shell" /\ UNCHANGED <<selkies, shell>>
          \/ s # index /\ pc' = "check" /\ selkies' = NoEngine /\ shell' = Orphan(selkies.at)
  /\ UNCHANGED <<bridge, appSocket, others, fresh, late, faults>>

SeekFails ==
  /\ pc = "seek" /\ fresh = {} /\ pc' = "check" /\ Fault
  /\ UNCHANGED <<index, selkies, shell, bridge, found, others, fresh, ghosts>>

\* start_shell; the list is made just before, and what is a second old is fresh too
StartShell(next, slack) ==
  /\ shell' = [st |-> "up", on |-> seatSocket, at |-> 0]
  /\ fresh' = slack /\ pc' = next
  /\ UNCHANGED <<index, selkies, bridge, found, others, ghosts, faults>>

Shell == pc = "shell" /\ StartShell("hunt", fresh)

\* labwc's socket, and a bridge to it
Hunt(next) ==
  /\ pc' = next /\ late' = FALSE
  /\ \E s \in Appeared({seatSocket}) :
       /\ appSocket' = s /\ mixed' = (mixed \/ s # shell.at)
       /\ bridge' = [st |-> "up", seat |-> seatSocket, app |-> s]
  /\ UNCHANGED <<index, selkies, shell, seatSocket, others, fresh, faults>>

HuntFails(next) ==
  /\ fresh \ {seatSocket} = {} /\ pc' = next /\ Fault /\ late' = TRUE
  /\ UNCHANGED <<index, selkies, shell, bridge, found, others, fresh, mixed>>

Hunts ==
  \/ pc = "hunt" /\ (Hunt("check") \/ HuntFails("check"))
  \/ pc = "rehunt" /\ (Hunt("bridge") \/ HuntFails("bridge"))

\* a shell that exited is started again
Check ==
  /\ pc = "check"
  /\ IF seatSocket # 0 /\ selkies.st = "up" /\ shell.st # "up" THEN StartShell("rehunt", {})
     ELSE /\ pc' = "bridge"
          /\ UNCHANGED <<index, selkies, shell, bridge, found, others, fresh, ghosts, faults>>

\* and so is a bridge, between the sockets last found (start_clipboard_bridge)
Bridge ==
  /\ pc = "bridge" /\ pc' = "wait"
  /\ bridge' = IF appSocket # 0 /\ selkies.st = "up" /\ bridge.st # "up"
               THEN [st |-> "up", seat |-> seatSocket, app |-> appSocket] ELSE bridge
  /\ UNCHANGED <<index, selkies, shell, found, others, fresh, ghosts, faults>>

Wait ==
  /\ pc = "wait" /\ pc' = "start"
  /\ UNCHANGED <<index, selkies, shell, bridge, found, others, fresh, ghosts, faults>>

\* _restart_engine: a kill flag, the watchdog, new settings
RestartEngine ==
  /\ pc = "wait" /\ pc' = "start" /\ Fault
  /\ selkies' = NoEngine /\ shell' = NoShell /\ bridge' = NoBridge
  /\ UNCHANGED <<index, found, others, fresh, ghosts>>

-----------------------------------------------------------------------------
(* The compositors                                                         *)

EngineBinds ==
  /\ selkies.st = "up" /\ selkies.at = 0
  /\ \E s \in Lowest(Free) : selkies' = [selkies EXCEPT !.at = s] /\ fresh' = fresh \cup {s}
  /\ UNCHANGED <<pc, index, shell, bridge, found, others, ghosts, faults>>

LabwcBinds ==
  /\ shell.st = "up" /\ shell.at = 0 /\ shell.on \in others \cup {selkies.at}
  /\ \E s \in Lowest(Free) : shell' = [shell EXCEPT !.at = s] /\ fresh' = fresh \cup {s}
  /\ UNCHANGED <<pc, index, selkies, bridge, found, others, ghosts, faults>>

EngineDies ==
  /\ selkies.st = "up" /\ Fault
  /\ selkies' = [NoEngine EXCEPT !.st = "dead"] /\ shell' = Orphan(selkies.at)
  /\ UNCHANGED <<pc, index, bridge, found, others, fresh, ghosts>>

LabwcDies ==
  /\ shell.st = "up" /\ Fault /\ shell' = [NoShell EXCEPT !.st = "dead"]
  /\ UNCHANGED <<pc, index, selkies, bridge, found, others, fresh, ghosts>>

BridgeDies ==
  /\ bridge.st = "up" /\ Fault /\ bridge' = [bridge EXCEPT !.st = "dead"]
  /\ UNCHANGED <<pc, index, selkies, shell, found, others, fresh, ghosts>>

OtherComes ==
  /\ Fault
  /\ \E s \in Lowest(Free) : others' = others \cup {s} /\ fresh' = fresh \cup {s}
  /\ UNCHANGED <<pc, index, selkies, shell, bridge, found, ghosts>>

OtherLeaves ==
  /\ Fault
  /\ \E s \in others : others' = others \ {s} /\ shell' = Orphan(s)
  /\ UNCHANGED <<pc, index, selkies, bridge, found, fresh, ghosts>>

Next ==
  \/ StartSelkies \/ Runs \/ Seek \/ SeekFails \/ Shell \/ Hunts \/ Check \/ Bridge \/ Wait
  \/ RestartEngine
  \/ EngineBinds \/ LabwcBinds \/ EngineDies \/ LabwcDies \/ BridgeDies \/ OtherComes \/ OtherLeaves

Spec == Init /\ [][Next]_labwcVars

-----------------------------------------------------------------------------
(* Properties                                                              *)

\* After a pass the parts of a live seat fit: selkies addresses the socket its compositor
\* took, the shell runs in that compositor, and the bridge joins the two, whatever died or
\* was restarted (styx_agent.py:216-241, agent_procs.py:72-78); unless a wait took the socket
\* of another session for its own, or labwc's came too late to be found.
SeatIsWhole ==
  pc = "wait" /\ selkies.st = "up" /\ seatSocket # 0 /\ ~mixed =>
    /\ selkies.at = seatSocket /\ selkies.index = seatSocket
    /\ shell.st = "up" => shell.on = seatSocket
    /\ bridge.st = "up" => bridge.seat = seatSocket
    /\ bridge.st = "up" /\ shell.st = "up" /\ ~late => bridge.app = shell.at

-----------------------------------------------------------------------------
(* Sentences of the code and its documents that the model refutes (README) *)

\* "shell restarts -> new socket -> new bridge" (styx_agent.py:316): a labwc that takes its
\* socket after the wait is over leaves the bridge at the old one.
BridgeFollowsShell ==
  pc = "wait" /\ selkies.st = "up" /\ ~mixed /\ shell.st = "up" /\ shell.at # 0 /\ bridge.st = "up"
    => bridge.app = shell.at
=============================================================================
