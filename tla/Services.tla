------------------------------- MODULE Services -----------------------------
(***************************************************************************)
(* What the portal does beside its requests: screenshots, waiting for      *)
(* pods, health and icons of services, the tunnel's pods, pre-pulled       *)
(* images, the boot's migration; and the services' own door, the shell and *)
(* the sign-in redirects of a browser tab.  Machines that share no state   *)
(* here, each on its own.                                                  *)
(***************************************************************************)
EXTENDS CaptureNets

CONSTANTS
  Handlers, Waiters, Timeout, FATAL_GRACE, MaxOps, MaxCrashes,       \* Readiness
  Fetches, Forms, MaxEdits, MaxFlips,                                \* ServiceChecks
  Ips, Threads, _POD_TTL, _POD_RETRY, _POD_REFRESH, MaxPodMoves,     \* TunnelPeers
  Images, Syncs, MaxChanges, MaxFails,                               \* Prepull
  Declared, Filled, Nullable,                                        \* Schema
  PathApps, FocusApps, OwnLogin, NoApp, MaxVisits                    \* AppShell

\* A service has more than one upstream: what marks a deleted one's row for good (ServiceChecks).
ASSUME MaxEditsAssumption == MaxEdits \in Nat /\ MaxEdits > 1

\* A service has one mount mode, and no app is the mark for none (AppShell).
ASSUME NoAppAssumption ==
  LET Apps == PathApps \cup FocusApps
      Kinds == {"root", "slug", "shell", "open", "exit"}
      Pages == {"/", "page", "login"}
      Locs(Backs) == [k : Kinds, app : Apps \cup {NoApp}, page : Pages, back : Backs]
  IN  /\ PathApps \cap FocusApps = {} /\ NoApp \notin Apps
      /\ {"unread", "refused"} \cap (Apps \cup {NoApp}) = {}
      /\ NoApp \notin [app : FocusApps, id : Nat] /\ NoApp \notin Locs({NoApp})
      /\ NoApp \notin [in : {"top", "frame"}, loc : Locs(Locs({NoApp}) \cup {NoApp}),
                       cross : BOOLEAN]

VARIABLES
  part,
  status, dep, pod, view, req, task, ops, crashes,
  row, up, pass, fetch, manual, form, choice, flips,
  live, ips, seen, okAge, due, thread, asked, steady, moves,
  wanted, sets, sync, changes, failed,
  app, todo, disk, work,
  doors, session, forced, focus, top, shell, frame, go, lost, moved, visits

Pods == INSTANCE Readiness
Checks == INSTANCE ServiceChecks
Tunnel == INSTANCE TunnelPeers WITH MaxMoves <- MaxPodMoves, req <- asked
Pull == INSTANCE Prepull
Tables == INSTANCE Schema
Door == INSTANCE AppShell WITH
  None <- NoApp, MaxMoves <- MaxVisits, row <- doors, moves <- visits

podVars == <<status, dep, pod, view, req, task, ops, crashes>>
checkVars == <<row, up, pass, fetch, manual, form, choice, flips>>
tunnelVars == <<live, ips, seen, okAge, due, thread, asked, steady, moves>>
pullVars == <<wanted, sets, sync, changes, failed>>
tableVars == <<app, todo, disk, work>>
doorVars == <<doors, session, forced, focus, top, shell, frame, go, lost, moved, visits>>
allVars == <<vars, podVars, checkVars, tunnelVars, pullVars, tableVars, doorVars, part>>

InitAll ==
  /\ part \in {"captures", "pods", "checks", "tunnel", "pull", "tables", "apps"}
  /\ Init /\ Pods!Init /\ Checks!Init /\ Tunnel!Init /\ Pull!Init /\ Tables!Init
  /\ Door!Init

NextAll ==
  /\ UNCHANGED part
  /\ \/ part = "captures" /\ Next
        /\ UNCHANGED <<podVars, checkVars, tunnelVars, pullVars, tableVars, doorVars>>
     \/ part = "pods" /\ Pods!Next
        /\ UNCHANGED <<vars, checkVars, tunnelVars, pullVars, tableVars, doorVars>>
     \/ part = "checks" /\ Checks!Next
        /\ UNCHANGED <<vars, podVars, tunnelVars, pullVars, tableVars, doorVars>>
     \/ part = "tunnel" /\ Tunnel!Next
        /\ UNCHANGED <<vars, podVars, checkVars, pullVars, tableVars, doorVars>>
     \/ part = "pull" /\ Pull!Next
        /\ UNCHANGED <<vars, podVars, checkVars, tunnelVars, tableVars, doorVars>>
     \/ part = "tables" /\ Tables!Next
        /\ UNCHANGED <<vars, podVars, checkVars, tunnelVars, pullVars, doorVars>>
     \/ part = "apps" /\ Door!Next
        /\ UNCHANGED <<vars, podVars, checkVars, tunnelVars, pullVars, tableVars>>

\* The fairness of Readiness, ServiceChecks, Prepull and AppShell, each in its part.
FairnessAll ==
  /\ WF_podVars(part = "pods" /\ Pods!Tick)
  /\ \A h \in Handlers : WF_podVars(part = "pods" /\ Pods!GoesOn(h))
  /\ \A w \in Waiters : WF_podVars(part = "pods" /\ Pods!Waiter(w))
  /\ WF_checkVars(part = "checks" /\ Checks!PassBegin)
  /\ SF_checkVars(part = "checks" /\ Checks!PassStore)
  /\ WF_pullVars(part = "pull" /\ Pull!Nightly)
  /\ \A s \in Syncs : WF_pullVars(part = "pull" /\ Pull!Step(s))
  /\ WF_doorVars(part = "apps" /\ Door!Browser)

SpecAll == InitAll /\ [][NextAll]_allVars /\ FairnessAll

-----------------------------------------------------------------------------
(* The properties of the parts, each stated in its module                  *)

ReadyIsNew == Pods!ReadyIsNew
ChosenStays == Checks!ChosenStays
PodIsNoClient == Tunnel!PodIsNoClient
RowsAreWhole == Tables!RowsAreWhole
ShellIsTrue == Door!ShellIsTrue
NavigationEnds == Door!NavigationEnds
AlwaysEnds == Door!AlwaysEnds

\* The loops catch up: whatever handlers, failed passes and restarts left behind, no desktop stays
\* "starting", and the health shown and the pre-pulled images end up as they should be.
LoopsCatchUp == Pods!StartingEnds /\ Checks!HealthConverges /\ Pull!SetsConverge
=============================================================================
