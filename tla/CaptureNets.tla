---------------------------- MODULE CaptureNets ----------------------------
(***************************************************************************)
(* The networks of the portal's own container (services/screenshot.py):    *)
(* desktops live on a Docker network per user, which the portal joins to   *)
(* take a picture of one and leaves again.  The loop of                    *)
(* background_loops.py takes one picture after the other; each refresh     *)
(* request (routers/instances.py) runs beside it with a service of its     *)
(* own.  Docker calls run in threads, and another capture's may come       *)
(* between any two of one thread.                                          *)
(*                                                                         *)
(* Docker keeps a container's networks when it restarts.  At boot          *)
(* middleware/rate_limit.py takes the networks the portal is on for those  *)
(* its proxies are on.                                                     *)
(***************************************************************************)
EXTENDS Naturals

CONSTANTS
  Captures,  \* the loop, and refresh requests
  Users,     \* the users' networks
  Home,      \* the portal's own network
  MaxStops   \* bound: stops of the portal

ASSUME HomeIsNoUsers == Home \notin Users

VARIABLES
  nets,      \* networks the portal's container is on
  exists,    \* user networks that exist
  pc,        \* per capture: "idle", "look", "join", "shoot", "leave", "dropped"
  on,        \* the networks its desktop is on
  want,      \* networks its thread has still to join
  joined,    \* networks it joined and will leave
  behind,    \* ghost: networks nobody will leave: a disconnect failed, the answer of a connect was
             \* lost, or the task was cancelled or died between the two
  snapshot,  \* _startup_networks
  stops      \* stops so far

vars == <<nets, exists, pc, on, want, joined, behind, snapshot, stops>>

Init ==
  /\ nets = {Home} /\ exists = Users
  /\ pc = [c \in Captures |-> "idle"]
  /\ on = [c \in Captures |-> {}] /\ want = on /\ joined = on
  /\ behind = {}
  /\ snapshot = {Home} /\ stops = 0

Go(c, p) == pc' = [pc EXCEPT ![c] = p]

-----------------------------------------------------------------------------
(* A capture                                                               *)

\* Where a desktop may be: nowhere while it is stopped, else on its owner's network, and on the
\* portal's while it is an old one that was not moved yet
Places == {home \cup own : home \in SUBSET {Home}, own \in {{}} \cup {{u} : u \in Users}}

\* _resolve_ip: an address on one of its networks
HasAddress(S) == S # {}

\* A desktop's address is looked up; without one there is no picture.
Start(c, S) ==
  /\ pc[c] = "idle" /\ HasAddress(S) /\ S \cap Users \subseteq exists
  /\ Go(c, "look") /\ on' = [on EXCEPT ![c] = S]
  /\ UNCHANGED <<nets, exists, want, joined, behind, snapshot, stops>>

\* _join_instance_nets: what the desktop is on and the portal is not; all of it when the portal
\* cannot look at its own container, nothing when it cannot look at the desktop's.
Look(c) ==
  /\ pc[c] = "look"
  /\ Go(c, "join")
  /\ \E mine \in {nets, {}, on[c]} : want' = [want EXCEPT ![c] = on[c] \ mine]
  /\ UNCHANGED <<nets, exists, on, joined, behind, snapshot, stops>>

Connects(n) == n \notin nets /\ (n \in Users => n \in exists)

\* mutant: a network is noted before it is joined
Join_Noted(c, n) ==
  /\ pc[c] \in {"join", "dropped"} /\ n \in want[c]
  /\ want' = [want EXCEPT ![c] = @ \ {n}]
  /\ joined' = [joined EXCEPT ![c] = @ \cup {n}]
  /\ nets' = IF Connects(n) THEN nets \cup {n} ELSE nets
  /\ UNCHANGED <<exists, pc, on, behind, snapshot, stops>>

\* connect; a network the portal is already on, or that is gone, is an error and is skipped.
\* An answer that is lost is an error too.
Join(c, n) ==
  /\ pc[c] \in {"join", "dropped"} /\ n \in want[c]
  /\ want' = [want EXCEPT ![c] = @ \ {n}]
  /\ \/ /\ Connects(n) /\ nets' = nets \cup {n}
        /\ \/ joined' = [joined EXCEPT ![c] = @ \cup {n}] /\ UNCHANGED behind
           \/ behind' = behind \cup {n} /\ UNCHANGED joined
     \/ UNCHANGED <<nets, joined, behind>>
  /\ UNCHANGED <<exists, pc, on, snapshot, stops>>

\* The thread answers with what it joined; browser and picture follow.
Joined(c) ==
  /\ pc[c] = "join" /\ want[c] = {}
  /\ Go(c, "shoot")
  /\ UNCHANGED <<nets, exists, on, want, joined, behind, snapshot, stops>>

\* The picture is taken, or not: the outer finally comes either way.
Shot(c) ==
  /\ pc[c] = "shoot"
  /\ Go(c, "leave")
  /\ UNCHANGED <<nets, exists, on, want, joined, behind, snapshot, stops>>

\* _leave_nets: a failure is passed over
Leave(c, n) ==
  /\ pc[c] = "leave" /\ n \in joined[c]
  /\ joined' = [joined EXCEPT ![c] = @ \ {n}]
  /\ \/ nets' = nets \ {n} /\ UNCHANGED behind
     \/ behind' = behind \cup {n} /\ UNCHANGED nets
  /\ UNCHANGED <<exists, pc, on, want, snapshot, stops>>

\* The capture returns; what a cancelled one joined is not left.
Done(c) ==
  /\ \/ pc[c] = "leave" /\ joined[c] = {}
     \/ pc[c] = "dropped" /\ want[c] = {}
  /\ Go(c, "idle")
  /\ joined' = [joined EXCEPT ![c] = {}] /\ behind' = behind \cup joined[c]
  /\ UNCHANGED <<nets, exists, on, want, snapshot, stops>>

-----------------------------------------------------------------------------
(* The rest of the portal                                                  *)

\* remove_user_network, after a user's last desktop was deleted: Docker keeps a network that has
\* a container on it, and the error is passed over.  ensure_user_network makes it again.
RemoveNet(u) ==
  /\ u \in exists /\ u \notin nets
  /\ exists' = exists \ {u}
  /\ UNCHANGED <<nets, pc, on, want, joined, behind, snapshot, stops>>

EnsureNet(u) ==
  /\ u \notin exists
  /\ exists' = exists \cup {u}
  /\ UNCHANGED <<nets, pc, on, want, joined, behind, snapshot, stops>>

\* Shutdown cancels the loop's task: in a join its thread goes on and nobody gets its answer;
\* anywhere else the finally runs.
Cancel(c) ==
  /\ stops < MaxStops /\ stops' = stops + 1
  /\ pc[c] \in {"join", "shoot"}
  /\ Go(c, IF pc[c] = "join" THEN "dropped" ELSE "leave")
  /\ UNCHANGED <<nets, exists, on, want, joined, behind, snapshot>>

Boot == snapshot' = nets'

\* The portal dies and is started again in its container.
Restart ==
  /\ stops < MaxStops /\ stops' = stops + 1
  /\ pc' = [c \in Captures |-> "idle"]
  /\ on' = [c \in Captures |-> {}] /\ want' = on' /\ joined' = on'
  /\ behind' = behind \cup UNION {joined[c] : c \in Captures}
  /\ UNCHANGED <<nets, exists>>
  /\ Boot

\* A new container, on the networks of its compose file.
Recreate ==
  /\ pc = [c \in Captures |-> "idle"]
  /\ nets' = {Home} /\ behind' = {}
  /\ UNCHANGED <<exists, pc, on, want, joined, stops>>
  /\ Boot

Next ==
  \/ \E c \in Captures :
       \/ \E S \in Places : Start(c, S)
       \/ Look(c) \/ Joined(c) \/ Shot(c) \/ Done(c) \/ Cancel(c)
       \/ \E n \in want[c] : Join(c, n)
       \/ \E n \in joined[c] : Leave(c, n)
  \/ \E u \in Users : RemoveNet(u) \/ EnsureNet(u)
  \/ Restart \/ Recreate

Spec == Init /\ [][Next]_vars

-----------------------------------------------------------------------------
(* Properties                                                              *)

\* No capture takes the portal off its own network, whatever the Docker calls answered and
\* whatever another capture did between them (screenshot.py:93-107).
HomeIsKept == Home \in nets

\* No capture is taken off the network it joined before it leaves, nor leaves what another
\* joined, though each looks at what the portal is on before it connects
\* (screenshot.py:85-107).
JoinedStays ==
  \A c \in Captures : joined[c] \subseteq nets /\ \A d \in Captures \ {c} : joined[c] \cap joined[d] = {}

\* The portal is on a user's network only when a capture that has still to leave put it there
\* (screenshot.py:169-171, "just for this capture"), but for those left behind.
StayIsShort == \A n \in nets \ ({Home} \cup behind) : \E c \in Captures : n \in joined[c]

\* Captures leave the portal on its own network, each leaves what it joined itself, and what
\* stays is what a failure, a cancelled task or a stop left behind.
NetsAreKept == HomeIsKept /\ JoinedStays /\ StayIsShort

-----------------------------------------------------------------------------
(* Sentences of the code and its documents that the model refutes (README) *)

\* "later-joined networks must never become trusted proxies" (rate_limit.py:51-52): a portal
\* that dies in a capture starts again on the user's network and takes it for its own.
SnapshotIsOwn == snapshot \subseteq {Home}

\* "just for this capture ... detach again in the outer finally" (screenshot.py:169-171)
NothingIsLeft == \A n \in nets \ {Home} : \E c \in Captures : n \in joined[c]
=============================================================================
