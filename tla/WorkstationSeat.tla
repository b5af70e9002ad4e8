--------------------------- MODULE WorkstationSeat ---------------------------
(***************************************************************************)
(* The seat of one workstation: who occupies it, the log of stream         *)
(* sessions, and the one-shot disconnect that rides on the answer of the   *)
(* agent's heartbeat (backend/app/routers/agent.py, workstations.py,       *)
(* auth.py, services/workstations.py, services/stream_sessions.py).        *)
(*                                                                         *)
(* A handler loads the row and writes it later.  SQLite has one writer, so *)
(* a handler's first write to its commit is one step; the ORM writes only  *)
(* the columns that differ from what the handler loaded.  The agent sends  *)
(* one heartbeat at a time but gives up after 15 s, so an old one may      *)
(* still be under way at the server.  The gateway is external: a stream is *)
(* live or not.  Not here: TURN accounting, updates, icons, revocation of  *)
(* the workstation itself.                                                 *)
(***************************************************************************)
EXTENDS Naturals, FiniteSets

CONSTANTS
  Users,
  Admins,      \* users who need no entry on the access list
  First,       \* who is on the workstation at the start, or NoUser
  Removable,   \* bound: users that may be disabled
  MaxRequests, \* bound: portal requests
  MaxBeats,    \* bound: heartbeat calls under way at once
  MaxLost,     \* bound: heartbeats whose answer the agent does not get
  MaxEvents,   \* bound: requests, lost heartbeats and disabled users together
  NoUser

ASSUME NamesAssumption == NoUser \notin Users /\ Users # {} /\ First \in Users \cup {NoUser}
ASSUME BoundAssumption ==
  /\ MaxRequests \in Nat /\ MaxBeats \in Nat /\ MaxLost \in Nat /\ MaxEvents \in Nat
  /\ MaxLost < MaxBeats   \* a call is free when the agent sends

Requests == 1..MaxRequests
Beats == 1..MaxBeats
NoBeat == 0

VARIABLES
  row,      \* the workstations row: seat is occupied_by, busy active_connections > 0,
            \* pending disconnect_pending, latch idle_disconnect_sent, online status
  enabled,  \* users with is_active
  allowed,  \* the workstation's access list
  open,     \* open stream-session rows of the workstation, per user
  req,      \* each request: its place and what it loaded
  beat,     \* each heartbeat call: its place, what it reports, loaded and answers
  awaits,   \* the heartbeat call the agent waits for
  late,     \* the last heartbeat is older than WORKSTATION_OFFLINE_AFTER_S
  dialing,  \* users let through by the forward auth, not yet at the gateway
  streams,  \* users with a live stream at the gateway
  lost,
  doomed,   \* history: streams live when a handler asked for them to be dropped
  again     \* history: those of them that only such a handler asked for as had loaded
            \* the flag set by an earlier one, and came when a heartbeat had taken it

serverVars == <<row, enabled, allowed, open>>
agentVars  == <<awaits, late, dialing, streams, lost>>
orders == <<doomed, again>>
vars == <<serverVars, req, beat, agentVars, orders>>

Rows == [seat : Users \cup {NoUser}, busy : BOOLEAN, pending : BOOLEAN,
         latch : BOOLEAN, online : BOOLEAN]
FreeRow == [seat |-> NoUser, busy |-> FALSE, pending |-> FALSE, latch |-> FALSE,
            online |-> TRUE]
Kinds == {"auth", "takeover", "logout", "access", "sweep"}

OnList(u, members) == u \in Admins \/ u \in members
MayUse(u, members) == u \in enabled /\ OnList(u, members)
AnyUser == CHOOSE u \in Users : TRUE

\* a request and a heartbeat call that hold nothing
Request(pc) == [pc |-> pc, kind |-> "auth", user |-> AnyUser, old |-> FreeRow]
Call(pc, disconnect) == [pc |-> pc, busy |-> FALSE, idle |-> FALSE, old |-> FreeRow,
                         disconnect |-> disconnect]

\* The workstation is free, or First has been on it for a while.
Init ==
  /\ row = [FreeRow EXCEPT !.seat = First, !.busy = First # NoUser]
  /\ enabled = Users /\ allowed = Users \ Admins
  /\ open = [u \in Users |-> IF u = First THEN 1 ELSE 0]
  /\ req = [r \in Requests |-> Request("free")]
  /\ beat = [b \in Beats |-> Call("free", FALSE)]
  /\ awaits = NoBeat /\ late = FALSE
  /\ dialing = {} /\ streams = Users \cap {First} /\ lost = 0
  /\ doomed = {} /\ again = {}

-----------------------------------------------------------------------------
(* Writing a row and the log                                               *)

\* mutant: every column is written, changed or not
Flush_WholeRow(old, new) == row' = new

\* the flush: columns that differ from the loaded ones
Flush(old, new) ==
  row' = [f \in DOMAIN row |-> IF new[f] = old[f] THEN row[f] ELSE new[f]]

CloseSessions == open' = [u \in Users |-> 0]

\* mutant: the sessions of others are not closed
SyncSessions_KeepOthers(s, n) ==
  open' = [u \in Users |->
             IF s = NoUser \/ ~n THEN 0
             ELSE IF u = s /\ open[u] = 0 THEN 1 ELSE open[u]]

\* mutant: an empty seat closes nothing
SyncSessions_NoClose(s, n) ==
  open' = [u \in Users |-> IF s = NoUser \/ ~n THEN open[u] ELSE IF u = s THEN 1 ELSE 0]

\* sync_workstation with the occupant and the count as the handler has them
SyncSessions(s, n) ==
  open' = [u \in Users |->
             IF u # s \/ ~n THEN 0 ELSE IF open[u] = 0 THEN 1 ELSE open[u]]

\* An order: what is live now is to be dropped.  A handler that loaded the flag set by
\* an earlier order writes no change of it, so the order depends on the flag being
\* there still.
Doom(old) ==
  /\ doomed' = doomed \cup streams
  /\ again' = IF old.pending /\ ~row'.pending THEN again \cup (streams \ doomed) ELSE {}

-----------------------------------------------------------------------------
(* Portal requests                                                         *)

\* the bound on what can still happen
Room ==
  Cardinality({r \in Requests : req[r].pc # "free"}) + Cardinality(Users \ enabled) + lost
    < MaxEvents

Load(r, kind, u) ==
  /\ Room /\ req[r].pc = "free" /\ \A q \in 1..r - 1 : req[q].pc # "free"
  /\ req' = [req EXCEPT ![r] = [pc |-> "loaded", kind |-> kind, user |-> u, old |-> row]]
  /\ UNCHANGED <<serverVars, beat, agentVars, orders>>

Writes(r, kinds) ==
  /\ req[r].pc = "loaded" /\ req[r].kind \in kinds
  /\ req' = [req EXCEPT ![r] = Request("end")]
  /\ UNCHANGED <<beat, awaits, late, streams, lost>>

\* auth_check up to its first await
AuthLoad(r, u) == u \in enabled /\ Load(r, "auth", u)

\* connect_url?force=true, and auth_check while the grant lasts
TakeoverLoad(r, u) == MayUse(u, allowed) /\ row.online /\ Load(r, "takeover", u)

\* the takeover lock, by the row as it was loaded
Refused(r) ==
  LET old == req[r].old
  IN  req[r].kind = "auth" /\ old.busy /\ old.seat \notin {NoUser, req[r].user}

AuthWrite(r) ==
  LET u == req[r].user IN
  /\ Writes(r, {"auth", "takeover"})
  /\ OnList(u, allowed) /\ ~Refused(r)
  /\ Flush(req[r].old, [req[r].old EXCEPT !.seat = u])
  /\ dialing' = dialing \cup {u}
  /\ UNCHANGED <<enabled, allowed, open, orders>>

\* no access, or the seat is in use
AuthRefuse(r) ==
  /\ Writes(r, {"auth", "takeover"})
  /\ ~OnList(req[r].user, allowed) \/ Refused(r)
  /\ UNCHANGED <<serverVars, dialing, orders>>

\* logout with end_session of the occupant of a live seat
LogoutLoad(r, u) == row.seat = u /\ row.busy /\ Load(r, "logout", u)

LogoutWrite(r) ==
  /\ Writes(r, {"logout"})
  /\ Flush(req[r].old, [req[r].old EXCEPT !.pending = TRUE, !.seat = NoUser, !.busy = FALSE])
  /\ CloseSessions
  /\ Doom(req[r].old)
  /\ UNCHANGED <<enabled, allowed, dialing>>

\* kick_unqualified of the workstation: the seat is looked up in the database, the
\* occupant in the row as this session loaded it
Kick(old, unqualified) ==
  IF row.seat # NoUser /\ unqualified
  THEN /\ Flush(old, [old EXCEPT !.pending = TRUE, !.seat = NoUser])
       /\ CloseSessions
       /\ Doom(old)
  ELSE UNCHANGED <<row, open, orders>>

\* set_access
AccessLoad(r) == Load(r, "access", AnyUser)

AccessWrite(r, list) ==
  LET old == req[r].old IN
  /\ Writes(r, {"access"})
  /\ allowed' = list
  /\ Kick(old, ~MayUse(old.seat, list))
  /\ UNCHANGED <<enabled, dialing>>

\* disable_user: its write precedes the look-up of the seat
Disable(u) ==
  /\ Room /\ u \in enabled \cap Removable
  /\ enabled' = enabled \ {u}
  /\ Kick(row, row.seat = u)
  /\ UNCHANGED <<allowed, req, beat, agentVars>>

\* mark_stale_offline
SweepLoad(r) == row.online /\ late /\ Load(r, "sweep", AnyUser)

SweepWrite(r) ==
  /\ Writes(r, {"sweep"})
  /\ Flush(req[r].old, [req[r].old EXCEPT !.online = FALSE])
  /\ CloseSessions
  /\ UNCHANGED <<enabled, allowed, dialing, orders>>

-----------------------------------------------------------------------------
(* The heartbeat                                                           *)

\* the agent's loop reports the streams the gateway counts
BeatSend(b) ==
  /\ awaits = NoBeat
  /\ beat[b].pc = "free" /\ \A c \in 1..b - 1 : beat[c].pc # "free"
  /\ \E idle \in BOOLEAN :
       /\ idle => streams # {}
       /\ beat' = [beat EXCEPT ![b].pc = "sent", ![b].busy = streams # {},
                               ![b].idle = idle]
  /\ awaits' = b
  /\ UNCHANGED <<serverVars, req, late, dialing, streams, lost, orders>>

BeatLoad(b) ==
  /\ beat[b].pc = "sent"
  /\ beat' = [beat EXCEPT ![b].pc = "loaded", ![b].old = row]
  /\ UNCHANGED <<serverVars, req, agentVars, orders>>

\* mutant: an empty seat keeps its occupant
Occupant_Kept(b) == beat[b].old.seat
Occupant(b) == IF ~beat[b].busy THEN NoUser ELSE beat[b].old.seat

\* the idle backstop, once until the seat is empty
IdleDrop(b) == beat[b].idle /\ ~beat[b].old.latch

Disconnect(b) == beat[b].old.pending \/ IdleDrop(b)

BeatWrite(b) ==
  LET old == beat[b].old
      n == beat[b].busy
      answered == awaits = b
  IN /\ beat[b].pc = "loaded"
     /\ Flush(old, [old EXCEPT !.online = TRUE, !.busy = n, !.seat = Occupant(b),
                               !.latch = n /\ (@ \/ IdleDrop(b)), !.pending = FALSE])
     /\ SyncSessions(Occupant(b), n)
     /\ late' = FALSE
     \* nobody reads the answer of a call the agent gave up
     /\ beat' = [beat EXCEPT ![b] = IF answered THEN Call("answer", Disconnect(b))
                                               ELSE Call("free", FALSE)]
     /\ IF IdleDrop(b) THEN doomed' = doomed \cup streams /\ again' = {}
                       ELSE UNCHANGED orders
     /\ UNCHANGED <<enabled, allowed, req, awaits, dialing, streams, lost>>

\* the agent acts on the answer: drop_clients restarts the gateway
BeatAnswer(b) ==
  /\ awaits = b /\ beat[b].pc = "answer"
  /\ awaits' = NoBeat
  /\ IF beat[b].disconnect
     THEN streams' = {} /\ doomed' = {} /\ again' = {}
     ELSE UNCHANGED <<streams, orders>>
  /\ beat' = [beat EXCEPT ![b] = Call("free", FALSE)]
  /\ UNCHANGED <<serverVars, req, late, dialing, lost>>

\* the agent gives up: the call may still be on its way, or its answer is lost
BeatLost(b) ==
  /\ awaits = b /\ lost < MaxLost /\ Room
  /\ lost' = lost + 1
  /\ awaits' = NoBeat
  /\ late' = TRUE
  /\ \/ beat[b].pc \in {"sent", "loaded"} /\ UNCHANGED beat
     \/ beat[b].pc \in {"sent", "answer"} /\ beat' = [beat EXCEPT ![b] = Call("free", FALSE)]
  /\ UNCHANGED <<serverVars, req, dialing, streams, orders>>

-----------------------------------------------------------------------------
(* Streams                                                                 *)

\* the websocket let through reaches the gateway, or fails on the way
Dial(u) ==
  /\ u \in dialing
  /\ dialing' = dialing \ {u}
  /\ streams' \in {streams, streams \cup {u}}
  /\ UNCHANGED <<serverVars, req, beat, awaits, late, lost, orders>>

\* the browser leaves
Leave(u) ==
  /\ u \in streams
  /\ streams' = streams \ {u}
  /\ doomed' = doomed \ {u} /\ again' = again \ {u}
  /\ UNCHANGED <<serverVars, req, beat, awaits, late, dialing, lost>>

Read(r) ==
  \/ \E u \in Users : AuthLoad(r, u) \/ TakeoverLoad(r, u) \/ LogoutLoad(r, u)
  \/ AccessLoad(r) \/ SweepLoad(r)

Write(r) ==
  \/ AuthWrite(r) \/ AuthRefuse(r) \/ LogoutWrite(r) \/ SweepWrite(r)
  \/ \E list \in SUBSET (Users \ Admins) : AccessWrite(r, list)

Server(b) == BeatLoad(b) \/ BeatWrite(b)
Agent(b) == BeatSend(b) \/ BeatAnswer(b)

Next ==
  \/ \E r \in Requests : Read(r) \/ Write(r)
  \/ \E b \in Beats : Server(b) \/ Agent(b) \/ BeatLost(b)
  \/ \E u \in Users : Disable(u) \/ Dial(u) \/ Leave(u)

\* asyncio runs every handler to its end, the agent's loop never stops sending,
\* and a websocket is opened or refused.
Fairness ==
  /\ \A r \in Requests : WF_vars(Write(r))
  /\ \A b \in Beats : WF_vars(Server(b)) /\ WF_vars(BeatAnswer(b))
  /\ WF_vars(\E b \in Beats : BeatSend(b))
  /\ \A u \in Users : WF_vars(Dial(u))

Spec == Init /\ [][Next]_vars /\ Fairness

-----------------------------------------------------------------------------
\* Every column, request and call holds a value of its kind; a user has at most one
\* open row in the log (open_session is idempotent), and what is to be dropped is live.
TypeOK ==
  /\ row \in Rows
  /\ enabled \subseteq Users /\ allowed \subseteq Users
  /\ open \in [Users -> 0..1]
  /\ req \in [Requests -> [pc : {"free", "loaded", "end"}, kind : Kinds, user : Users,
                           old : Rows]]
  /\ beat \in [Beats -> [pc : {"free", "sent", "loaded", "answer"},
                         busy : BOOLEAN, idle : BOOLEAN, old : Rows,
                         disconnect : BOOLEAN]]
  /\ awaits \in Beats \cup {NoBeat} /\ late \in BOOLEAN
  /\ dialing \subseteq Users /\ streams \subseteq Users
  /\ lost \in 0..MaxLost
  /\ doomed \subseteq streams /\ again \subseteq doomed

\* The log never shows two people on one desktop, although heartbeats write an occupant
\* they read before a takeover, a logout or a kick (stream_sessions.py:57).
OneOpenSession == \A u, v \in Users : open[u] > 0 /\ open[v] > 0 => u = v /\ open[u] = 1

\* While streams are to be dropped and no heartbeat was lost, the order is in the row or
\* in the answer the agent is about to read, never in between: the read and the write of
\* a heartbeat cannot lose it, whatever requests write meanwhile (agent.py:115-119).  The
\* exception has a name: again, an order repeated over one that was taken meanwhile.
DropIsCarried ==
  doomed \ again # {} /\ lost = 0 =>
    \/ row.pending
    \/ \E b \in Beats : awaits = b /\ beat[b].pc = "answer" /\ beat[b].disconnect

\* A disconnect asked for by a logout, a kick or the idle backstop reaches the streams
\* it was meant for, also when the request and a heartbeat overlap: the flag is neither
\* overwritten nor consumed by an answer that went out before (agent.py:115).  Excluded
\* are an answer that never arrives, which takes the flag with it, and the repeated
\* order of EveryOrderIsCarried below.
DropsArrive == doomed \ again # {} /\ lost = 0 ~> doomed \ again = {} \/ lost > 0

\* Handlers with old rows and the offline sweep may open and close sessions wrongly;
\* in the end heartbeats bring the log back to the occupancy (agent.py:91).
LogSettles == <>[](\A u \in Users : open[u] = 1 <=> row.seat = u /\ row.busy)

\* A desktop nobody streams from or is about to does not stay taken, whatever became of
\* the websocket that took it (agent.py:86).
SeatFreed ==
  streams = {} /\ dialing = {} /\ row.seat # NoUser
    ~> streams # {} \/ dialing # {} \/ row.seat = NoUser

-----------------------------------------------------------------------------
(* Sentences of the code and its documents that the model refutes (README) *)

\* services/workstations.py:228, "The next heartbeat carries disconnect_clients": the
\* next after every order.  A logout or kick that loaded the flag TRUE, set by an earlier
\* order, assigns TRUE again, which the ORM does not write; when a heartbeat took the
\* flag and the gateway was restarted in between, nothing drops what was dialled since.
EveryOrderIsCarried ==
  doomed # {} /\ lost = 0 =>
    \/ row.pending
    \/ \E b \in Beats : awaits = b /\ beat[b].pc = "answer" /\ beat[b].disconnect

\* models.py:318 says that the occupant of a live stream is recorded by the forward auth.
\* A heartbeat counted before the stream began and handled after the forward auth
\* (agent.py:87) removes the occupant, and nothing records it again.
LiveIsNamed == streams # {} ~> streams = {} \/ row.seat # NoUser
=============================================================================
