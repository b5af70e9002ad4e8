----------------------------- MODULE RelayMeter -----------------------------
(***************************************************************************)
(* How long a WebRTC session may last and what its relayed bytes are       *)
(* counted as: the gateway's sessions with their idle and age cut          *)
(* (agent/gateway_webrtc.py), the running total in the gateway's state     *)
(* file, the delta each heartbeat takes of it (agent/gateway.py,           *)
(* agent/health.py), and the usage row of the portal                       *)
(* (services/turn_usage.py).                                               *)
(*                                                                         *)
(* The pages of one workstation.  A page is one load of the viewer's page:  *)
(* its id is drawn and its counter of relayed bytes starts when it loads   *)
(* (agent/gateway_html.py), and both stay over reconnections; a reload is  *)
(* another page, with a session and a limit of its own.  Bytes are units;  *)
(* the bitrate cap of credit is a choice of what is counted; time is kept  *)
(* as ages.                                                                *)
(***************************************************************************)
EXTENDS Naturals, FiniteSets

CONSTANTS
  Pages,      \* page loads: a tab that is reloaded is another one
  MaxAge,     \* max_session_s
  IdleFor,    \* idle_s
  Grace,      \* GRACE_S
  MaxRelay,   \* bound: units relayed for a page
  MaxRestarts \* bound: restarts of gateway and agent, sessions forgotten with a count

VARIABLES
  sent,      \* the counter of each page
  open,      \* pages whose signaling socket is open
  session,   \* Session of each page's id, or NoSession
  streak,    \* ghost: how long the page has been connected, gaps of at most Grace included
  total,     \* turn_bytes
  gateway,   \* "up", or "starting" until it wrote its state file
  file,      \* turn_bytes_total in the state file
  seen,      \* _turn_seen
  beat,      \* the delta of the heartbeat on its way
  metered,   \* TurnUsage.bytes
  again,     \* ghost: units that were counted and may be counted a second time
  restarts

gatewayVars == <<open, session, streak, total, gateway, file>>
meterVars == <<seen, beat, metered>>
relayVars == <<sent, gatewayVars, meterVars, again, restarts>>

NoSession == [age |-> 0, quiet |-> 0, gone |-> 0, last |-> 0, dead |-> FALSE, known |-> FALSE]
Fresh == [NoSession EXCEPT !.known = TRUE]

Init ==
  /\ sent = [p \in Pages |-> 0] /\ open = {}
  /\ session = [p \in Pages |-> NoSession] /\ streak = [p \in Pages |-> 0]
  /\ total = 0 /\ gateway = "up" /\ file = 0
  /\ seen = 0 /\ beat = 0 /\ metered = 0
  /\ again = 0 /\ restarts = 0

-----------------------------------------------------------------------------
(* The gateway's sessions                                                  *)

\* expired
Expired(s) == s.quiet >= IdleFor \/ s.age >= MaxAge

\* mutant: a session is forgotten as soon as its socket is gone
Purged_Early(p) == session[p].known /\ p \notin open

\* _purge, at every signaling upgrade
Purged(p) == session[p].known /\ p \notin open /\ session[p].gone > Grace

Kept == [p \in Pages |-> IF Purged(p) THEN NoSession ELSE session[p]]

\* The units of pages up to these counters
Units(counter, pages) == {u \in pages \X (1 .. MaxRelay) : u[2] <= counter[u[1]]}

\* What was credited to the pages that are forgotten: their counters go on.
Forgotten(pages) == Cardinality(Units([p \in Pages |-> session[p].last], pages))

\* signaling: refused to a session that was cut, else the session of this id, or a new one;
\* _watch looks at once
Connect(p) ==
  LET s == IF Kept[p].known THEN Kept[p] ELSE Fresh
  IN  /\ gateway = "up" /\ p \notin open /\ ~s.dead
      /\ open' = IF Expired(s) THEN open ELSE open \cup {p}
      /\ session' = [Kept EXCEPT ![p] = IF Expired(s) THEN [s EXCEPT !.dead = TRUE, !.gone = 0] ELSE s]
      /\ LET lost == Forgotten({q \in Pages : Purged(q)})
         IN  /\ again' = again + lost
             /\ restarts' = IF lost > 0 THEN restarts + 1 ELSE restarts
      /\ restarts' <= MaxRestarts
      /\ file' = total
      /\ UNCHANGED <<sent, streak, total, gateway, meterVars>>

\* the finally of signaling: the network fails, or the page is gone (closed, reloaded) and
\* does not connect again
Disconnect(p) ==
  /\ p \in open
  /\ open' = open \ {p}
  /\ session' = [session EXCEPT ![p].gone = 0]
  /\ file' = total
  /\ UNCHANGED <<sent, streak, total, gateway, meterVars, again, restarts>>

\* The relay carries a unit for the page.
Relay(p) ==
  /\ p \in open /\ sent[p] < MaxRelay
  /\ sent' = [sent EXCEPT ![p] = @ + 1]
  /\ UNCHANGED <<gatewayVars, meterVars, again, restarts>>

\* mutant: what the page reported is counted, not kept
Credited_Unkept(s, units) == [s EXCEPT !.quiet = 0]

\* activity of a page in use; credit: what the page reported last is kept
Credited(s, units) == [s EXCEPT !.quiet = 0, !.last = units]

\* activity and credit: a positive difference is counted, capped by a bitrate
Beacon(p) ==
  /\ p \in open /\ ~session[p].dead
  /\ \E counted \in 0 .. sent[p] - session[p].last : total' = total + counted
  /\ session' = [session EXCEPT ![p] = Credited(@, sent[p])]
  /\ file' = total'
  /\ UNCHANGED <<sent, open, streak, gateway, meterVars, again, restarts>>

Older(s) == [s EXCEPT !.age = IF @ < MaxAge THEN @ + 1 ELSE @,
                      !.quiet = IF @ < IdleFor THEN @ + 1 ELSE @]

\* What a second makes of a session: the _watch of its socket looks once and cuts it.
Second(p) ==
  LET s == Older(session[p])
  IN  IF p \in open THEN [s EXCEPT !.dead = Expired(s), !.gone = 0]
      ELSE IF session[p].known THEN [s EXCEPT !.gone = IF @ <= Grace THEN @ + 1 ELSE @]
      ELSE NoSession

Tick ==
  /\ session' = [p \in Pages |-> Second(p)]
  /\ open' = {p \in open : ~Second(p).dead}
  /\ streak' = [p \in Pages |->
       IF p \in open \/ (streak[p] > 0 /\ Second(p).gone <= Grace) THEN streak[p] + 1 ELSE 0]
  /\ file' = IF open' # open THEN total ELSE file
  /\ UNCHANGED <<sent, total, gateway, meterVars, again, restarts>>

-----------------------------------------------------------------------------
(* Restarts                                                                *)

\* The gateway ends: its sessions and its total with it, not its file.
GatewayEnds ==
  /\ restarts < MaxRestarts /\ restarts' = restarts + 1
  /\ gateway' = "starting" /\ open' = {} /\ total' = 0
  /\ session' = [p \in Pages |-> NoSession] /\ streak' = [p \in Pages |-> 0]
  /\ UNCHANGED <<sent, file, beat, metered>>

\* drop_clients, a crash: the agent starts another one
GatewayRestarts ==
  /\ GatewayEnds /\ UNCHANGED seen
  /\ again' = again + Forgotten(Pages)

\* The service is restarted, and the gateway with it: the agent has seen nothing.
AgentRestarts ==
  /\ GatewayEnds /\ seen' = 0
  /\ again' = again + Forgotten(Pages) + file

\* create_app: "reset any stale count from a previous gateway run"
GatewayUp ==
  /\ gateway = "starting" /\ gateway' = "up"
  /\ file' = 0
  /\ UNCHANGED <<sent, open, session, streak, total, meterVars, again, restarts>>

-----------------------------------------------------------------------------
(* The meter                                                               *)

\* turn_bytes
Delta == IF file >= seen THEN file - seen ELSE file

\* The agent reads the file of a gateway that runs and sends the delta.
Heartbeat ==
  /\ beat = 0
  /\ beat' = Delta /\ seen' = file
  /\ UNCHANGED <<sent, gatewayVars, metered, again, restarts>>

\* record_turn_usage
Arrives ==
  /\ beat > 0 /\ metered' = metered + beat /\ beat' = 0
  /\ UNCHANGED <<sent, gatewayVars, seen, again, restarts>>

\* The heartbeat fails: its delta was taken already.
Lost ==
  /\ beat > 0 /\ beat' = 0
  /\ UNCHANGED <<sent, gatewayVars, seen, metered, again, restarts>>

Next ==
  \/ \E p \in Pages : Connect(p) \/ Disconnect(p) \/ Relay(p) \/ Beacon(p)
  \/ Tick \/ GatewayRestarts \/ AgentRestarts \/ GatewayUp
  \/ Heartbeat \/ Arrives \/ Lost

Spec == Init /\ [][Next]_relayVars

-----------------------------------------------------------------------------
(* Properties                                                              *)

\* A page is cut after max_session_s, however often it reconnects: losing the socket for
\* less than the grace does not start the time again (agent/gateway_webrtc.py expired and
\* _purge; the second is the period of _watch).  It is said of one load of the page: a
\* reload is another page here, as it is another session there.
SessionIsCut == \A p \in Pages : p \in open => streak[p] <= MaxAge

\* No unit is counted twice, over lost and late heartbeats, reconnections and a file of an
\* earlier gateway, except what a gateway forgot or an agent reads again after a restart
\* (agent/gateway_webrtc.py credit, agent/health.py turn_bytes).
CountedOnce == metered + beat <= Cardinality(Units(sent, Pages)) + again
=============================================================================
