---------------------------- MODULE TunnelPeers ----------------------------
(***************************************************************************)
(* Whose requests are the tunnel's (middleware/rate_limit.py): on          *)
(* Kubernetes cloudflared is known by the addresses of its pods, which a   *)
(* background thread looks up.  A request never waits for it; it starts    *)
(* the thread when a lookup is due and goes by the last answer.  The       *)
(* thread's writes and a request's reads interleave.                       *)
(*                                                                         *)
(* _pod_ips_seen holds 64 addresses, more than there are here.             *)
(***************************************************************************)
EXTENDS Naturals, FiniteSets

CONSTANTS
  Ips,          \* addresses pods can have
  Threads,      \* lookups that could be alive at once, were there no _pod_lock
  _POD_TTL, _POD_RETRY, _POD_REFRESH,
  MaxMoves      \* bound: pods that come or go

VARIABLES
  live,     \* addresses of the running cloudflared pods
  ips,      \* _pod_ips
  seen,     \* _pod_ips_seen
  okAge,    \* age of the last good lookup, at most _POD_TTL; "never" is NoLookup
  due,      \* time until the next lookup is due
  thread,   \* per lookup: [at: "off", "ask", "answered", "noted", answer]
  req,      \* a request: [at: "idle" or "decide", hop]
  steady,   \* pods a finished lookup listed and that have run ever since
  moves

vars == <<live, ips, seen, okAge, due, thread, req, steady, moves>>
cache == <<ips, seen, okAge, due>>
NoLookup == _POD_TTL + 1
Off == [at |-> "off", answer |-> {}]
Rest == [at |-> "idle", hop |-> "none"]

Init ==
  /\ live \in SUBSET Ips
  /\ ips = {} /\ seen = {} /\ okAge = NoLookup /\ due = 0
  /\ thread = [t \in Threads |-> Off]
  /\ req = Rest /\ steady = {} /\ moves = 0

\* A pod comes or goes.
Move ==
  /\ moves < MaxMoves /\ moves' = moves + 1
  /\ \E p \in Ips : live' = IF p \in live THEN live \ {p} ELSE live \cup {p}
  /\ steady' = steady \cap live'
  /\ UNCHANGED <<cache, thread, req>>

Tick ==
  /\ okAge' = IF okAge < _POD_TTL THEN okAge + 1 ELSE okAge
  /\ due' = IF due = 0 THEN 0 ELSE due - 1
  /\ UNCHANGED <<live, ips, seen, thread, req, steady, moves>>

-----------------------------------------------------------------------------
(* The lookup thread                                                       *)

Alive == \E t \in Threads : thread[t].at # "off"

\* mutant: a lookup under way is not looked for
MayStart_Always == due = 0
MayStart == due = 0 /\ ~Alive

\* _tunnel_pod_ips
Kicked == IF MayStart /\ \E t \in Threads : thread[t].at = "off"
          THEN \E t \in Threads :
                 thread[t].at = "off" /\ thread' = [thread EXCEPT ![t] = [Off EXCEPT !.at = "ask"]]
          ELSE UNCHANGED thread

Asked(t) ==
  /\ thread[t].at = "ask"
  /\ thread' = [thread EXCEPT ![t] = [at |-> "answered", answer |-> live]]
  /\ UNCHANGED <<live, cache, req, steady, moves>>

\* The lookup fails: the last good set is kept.
Failed(t) ==
  /\ thread[t].at = "ask"
  /\ due' = _POD_RETRY
  /\ thread' = [thread EXCEPT ![t] = Off]
  /\ UNCHANGED <<live, ips, seen, okAge, req, steady, moves>>

Noted(t) ==
  /\ thread[t].at = "answered"
  /\ seen' = seen \cup thread[t].answer
  /\ thread' = [thread EXCEPT ![t].at = "noted"]
  /\ UNCHANGED <<live, ips, okAge, due, req, steady, moves>>

Stored(t) ==
  /\ thread[t].at = "noted"
  /\ ips' = thread[t].answer
  /\ okAge' = 0 /\ due' = _POD_REFRESH
  /\ steady' = steady \cup (thread[t].answer \cap live)
  /\ thread' = [thread EXCEPT ![t] = Off]
  /\ UNCHANGED <<live, seen, req, moves>>

-----------------------------------------------------------------------------
(* A request, whose last hop before Traefik is given                       *)

Fresh == okAge < _POD_TTL

\* _is_tunnel_peer: a pod's request is its CF-Connecting-IP's, and that is all.
Peek(h) ==
  /\ req.at = "idle"
  /\ Kicked
  /\ req' = IF h \in ips THEN Rest ELSE [at |-> "decide", hop |-> h]
  /\ UNCHANGED <<live, cache, steady, moves>>

\* Unresolved, which nobody is banned for, when the hop may be a pod; else the hop itself.
MayBePod(h) == ~Fresh /\ (okAge = NoLookup \/ h \in seen)

Decide ==
  /\ req.at = "decide"
  /\ req' = Rest
  /\ UNCHANGED <<live, cache, thread, steady, moves>>

Next ==
  \/ Move \/ Tick \/ Decide
  \/ \E t \in Threads : Asked(t) \/ Failed(t) \/ Noted(t) \/ Stored(t)
  \/ \E h \in Ips : Peek(h)

Spec == Init /\ [][Next]_vars

-----------------------------------------------------------------------------
(* Properties                                                              *)

\* A pod that was listed and has run ever since is never taken for a client: its address carries
\* every user of the tunnel, and must not be banned (rate_limit.py:187-190).  Failing lookups, and
\* answers that come late, do not lose it.
PodIsNoClient == steady \subseteq ips

-----------------------------------------------------------------------------
(* Sentences of the code and its documents that the model refutes (README) *)

\* A new pod's requests are its own while the last lookup is fresh, and it may be banned then.
NewPodIsNoClient == req.at = "decide" /\ req.hop \in live => MayBePod(req.hop)
=============================================================================
