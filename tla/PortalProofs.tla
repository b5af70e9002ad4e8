----------------------------- MODULE PortalProofs ----------------------------
(***************************************************************************)
(* Proofs about the machines of Portal, for any number of requests,        *)
(* addresses, codes and accounts, and any bounds.  Each machine has an     *)
(* inductive invariant of its own; the theorems hold of the machine alone  *)
(* and of their composition.                                               *)
(***************************************************************************)
EXTENDS Portal, FiniteSetTheorems, WellFoundedInduction, TLAPS

-----------------------------------------------------------------------------
(* The dispatch of Traefik, for every set of routed things                 *)

\* Which router leads where: to the portal, or it is one of a thing and carries its gate.
PortalRouter(r) == r.svc \in Portal
DeskRouter(r, d) ==
  /\ r.svc = d /\ r.gate = AuthOf(d) /\ r.prio = 50 /\ r.tight
  /\ Len(r.path) >= 2 /\ r.path[1] = "i" /\ r.path[2] = Segment[d]
StationRouter(r, w) ==
  /\ r.svc = w /\ r.gate = AuthOf(w) /\ r.prio = 50 /\ r.tight
  /\ r.path = <<"w", Segment[w]>>
PathRouter(r, a) ==
  /\ r.svc = a /\ r.gate = GateOf(a) /\ r.tight /\ r.host
  /\ r.path = <<Segment[a]>>
FocusRouter(r, a) ==
  r.svc = a /\ r.gate = GateOf(a) /\ r.prio = 40 /\ r.host /\ r.cookies = {TokenOf(a)}

LEMMA RouterKinds ==
  ASSUME NEW things \in SUBSET Things, NEW r \in Build(things)
  PROVE  \/ PortalRouter(r)
         \/ \E d \in Desks : DeskRouter(r, d)
         \/ \E w \in Stations : StationRouter(r, w)
         \/ \E a \in (things \cap Apps) \ Focus : PathRouter(r, a)
         \/ \E a \in things \cap Apps \cap Focus : FocusRouter(r, a)
<1>1. CASE r \in {Router(<<>>, 1, "frontend", Open), Router(<<"i">>, 10, "api", Open)}
                 \cup PortalRouters(things \cap Apps) \cup LanRouters
  BY <1>1 DEF PortalRouters, LanRouters, Router, OnLan, Tight, PortalRouter, Portal
<1>2. ASSUME NEW d \in Desks, r \in DeskRouters(d) PROVE DeskRouter(r, d)
  <2>1. CASE r = Tight(Router(<<"i", Segment[d]>>, 50, d, AuthOf(d)))
    BY <2>1 DEF DeskRouter, Router, Tight
  <2>2. CASE r = [OnLan(Tight(Router(<<"i", Segment[d], "p", "web">>, 50, d, AuthOf(d))))
                  EXCEPT !.part = "web"]
    BY <2>2 DEF DeskRouter, Router, OnLan, Tight
  <2> QED BY <1>2, <2>1, <2>2 DEF DeskRouters
<1>3. ASSUME NEW w \in Stations, r \in StationRouters(w) PROVE StationRouter(r, w)
  BY <1>3 DEF StationRouters, StationRouter, Router, OnLan, Tight
<1>4. ASSUME NEW a \in things \cap Apps, r = AppRouter(a)
      PROVE  IF a \in Focus THEN FocusRouter(r, a) ELSE PathRouter(r, a)
  BY <1>4 DEF AppRouter, FocusRouter, PathRouter, Router, Tight
<1>5. \/ r \in {Router(<<>>, 1, "frontend", Open), Router(<<"i">>, 10, "api", Open)}
               \cup PortalRouters(things \cap Apps) \cup LanRouters
      \/ \E d \in Desks : r \in DeskRouters(d)
      \/ \E w \in Stations : r \in StationRouters(w)
      \/ \E a \in things \cap Apps : r = AppRouter(a)
  <2> DEFINE Base == {Router(<<>>, 1, "frontend", Open), Router(<<"i">>, 10, "api", Open)}
                     \cup PortalRouters(things \cap Apps) \cup LanRouters
             OfDesks == UNION {DeskRouters(d) : d \in things \cap Desks}
             OfStations == UNION {StationRouters(w) : w \in things \cap Stations}
             OfApps == {AppRouter(a) : a \in things \cap Apps}
  <2>1. r \in Base \cup OfDesks \cup OfStations \cup OfApps
    <3>1. Build(things) = Base \cup OfDesks \cup OfStations \cup OfApps
      BY Zenon DEF Build
    <3> QED BY <3>1, Zenon
  <2>2. CASE r \in OfDesks
    <3>1. \E d \in Desks : r \in DeskRouters(d)
      BY <2>2
    <3> QED BY <3>1, Zenon
  <2>3. CASE r \in OfStations
    <3>1. \E w \in Stations : r \in StationRouters(w)
      BY <2>3
    <3> QED BY <3>1, Zenon
  <2>4. CASE r \in OfApps
    <3>1. \E a \in things \cap Apps : r = AppRouter(a)
      BY <2>4
    <3> QED BY <3>1, Zenon
  <2>5. CASE r \in Base
    BY <2>5, Zenon
  <2> HIDE DEF Base, OfDesks, OfStations, OfApps
  <2> QED BY <2>1, <2>2, <2>3, <2>4, <2>5, Zenon
<1> QED BY <1>1, <1>2, <1>3, <1>4, <1>5

\* The paths that are asked for have a first segment, and the prefix of a tight rule is theirs.
LEMMA PathsBegin == ASSUME NEW p \in Paths, p # <<>> PROVE Len(p) >= 1
BY DEF Paths

LEMMA TightPrefix ==
  ASSUME NEW prefix, NEW path, Under(TRUE, prefix, path), NEW k \in 1 .. Len(prefix)
  PROVE  path[k] = prefix[k]
BY DEF Under

\* The path of a request that a thing's router takes is the thing's.
LEMMA DeskPath ==
  ASSUME NEW q \in Requests, NEW r, NEW d \in Desks, DeskRouter(r, d), Matches(r, q)
  PROVE  q.path[1] = "i" /\ q.path = <<"i", Segment[d], "x">>
<1>1. Len(q.path) >= 2 /\ q.path[1] = "i" /\ q.path[2] = Segment[d]
  BY DEF DeskRouter, Matches, Under
<1>2. q.path \in Paths
  BY DEF Requests
<1>3. q.path # <<"api", "x">> /\ q.path # <<"_styx", "app">>
  BY <1>1
<1>4. \A w \in Stations : q.path # <<"w", Segment[w]>>
  BY <1>1
<1>5. \E e \in Desks : q.path = <<"i", Segment[e], "x">>
  BY <1>1, <1>2, <1>3, <1>4 DEF Paths
<1> QED BY <1>1, <1>5

LEMMA StationPath ==
  ASSUME NEW q \in Requests, NEW r, NEW w \in Stations, StationRouter(r, w), Matches(r, q)
  PROVE  q.path[1] = "w" /\ q.path = <<"w", Segment[w]>>
<1>1. Len(q.path) >= 2 /\ q.path[1] = "w" /\ q.path[2] = Segment[w]
  BY DEF StationRouter, Matches, Under
<1>2. q.path \in Paths
  BY DEF Requests
<1>3. q.path # <<"api", "x">> /\ q.path # <<"_styx", "app">>
  BY <1>1
<1>4. \A d \in Desks : q.path # <<"i", Segment[d], "x">>
  BY <1>1
<1>5. \E v \in Stations : q.path = <<"w", Segment[v]>>
  BY <1>1, <1>2, <1>3, <1>4 DEF Paths
<1> QED BY <1>1, <1>5

LEMMA AppPath ==
  ASSUME NEW q \in Requests, NEW r, NEW a \in Apps, PathRouter(r, a), Matches(r, q)
  PROVE  q.path[1] \notin Reserved /\ q.path = <<Segment[a]>>
<1>1. Len(q.path) >= 1 /\ q.path[1] = Segment[a]
  BY DEF PathRouter, Matches, Under
<1>2. q.path[1] \notin Reserved
  BY <1>1, NameAssumption
<1>3. q.path \in Paths
  BY DEF Requests
<1>4. q.path \in {<<Segment[b]>> : b \in Apps} \cup {<<p[2]>> : p \in Longer}
  BY <1>1, <1>2, <1>3 DEF Paths, Reserved
<1>5. \E s : q.path = <<s>>
  BY <1>4
<1> QED BY <1>1, <1>2, <1>5

\* Who outranks the apps: while one of them is behind its cookie, the portal keeps these routers.
LEMMA PortalFirst ==
  ASSUME NEW things \in SUBSET Things, NEW a \in things \cap Apps \cap Focus
  PROVE  /\ Router(<<"_styx", "app">>, 95, "frontend", Open) \in Build(things)
         /\ Router(<<"api", "auth", "oauth">>, 101, "api", Open) \in Build(things)
         /\ Tight(Router(<<"accept-invite">>, 101, "frontend", Open)) \in Build(things)
         /\ [Router(<<"api">>, 100, "api", Open) EXCEPT !.client = TRUE] \in Build(things)
<1>1. things \cap Apps # {} /\ (things \cap Apps) \cap Focus # {}
  OBVIOUS
<1>2. PortalRouters(things \cap Apps) \subseteq Build(things)
  BY DEF Build
<1> QED BY <1>1, <1>2, Zenon DEF PortalRouters

\* A router that fits the request is not outranked by what Traefik chooses.
LEMMA ChosenRanks ==
  ASSUME NEW routers, NEW q, NEW r \in Chosen(routers, q), NEW s \in routers, Matches(s, q)
  PROVE  Matches(r, q) /\ s.prio <= r.prio
BY DEF Chosen

\* What must stay with the portal is not given to an app behind its cookie.
LEMMA PortalKept ==
  ASSUME NEW things \in SUBSET Things, NEW q \in Requests,
         NEW a \in things \cap Apps \cap Focus,
         q.path \in {<<"api", "auth", "oauth">>, <<"accept-invite">>, <<"_styx", "app">>},
         NEW r \in Chosen(Build(things), q), Matches(r, q), FocusRouter(r, a)
  PROVE  FALSE
<1> DEFINE P == Router(<<"_styx", "app">>, 95, "frontend", Open)
           O == Router(<<"api", "auth", "oauth">>, 101, "api", Open)
           I == Tight(Router(<<"accept-invite">>, 101, "frontend", Open))
<1>1. q.host /\ q.cookie \in Cookies /\ r.prio = 40
  BY DEF FocusRouter, Matches, Requests
<1>2. CASE q.path = <<"api", "auth", "oauth">>
  <2>1. Matches(O, q) /\ O.prio = 101
    BY <1>1, <1>2 DEF Matches, Router, Under
  <2>2. O \in Build(things)
    BY PortalFirst
  <2> HIDE DEF O
  <2> QED BY <1>1, <2>1, <2>2, ChosenRanks
<1>3. CASE q.path = <<"accept-invite">>
  <2>1. Matches(I, q) /\ I.prio = 101
    BY <1>1, <1>3 DEF Matches, Router, Tight, Under
  <2>2. I \in Build(things)
    BY PortalFirst
  <2> HIDE DEF I
  <2> QED BY <1>1, <2>1, <2>2, ChosenRanks
<1>4. CASE q.path = <<"_styx", "app">>
  <2>1. Matches(P, q) /\ P.prio = 95
    BY <1>1, <1>4 DEF Matches, Router, Under
  <2>2. P \in Build(things)
    BY PortalFirst
  <2> HIDE DEF P
  <2> QED BY <1>1, <2>1, <2>2, ChosenRanks
<1> QED BY <1>2, <1>3, <1>4

\* The portal's own calls: without the cookie of an app, or with the header of the portal's page.
ApiCall(q) ==
  q.path[1] = "api" /\ (q.client \/ q.cookie \notin {TokenOf(a) : a \in Focus})

LEMMA ApiAnswers ==
  ASSUME NEW things \in SUBSET Things, NEW q \in Requests, q.path # <<>>, ApiCall(q), q.host,
         NEW r \in Chosen(Build(things), q)
  PROVE  Matches(r, q) /\ r.prio >= 100
<1> DEFINE focus == (things \cap Apps) \cap Focus
           A == [Router(<<"api">>, 100, "api", Open) EXCEPT !.cookies = @ \ {TokenOf(a) : a \in focus}]
           C == [Router(<<"api">>, 100, "api", Open) EXCEPT !.client = TRUE]
<1>1. Len(q.path) >= 1 /\ q.path[1] = "api" /\ q.cookie \in Cookies
  BY PathsBegin DEF Requests, ApiCall
<1>2. Under(FALSE, <<"api">>, q.path)
  BY <1>1 DEF Under
<1>3. CASE q.cookie \notin {TokenOf(a) : a \in focus}
  <2>1. A.cookies = Cookies \ {TokenOf(a) : a \in focus} /\ A.path = <<"api">> /\ ~A.tight
        /\ A.host /\ ~A.client /\ A.prio = 100
    BY DEF Router
  <2>2. A \in Build(things)
    <3>1. A \in PortalRouters(things \cap Apps)
      BY Zenon DEF PortalRouters
    <3> QED BY <3>1, Zenon DEF Build
  <2> HIDE DEF A
  <2>3. A.tight = FALSE
    BY <2>1
  <2>4. Matches(A, q)
    BY <1>1, <1>2, <1>3, <2>1, <2>3 DEF Matches
  <2> QED BY <2>1, <2>2, <2>4, ChosenRanks
<1>4. CASE q.cookie \in {TokenOf(a) : a \in focus}
  <2>1. q.client
    BY <1>4 DEF ApiCall
  <2>2. C.cookies = Cookies /\ C.path = <<"api">> /\ C.tight = FALSE /\ C.host /\ C.prio = 100
    BY DEF Router
  <2>3. C \in Build(things)
    BY <1>4, PortalFirst
  <2> HIDE DEF C
  <2>4. Matches(C, q)
    BY <1>1, <1>2, <2>1, <2>2 DEF Matches
  <2> QED BY <2>2, <2>3, <2>4, ChosenRanks
<1> QED BY <1>3, <1>4

LEMMA PortalRanks ==
  ASSUME NEW things \in SUBSET Things, NEW r \in Build(things), PortalRouter(r)
  PROVE  /\ r.prio >= 100 => r.svc = "api" \/ (r.tight /\ r.path = <<"accept-invite">>)
         /\ ~r.host => \/ r.svc = "api"
                       \/ /\ r.prio = 1
                          /\ OnLan(Router(<<"api">>, 100, "api", Open)) \in Build(things)
<1>1. CASE r \in {Router(<<>>, 1, "frontend", Open), Router(<<"i">>, 10, "api", Open)}
  BY <1>1 DEF Router
<1>2. CASE r \in PortalRouters(things \cap Apps)
  BY <1>2 DEF PortalRouters, Router, Tight
<1>3. CASE r \in LanRouters
  <2>1. OnLan(Router(<<"api">>, 100, "api", Open)) \in LanRouters
    BY <1>3 DEF LanRouters
  <2>2. LanRouters \subseteq Build(things)
    BY DEF Build
  <2>3. OnLan(Router(<<"api">>, 100, "api", Open)) \in Build(things)
    BY <2>1, <2>2, Zenon
  <2>4. r.svc = "api" \/ r.prio = 1
    BY <1>3 DEF LanRouters, Router, OnLan
  <2> QED BY <2>3, <2>4
<1>4. \/ \E d \in Desks : r \in DeskRouters(d)
      \/ \E w \in Stations : r \in StationRouters(w)
      \/ \E a \in things \cap Apps : r = AppRouter(a)
      \/ r \in {Router(<<>>, 1, "frontend", Open), Router(<<"i">>, 10, "api", Open)}
      \/ r \in PortalRouters(things \cap Apps)
      \/ r \in LanRouters
  BY DEF Build
<1>5. Things \cap Portal = {}
  BY NameAssumption DEF Portal
<1>6. CASE \E d \in Desks : r \in DeskRouters(d)
  <2>1. PICK d \in Desks : r \in DeskRouters(d)
    BY <1>6
  <2>2. r.svc = d
    BY <2>1 DEF DeskRouters, Router, OnLan, Tight
  <2> QED BY <1>5, <2>2 DEF PortalRouter, Things
<1>7. CASE \E w \in Stations : r \in StationRouters(w)
  <2>1. PICK w \in Stations : r \in StationRouters(w)
    BY <1>7
  <2>2. r.svc = w
    BY <2>1 DEF StationRouters, Router, OnLan, Tight
  <2> QED BY <1>5, <2>2 DEF PortalRouter, Things
<1>8. CASE \E a \in things \cap Apps : r = AppRouter(a)
  <2>1. PICK a \in Apps : r = AppRouter(a)
    BY <1>8
  <2>2. r.svc = a
    BY <2>1 DEF AppRouter, Router, Tight
  <2> QED BY <1>5, <2>2 DEF PortalRouter, Things
<1> QED BY <1>1, <1>2, <1>3, <1>4, <1>6, <1>7, <1>8

\* What Traefik chooses for a request is right, whatever is routed.
LEMMA AnswersAreRight ==
  ASSUME NEW things \in SUBSET Things, NEW q \in Requests, q.path # <<>>,
         NEW r \in Chosen(Build(things), q)
  PROVE  RightAnswer(r, q)
<1>1. r \in Build(things) /\ Matches(r, q)
  BY DEF Chosen
<1>2. Things \cap Portal = {} /\ Things = Desks \cup Stations \cup Apps
  BY NameAssumption DEF Portal, Things
<1>3. Focus \subseteq Apps /\ Native \subseteq Apps
  BY ThingAssumption
<1>4. Desks \cap Stations = {} /\ Desks \cap Apps = {} /\ Stations \cap Apps = {}
  BY NameAssumption
<1>5. q.path \in {<<"api", "auth", "oauth">>, <<"accept-invite">>, <<"_styx", "app">>} =>
        q.path[1] \in {"api", "accept-invite", "_styx"}
  OBVIOUS
<1>6. CASE PortalRouter(r)
  <2>1. r.svc \in Portal /\ r.svc \notin Things
    BY <1>2, <1>6 DEF PortalRouter
  <2>2. ASSUME q.path[1] = "api",
               q.client \/ q.cookie \notin {TokenOf(a) : a \in Focus}
        PROVE  r.svc = "api"
    <3>1. ApiCall(q)
      BY <2>2 DEF ApiCall
    <3>2. ~(r.tight /\ r.path = <<"accept-invite">>)
      <4>1. ASSUME r.tight, r.path = <<"accept-invite">> PROVE q.path[1] = "accept-invite"
        BY <1>1, <4>1 DEF Matches, Under
      <4> QED BY <2>2, <4>1
    <3>3. CASE q.host
      <4>1. r.prio >= 100
        BY <3>1, <3>3, ApiAnswers
      <4> QED BY <1>1, <1>6, <3>2, <4>1, PortalRanks
    <3>4. CASE ~q.host
      <4> DEFINE L == OnLan(Router(<<"api">>, 100, "api", Open))
      <4>1. ~r.host
        BY <1>1, <3>4 DEF Matches
      <4>2. ASSUME r.prio = 1, L \in Build(things) PROVE FALSE
        <5>1. L.cookies = Cookies /\ L.path = <<"api">> /\ L.tight = FALSE /\ L.host = FALSE
              /\ L.client = FALSE /\ L.prio = 100
          BY DEF OnLan, Router
        <5>2. Len(q.path) >= 1 /\ q.cookie \in Cookies
          BY PathsBegin DEF Requests
        <5>3. Under(FALSE, <<"api">>, q.path)
          BY <2>2, <5>2 DEF Under
        <5> HIDE DEF L
        <5>4. Matches(L, q)
          BY <5>1, <5>2, <5>3 DEF Matches
        <5> QED BY <4>2, <5>1, <5>4, ChosenRanks
      <4> QED BY <1>1, <1>6, <4>1, <4>2, PortalRanks
    <3> QED BY <3>3, <3>4
  <2> QED BY <1>2, <1>3, <2>1, <2>2, Zenon DEF RightAnswer
<1>7. ASSUME NEW d \in Desks, DeskRouter(r, d) PROVE RightAnswer(r, q)
  <2>1. q.path[1] = "i" /\ q.path = <<"i", Segment[d], "x">>
    BY <1>1, <1>7, DeskPath
  <2>2. r.svc = d /\ r.gate = AuthOf(d) /\ GateOf(d) = AuthOf(d) /\ d \notin Focus
    BY <1>3, <1>4, <1>7 DEF DeskRouter, GateOf
  <2>3. q.path = PathOf(d)
    BY <2>1 DEF PathOf
  <2> QED BY <1>5, <2>1, <2>2, <2>3 DEF RightAnswer
<1>8. ASSUME NEW w \in Stations, StationRouter(r, w) PROVE RightAnswer(r, q)
  <2>1. q.path[1] = "w" /\ q.path = <<"w", Segment[w]>>
    BY <1>1, <1>8, StationPath
  <2>2. r.svc = w /\ r.gate = AuthOf(w) /\ GateOf(w) = AuthOf(w) /\ w \notin Focus
    BY <1>3, <1>4, <1>8 DEF StationRouter, GateOf
  <2>3. q.path = PathOf(w)
    BY <1>4, <2>1 DEF PathOf
  <2> QED BY <1>5, <2>1, <2>2, <2>3 DEF RightAnswer
<1>9. ASSUME NEW a \in (things \cap Apps) \ Focus, PathRouter(r, a) PROVE RightAnswer(r, q)
  <2>1. q.path[1] \notin Reserved /\ q.path = <<Segment[a]>>
    BY <1>1, <1>9, AppPath
  <2>2. r.svc = a /\ r.gate = GateOf(a) /\ a \notin Focus
    BY <1>9 DEF PathRouter
  <2>3. q.path = PathOf(a)
    BY <1>4, <2>1 DEF PathOf
  <2> QED BY <1>5, <2>1, <2>2, <2>3 DEF RightAnswer, Reserved
<1>10. ASSUME NEW a \in things \cap Apps \cap Focus, FocusRouter(r, a) PROVE RightAnswer(r, q)
  <2>1. r.svc = a /\ r.gate = GateOf(a) /\ r.prio = 40 /\ r.host /\ r.cookies = {TokenOf(a)}
    BY <1>10 DEF FocusRouter
  <2>2. q.host /\ q.cookie = TokenOf(a)
    BY <1>1, <2>1 DEF Matches
  <2>3. q.path \notin {<<"api", "auth", "oauth">>, <<"accept-invite">>, <<"_styx", "app">>}
    BY <1>1, <1>10, PortalKept
  <2>4. ~ApiCall(q)
    <3>1. ASSUME ApiCall(q) PROVE r.prio >= 100
      BY <2>2, <3>1, ApiAnswers
    <3> QED BY <2>1, <3>1
  <2> QED BY <2>1, <2>2, <2>3, <2>4 DEF RightAnswer, ApiCall
<1> QED BY <1>1, <1>6, <1>7, <1>8, <1>9, <1>10, RouterKinds

LEMMA NoneMisrouted == MisroutedRows = {}
<1> SUFFICES ASSUME NEW things \in SUBSET Things, NEW q \in Requests, Misrouted(things, q)
             PROVE  FALSE
  BY DEF MisroutedRows
<1> QED BY AnswersAreRight DEF Misrouted

-----------------------------------------------------------------------------
(* RouteFile: while a pass applies, what it has applied is closed under    *)
(* what it needs, and what it prunes nothing that stays needs.             *)

Objects == {"Service", "Middleware", "IngressRoute"} \X Things
Needs(objects, failed) ==
  \A t \in Things : <<"IngressRoute", t>> \in objects \ failed =>
    /\ <<"Middleware", t>> \in objects \cup failed
    /\ t \notin Desks => <<"Service", t>> \in objects \cup failed

RouteTypes ==
  /\ rows \subseteq Things
  /\ ref \in [Refreshers -> [pc : {"idle", "desks", "stations", "apps", "queued", "sync"},
                              seen : SUBSET Things]]
  /\ file \in [rows : SUBSET Things, rate : {"seed", "override"}]
  /\ cache \in Rates /\ stored \in Rates
  /\ cluster \subseteq Objects /\ hurt \subseteq Objects
  /\ sync \in [apply : SUBSET Objects, prune : SUBSET Objects, failed : BOOLEAN,
               pruning : BOOLEAN]
  /\ lock \in Refreshers \cup {Nobody}
  /\ lock # Nobody => k8s /\ ref[lock].pc = "sync"

\* The pass under way: what it has to apply lacks nothing of a lower kind that it has not applied,
\* but what was refused.
Applying(desired) ==
  /\ sync.apply \subseteq desired /\ desired \subseteq cluster \cup sync.apply \cup hurt
  /\ sync.prune \cap desired = {}
  /\ IF sync.pruning THEN sync.apply = {} /\ cluster \subseteq desired \cup sync.prune \cup hurt
     ELSE sync.prune = {}

PartsInv ==
  /\ Needs(cluster, hurt)
  /\ lock # Nobody => Applying(ObjectsOf(ref[lock].seen))
  /\ lock = Nobody => sync = NoSync

RouteInv == RouteTypes /\ RateIsLive /\ PartsInv

\* Rank follows Kinds.
LEMMA Ranks ==
  ASSUME NEW t
  PROVE  Rank(<<"Service", t>>) = 1 /\ Rank(<<"Middleware", t>>) = 2 /\ Rank(<<"IngressRoute", t>>) = 3
<1>1. Kinds[1] = "Service" /\ Kinds[2] = "Middleware" /\ Kinds[3] = "IngressRoute"
  BY DEF Kinds
<1>2. \A k \in 1 .. 3 : k = 1 \/ k = 2 \/ k = 3
  OBVIOUS
<1>3. Rank(<<"Service", t>>) = 1
  BY <1>1, <1>2 DEF Rank
<1>4. Rank(<<"Middleware", t>>) = 2
  BY <1>1, <1>2 DEF Rank
<1>5. Rank(<<"IngressRoute", t>>) = 3
  BY <1>1, <1>2 DEF Rank
<1> QED BY <1>3, <1>4, <1>5

\* The objects of a set of rows are whole.
LEMMA DesiredIsWhole ==
  ASSUME NEW things \in SUBSET Things
  PROVE  ObjectsOf(things) \subseteq Objects /\ Needs(ObjectsOf(things), {})
BY DEF ObjectsOf, BackingServices, Kept, BadUpstream, Objects, Needs

\* First and Last keep the kinds in order.
LEMMA FirstIsLow ==
  ASSUME NEW todo \in SUBSET Objects, NEW t \in Things, <<"IngressRoute", t>> \in First(todo)
  PROVE  <<"Middleware", t>> \notin todo /\ <<"Service", t>> \notin todo
BY Ranks DEF First

LEMMA LastIsHigh ==
  ASSUME NEW todo \in SUBSET Objects, NEW t \in Things, NEW kind \in {"Service", "Middleware"},
         <<kind, t>> \in Last(todo)
  PROVE  <<"IngressRoute", t>> \notin todo
<1>1. Rank(<<kind, t>>) \in {1, 2} /\ Rank(<<"IngressRoute", t>>) = 3
  BY Ranks
<1>2. \A p \in todo : Rank(p) <= Rank(<<kind, t>>)
  BY DEF Last
<1> QED BY <1>1, <1>2

LEMMA RouteStart == Init => RouteInv
<1> SUFFICES ASSUME Init PROVE RouteInv
  OBVIOUS
<1> USE DEF Init, Idle, NoSync
<1>1. rows \subseteq Things
  BY DEF Things
<1>2. cluster \subseteq Objects /\ hurt = {} /\ Needs(cluster, hurt)
  BY <1>1, DesiredIsWhole DEF Needs
<1>3. RouteTypes
  BY <1>1, <1>2 DEF RouteTypes, Rates
<1>4. RateIsLive
  BY DEF RateIsLive
<1> QED BY <1>2, <1>3, <1>4 DEF RouteInv, PartsInv

\* Steps that leave the lock, the pass and the cluster as they are, and the reader of the pass its rows
LEMMA PartsKept ==
  ASSUME RouteInv, UNCHANGED <<lock, sync, cluster, hurt>>,
         lock # Nobody => ref'[lock].seen = ref[lock].seen
  PROVE  PartsInv'
<1>1. lock # Nobody => ObjectsOf(ref'[lock].seen) = ObjectsOf(ref[lock].seen)
  OBVIOUS
<1> QED BY <1>1 DEF RouteInv, PartsInv, Applying

\* Whoever begins to refresh is not the one whose pass it is.
LEMMA Begins ==
  ASSUME RouteInv, NEW r \in Refreshers, Serve(r), UNCHANGED lock
  PROVE  /\ ref' \in [Refreshers -> [pc : {"idle", "desks", "stations", "apps", "queued", "sync"},
                                     seen : SUBSET Things]]
         /\ ref'[r].pc = "desks"
         /\ lock # Nobody => lock # r /\ ref'[lock] = ref[lock]
BY DEF RouteInv, RouteTypes, Serve

LEMMA RouteReads ==
  ASSUME RouteInv, NEW r \in Refreshers
  PROVE  Change(r) \/ PatchBegins(r) \/ Read(r) \/ WriteFile(r) \/ Restart(r) => RouteInv'
<1>1. CASE Change(r)
  <2>1. rows' \subseteq Things /\ Serve(r)
    BY <1>1 DEF Change, RouteInv, RouteTypes
  <2>2. UNCHANGED <<k8s, stored, cache, file, cluster, lock, sync, unwritten, hurt>>
    BY <1>1 DEF ghosts, Change
  <2>3. RouteTypes'
    BY <2>1, <2>2, Begins DEF RouteInv, RouteTypes
  <2>4. RateIsLive'
    BY <2>1, <2>2, Begins DEF RateIsLive
  <2>5. PartsInv'
    BY <2>1, <2>2, Begins, PartsKept
  <2> QED BY <2>3, <2>4, <2>5 DEF RouteInv
<1>2. CASE PatchBegins(r)
  <2>1. cache' \in Rates
    <3>1. \E v \in Rates : v # cache
      BY DEF Rates
    <3> QED BY <1>2, <3>1 DEF PatchBegins
  <2>2. UNCHANGED <<k8s, rows, stored, file, cluster, lock, sync, unwritten, hurt>> /\ Serve(r)
    BY <1>2 DEF ghosts, PatchBegins
  <2>3. RouteTypes'
    BY <2>1, <2>2, Begins DEF RouteInv, RouteTypes
  <2>4. RateIsLive'
    BY <2>2, Begins DEF RateIsLive
  <2>5. PartsInv'
    BY <2>2, Begins, PartsKept
  <2> QED BY <2>3, <2>4, <2>5 DEF RouteInv
<1>3. CASE Read(r)
  <2> DEFINE seen == ref[r].seen \cup (rows \cap Stages[ref[r].pc])
             next == [pc |-> Following[ref[r].pc], seen |-> seen]
  <2>1. ref[r].pc \in {"desks", "stations", "apps"}
    BY <1>3 DEF Read, Stages
  <2>2. Following[ref[r].pc] \in {"stations", "apps", "queued"}
    BY <2>1 DEF Following
  <2>3. ref' = [ref EXCEPT ![r] = next]
    BY <1>3 DEF Read, RouteInv, RouteTypes
  <2>4. seen \subseteq Things
    BY DEF RouteInv, RouteTypes
  <2>5. next \in [pc : {"stations", "apps", "queued"}, seen : SUBSET Things] /\ next.pc # "idle"
    BY <2>2, <2>4
  <2> HIDE DEF next
  <2>6. UNCHANGED <<k8s, rows, stored, cache, file, cluster, lock, sync, unwritten, hurt>>
    BY <1>3 DEF ghosts, Read
  <2>7. lock # r
    BY <1>3, <2>1, NameAssumption DEF RouteInv, RouteTypes, Nobody
  <2>8. ref'[r] = next /\ \A x \in Refreshers : x # r => ref'[x] = ref[x]
    BY <2>3 DEF RouteInv, RouteTypes
  <2>9. RouteTypes'
    BY <2>3, <2>5, <2>6, <2>7 DEF RouteInv, RouteTypes
  <2>10. RateIsLive'
    BY <2>5, <2>6, <2>8 DEF RateIsLive
  <2>11. PartsInv'
    BY <2>6, <2>7, <2>8, PartsKept DEF RouteInv, RouteTypes
  <2> QED BY <2>9, <2>10, <2>11 DEF RouteInv
<1>4. CASE WriteFile(r)
  <2>1. /\ ~k8s
        /\ \/ file' = [rows |-> ref[r].seen, rate |-> cache]
           \/ unwritten' = TRUE /\ file' = file
        /\ ref' = [ref EXCEPT ![r] = Idle]
        /\ UNCHANGED <<k8s, rows, stored, cache, cluster, lock, sync, hurt>>
    BY <1>4 DEF WriteFile, Unwritable, Written, Effective
  <2>2. lock = Nobody
    BY <2>1 DEF RouteInv, RouteTypes
  <2>3. RouteTypes'
    BY <2>1, <2>2 DEF RouteInv, RouteTypes, Idle, Rates
  <2>4. RateIsLive'
    BY <2>1 DEF RateIsLive
  <2>5. PartsInv'
    BY <2>1, <2>2, PartsKept
  <2> QED BY <2>3, <2>4, <2>5 DEF RouteInv
<1>5. CASE Restart(r)
  <2>1. ref' = [[x \in Refreshers |-> Idle] EXCEPT ![r].pc = "desks"] /\ cache' = stored
        /\ lock' = Nobody /\ sync' = NoSync
        /\ UNCHANGED <<k8s, rows, stored, file, cluster, unwritten, hurt>>
    BY <1>5 DEF ghosts, Restart
  <2>2. RouteTypes'
    BY <2>1 DEF RouteInv, RouteTypes, Idle, NoSync
  <2>3. ref'[r].pc = "desks"
    BY <2>1 DEF Idle
  <2>4. RateIsLive'
    BY <2>3 DEF RateIsLive
  <2>5. PartsInv'
    BY <2>1 DEF RouteInv, PartsInv
  <2> QED BY <2>2, <2>4, <2>5 DEF RouteInv
<1> QED BY <1>1, <1>2, <1>3, <1>4, <1>5

\* The end of a pass
LEMMA RouteSyncOver ==
  ASSUME RouteInv, lock # Nobody, SyncOver,
         UNCHANGED <<k8s, rows, stored, cache, file, cluster, unwritten, hurt>>
  PROVE  RouteInv'
<1>1. lock' = Nobody /\ sync' = NoSync /\ ref' = [ref EXCEPT ![lock] = Idle]
  BY DEF SyncOver
<1>2. RouteTypes'
  BY <1>1 DEF RouteInv, RouteTypes, Idle, NoSync
<1>3. RateIsLive'
  BY DEF RouteInv, RouteTypes, RateIsLive
<1>4. PartsInv'
  BY <1>1 DEF RouteInv, PartsInv
<1> QED BY <1>2, <1>3, <1>4 DEF RouteInv

LEMMA RouteApplies == RouteInv /\ Apply => RouteInv'
<1> SUFFICES ASSUME RouteInv, Apply PROVE RouteInv'
  OBVIOUS
<1> DEFINE desired == ObjectsOf(ref[lock].seen)
<1>1. lock # Nobody /\ k8s /\ lock \in Refreshers /\ UNCHANGED <<k8s, rows, stored, cache, file, admin>>
  BY DEF Apply, RouteInv, RouteTypes
<1>2. RateIsLive'
  BY <1>1 DEF RateIsLive
<1>3. PICK o \in First(sync.apply) :
        \/ /\ cluster' = cluster \cup {o} /\ hurt' = hurt \ {o}
           /\ sync' = [sync EXCEPT !.apply = @ \ {o}]
           /\ UNCHANGED <<ref, lock, events>>
        \/ /\ Spend /\ hurt' = hurt \cup {o}
           /\ sync' = [sync EXCEPT !.apply = @ \ {o}, !.failed = TRUE]
           /\ UNCHANGED <<cluster, ref, lock>>
        \/ /\ Spend /\ SyncOver /\ UNCHANGED hurt
           /\ cluster' \in {cluster, cluster \cup {o}}
  BY DEF Apply
<1>4. o \in sync.apply /\ sync.apply \subseteq Objects
  BY DEF First, RouteInv, RouteTypes
<1>5. Applying(desired) /\ Needs(cluster, hurt) /\ ~sync.pruning
  BY <1>1, <1>4 DEF RouteInv, PartsInv, Applying
<1>6. desired \subseteq Objects /\ Needs(desired, {})
  BY <1>1, DesiredIsWhole DEF RouteInv, RouteTypes
<1>7. ref' = ref /\ lock' = lock => desired' = desired
  OBVIOUS
<1> HIDE DEF desired
<1>8. o \in desired
  BY <1>4, <1>5 DEF Applying
<1>9. ASSUME NEW t \in Things, o = <<"IngressRoute", t>>
      PROVE  /\ <<"Middleware", t>> \in cluster \cup hurt
             /\ t \notin Desks => <<"Service", t>> \in cluster \cup hurt
  <2>1. <<"Middleware", t>> \in desired /\ (t \notin Desks => <<"Service", t>> \in desired)
    BY <1>6, <1>8, <1>9 DEF Needs
  <2>2. <<"Middleware", t>> \notin sync.apply /\ <<"Service", t>> \notin sync.apply
    BY <1>4, <1>9, FirstIsLow
  <2> QED BY <1>5, <2>1, <2>2 DEF Applying
<1>10. ASSUME NEW t \in Things
       PROVE  <<"Middleware", t>> # <<"IngressRoute", t>> /\ <<"Service", t>> # <<"IngressRoute", t>>
  OBVIOUS
<1>11. CASE /\ cluster' = cluster \cup {o} /\ hurt' = hurt \ {o}
            /\ sync' = [sync EXCEPT !.apply = @ \ {o}]
            /\ UNCHANGED <<ref, lock, events>>
  <2>1. RouteTypes'
    BY <1>1, <1>4, <1>11 DEF RouteInv, RouteTypes
  <2>2. Needs(cluster, hurt)'
    <3> SUFFICES ASSUME NEW t \in Things, <<"IngressRoute", t>> \in cluster' \ hurt'
                 PROVE  /\ <<"Middleware", t>> \in cluster' \cup hurt'
                        /\ t \notin Desks => <<"Service", t>> \in cluster' \cup hurt'
      BY DEF Needs
    <3>1. cluster \cup hurt \subseteq cluster' \cup hurt'
      BY <1>11
    <3>2. <<"IngressRoute", t>> \in cluster \ hurt \/ o = <<"IngressRoute", t>>
      BY <1>11
    <3>3. /\ <<"Middleware", t>> \in cluster \cup hurt
          /\ t \notin Desks => <<"Service", t>> \in cluster \cup hurt
      BY <1>5, <1>9, <3>2 DEF Needs
    <3> QED BY <3>1, <3>3
  <2>3. sync'.apply = sync.apply \ {o} /\ sync'.pruning = sync.pruning /\ sync'.prune = sync.prune
    BY <1>11 DEF RouteInv, RouteTypes
  <2>4. Applying(desired)'
    BY <1>5, <1>7, <1>11, <2>3 DEF Applying
  <2>5. PartsInv'
    BY <1>1, <1>11, <2>2, <2>4 DEF PartsInv, desired
  <2> QED BY <1>2, <2>1, <2>5 DEF RouteInv
<1>12. CASE /\ Spend /\ hurt' = hurt \cup {o}
            /\ sync' = [sync EXCEPT !.apply = @ \ {o}, !.failed = TRUE]
            /\ UNCHANGED <<cluster, ref, lock>>
  <2>1. RouteTypes'
    BY <1>1, <1>4, <1>12 DEF RouteInv, RouteTypes
  <2>2. Needs(cluster, hurt)'
    BY <1>5, <1>12 DEF Needs
  <2>3. sync'.apply = sync.apply \ {o} /\ sync'.pruning = sync.pruning /\ sync'.prune = sync.prune
    BY <1>12 DEF RouteInv, RouteTypes
  <2>4. Applying(desired)'
    BY <1>5, <1>7, <1>12, <2>3 DEF Applying
  <2>5. PartsInv'
    BY <1>1, <1>12, <2>2, <2>4 DEF PartsInv, desired
  <2> QED BY <1>2, <2>1, <2>5 DEF RouteInv
<1>13. CASE Spend /\ SyncOver /\ UNCHANGED hurt /\ cluster' \in {cluster, cluster \cup {o}}
  <2>1. lock' = Nobody /\ sync' = NoSync /\ ref' = [ref EXCEPT ![lock] = Idle]
    BY <1>13 DEF SyncOver
  <2>2. RouteTypes'
    BY <1>1, <1>4, <1>13, <2>1 DEF RouteInv, RouteTypes, Idle, NoSync
  <2>3. Needs(cluster, hurt)'
    <3> SUFFICES ASSUME NEW t \in Things, <<"IngressRoute", t>> \in cluster' \ hurt'
                 PROVE  /\ <<"Middleware", t>> \in cluster' \cup hurt'
                        /\ t \notin Desks => <<"Service", t>> \in cluster' \cup hurt'
      BY DEF Needs
    <3>1. cluster \cup hurt \subseteq cluster' \cup hurt'
      BY <1>13
    <3>2. <<"IngressRoute", t>> \in cluster \ hurt \/ o = <<"IngressRoute", t>>
      BY <1>13
    <3>3. /\ <<"Middleware", t>> \in cluster \cup hurt
          /\ t \notin Desks => <<"Service", t>> \in cluster \cup hurt
      BY <1>5, <1>9, <3>2 DEF Needs
    <3> QED BY <3>1, <3>3
  <2>4. PartsInv'
    BY <2>1, <2>3 DEF PartsInv
  <2> QED BY <1>2, <2>2, <2>4 DEF RouteInv
<1> QED BY <1>3, <1>11, <1>12, <1>13

LEMMA RoutePrunes == RouteInv /\ Prune => RouteInv'
<1> SUFFICES ASSUME RouteInv, Prune PROVE RouteInv'
  OBVIOUS
<1> DEFINE desired == ObjectsOf(ref[lock].seen)
<1>1. /\ lock # Nobody /\ k8s /\ lock \in Refreshers
      /\ UNCHANGED <<k8s, rows, stored, cache, file, ref, lock, admin>>
  BY DEF Prune, RouteInv, RouteTypes
<1>2. RateIsLive'
  BY <1>1 DEF RateIsLive
<1>3. PICK o \in Last(sync.prune) :
        /\ sync' = [sync EXCEPT !.prune = @ \ {o}]
        /\ \/ cluster' = cluster \ {o} /\ hurt' = hurt \ {o} /\ UNCHANGED events
           \/ Spend /\ hurt' = hurt \cup {o} /\ cluster' \in {cluster, cluster \ {o}}
  BY DEF Prune
<1>4. o \in sync.prune /\ sync.prune \subseteq Objects
  BY DEF Last, RouteInv, RouteTypes
<1>5. RouteTypes'
  BY <1>1, <1>3, <1>4 DEF RouteInv, RouteTypes
<1>6. Applying(desired) /\ Needs(cluster, hurt)
  BY <1>1 DEF RouteInv, PartsInv
<1>7. Needs(desired, {})
  BY <1>1, DesiredIsWhole DEF RouteInv, RouteTypes
<1>8. desired' = desired
  BY <1>1
<1> HIDE DEF desired
<1>9. sync'.apply = sync.apply /\ sync'.pruning = sync.pruning /\ sync'.prune = sync.prune \ {o}
  BY <1>3 DEF RouteInv, RouteTypes
<1>10. sync.pruning /\ o \notin desired /\ cluster \subseteq desired \cup sync.prune \cup hurt
  BY <1>4, <1>6 DEF Applying
<1>11. ASSUME NEW t \in Things, <<"IngressRoute", t>> \in cluster \ hurt,
              NEW kind \in {"Service", "Middleware"}, o = <<kind, t>>
       PROVE  <<kind, t>> \notin desired /\ <<"IngressRoute", t>> \in desired
  <2>1. <<"IngressRoute", t>> \notin sync.prune
    BY <1>4, <1>11, LastIsHigh
  <2> QED BY <1>10, <1>11, <2>1
<1>12. Needs(cluster, hurt)'
  <2> SUFFICES ASSUME NEW t \in Things, <<"IngressRoute", t>> \in cluster' \ hurt'
               PROVE  /\ <<"Middleware", t>> \in cluster' \cup hurt'
                      /\ t \notin Desks => <<"Service", t>> \in cluster' \cup hurt'
    BY DEF Needs
  <2>1. <<"IngressRoute", t>> \in cluster \ hurt
    BY <1>3
  <2>2. <<"Middleware", t>> \in cluster \cup hurt /\ (t \notin Desks => <<"Service", t>> \in cluster \cup hurt)
    BY <1>6, <2>1 DEF Needs
  <2>3. <<"Middleware", t>> # o
    BY <1>7, <1>11, <2>1 DEF Needs
  <2>4. t \notin Desks => <<"Service", t>> # o
    BY <1>7, <1>11, <2>1 DEF Needs
  <2> QED BY <1>3, <2>2, <2>3, <2>4
<1>13. Applying(desired)'
  <2>1. sync'.apply \subseteq desired /\ sync'.prune \cap desired = {}
    BY <1>6, <1>9 DEF Applying
  <2>2. desired \subseteq cluster' \cup sync'.apply \cup hurt'
    BY <1>3, <1>6, <1>9, <1>10 DEF Applying
  <2>3. cluster' \subseteq desired \cup sync'.prune \cup hurt'
    BY <1>3, <1>9, <1>10
  <2> QED BY <1>6, <1>8, <1>9, <1>10, <2>1, <2>2, <2>3 DEF Applying
<1>14. PartsInv'
  BY <1>1, <1>12, <1>13 DEF PartsInv, desired
<1> QED BY <1>2, <1>5, <1>14 DEF RouteInv

LEMMA RoutePasses ==
  ASSUME RouteInv
  PROVE  /\ \A r \in Refreshers : SyncBegins(r) => RouteInv'
         /\ PruneBegins \/ SyncEnds => RouteInv'
<1>1. ASSUME NEW r \in Refreshers, SyncBegins(r) PROVE RouteInv'
  <2> DEFINE desired == ObjectsOf(ref[r].seen)
  <2>1. /\ k8s /\ lock = Nobody /\ lock' = r
        /\ ref' = [ref EXCEPT ![r].pc = "sync"]
        /\ sync' = [NoSync EXCEPT !.apply = desired]
        /\ UNCHANGED <<k8s, rows, stored, cache, file, cluster, admin, unwritten, hurt, events>>
    BY <1>1 DEF ghosts, SyncBegins
  <2>2. desired \subseteq Objects
    BY DesiredIsWhole DEF RouteInv, RouteTypes
  <2>3. ref'[r].pc = "sync" /\ ref'[r].seen = ref[r].seen
    BY <2>1 DEF RouteInv, RouteTypes
  <2> HIDE DEF desired
  <2>4. RouteTypes'
    BY <2>1, <2>2, <2>3 DEF RouteInv, RouteTypes, NoSync
  <2>5. RateIsLive'
    BY <2>1 DEF RateIsLive
  <2>6. sync'.apply = desired /\ sync'.prune = {} /\ sync'.pruning = FALSE
    BY <2>1 DEF NoSync
  <2>7. ObjectsOf(ref'[lock'].seen) = desired
    BY <2>1, <2>3 DEF desired
  <2>8. PartsInv'
    BY <2>1, <2>6, <2>7, NameAssumption DEF RouteInv, PartsInv, Applying, Nobody
  <2> QED BY <2>4, <2>5, <2>8 DEF RouteInv
<1>2. CASE SyncEnds
  <2>1. lock # Nobody /\ SyncOver /\ UNCHANGED <<k8s, rows, stored, cache, file, cluster, unwritten, hurt>>
    BY <1>2 DEF ghosts, SyncEnds
  <2> QED BY <2>1, RouteSyncOver
<1>3. CASE PruneBegins
  <2>1. /\ lock # Nobody /\ lock \in Refreshers /\ sync.apply = {} /\ ~sync.pruning
        /\ UNCHANGED <<k8s, rows, stored, cache, file, cluster, admin, unwritten, hurt>>
    BY <1>3 DEF ghosts, PruneBegins, RouteInv, RouteTypes
  <2>2. CASE SyncOver
    BY <2>1, <2>2, RouteSyncOver
  <2>3. CASE /\ sync' = [sync EXCEPT !.pruning = TRUE,
                                     !.prune = cluster \ ObjectsOf(ref[lock].seen)]
             /\ UNCHANGED <<ref, lock>>
    <3> DEFINE desired == ObjectsOf(ref[lock].seen)
    <3>1. sync'.apply = {} /\ sync'.pruning = TRUE /\ sync'.prune = cluster \ desired
          /\ sync' \in [apply : SUBSET Objects, prune : SUBSET Objects, failed : BOOLEAN,
                        pruning : BOOLEAN]
      BY <2>1, <2>3 DEF RouteInv, RouteTypes
    <3>2. desired' = desired
      BY <2>3
    <3> HIDE DEF desired
    <3>3. RouteTypes'
      BY <2>1, <2>3, <3>1 DEF RouteInv, RouteTypes
    <3>4. RateIsLive'
      BY <2>1, <2>3 DEF RouteInv, RateIsLive
    <3>5. Needs(cluster, hurt) /\ Applying(desired)
      BY <2>1 DEF RouteInv, PartsInv, desired
    <3>6. Applying(desired) => Applying(desired)'
      BY <2>1, <3>1, <3>2 DEF Applying
    <3>7. PartsInv'
      BY <2>1, <2>3, <3>5, <3>6 DEF PartsInv, Needs, desired
    <3> QED BY <3>3, <3>4, <3>7 DEF RouteInv
  <2> QED BY <1>3, <2>2, <2>3 DEF PruneBegins
<1> QED BY <1>1, <1>2, <1>3

LEMMA RouteStep == RouteInv /\ [Next]_vars => RouteInv'
<1> SUFFICES ASSUME RouteInv, [Next]_vars PROVE RouteInv'
  OBVIOUS
<1>1. CASE PatchGoesOn
  <2>1. UNCHANGED <<k8s, rows, stored, cache, file, cluster, ref, lock, sync, unwritten, hurt>>
    BY <1>1 DEF ghosts, PatchGoesOn
  <2> QED BY <2>1, PartsKept DEF RouteInv, RouteTypes, RateIsLive
<1>2. CASE PatchEnds
  <2>1. UNCHANGED <<k8s, rows, cache, file, cluster, ref, lock, sync, unwritten, hurt>> /\ stored' = cache
    BY <1>2 DEF ghosts, PatchEnds
  <2> QED BY <2>1, PartsKept DEF RouteInv, RouteTypes, RateIsLive
<1>3. CASE UNCHANGED vars
  <2>1. UNCHANGED <<k8s, rows, stored, cache, file, cluster, ref, lock, sync, unwritten, hurt>>
    BY <1>3 DEF ghosts, vars
  <2> QED BY <2>1, PartsKept DEF RouteInv, RouteTypes, RateIsLive
<1> QED BY <1>1, <1>2, <1>3, RouteReads, RouteApplies, RoutePasses, RoutePrunes DEF Next

LEMMA RouteGives == RouteInv => DispatchIsRight /\ RoutesAreWhole
BY NoneMisrouted DEF DispatchIsRight, RoutesAreWhole, RouteInv, PartsInv, Needs,
                        RouteHasItsParts

-----------------------------------------------------------------------------
(* FirstSetup: whoever counted the users under the lock and found none is  *)
(* the only one that may insert, until it has left the lock.               *)

SetupInv ==
  /\ setup \in [SetupRequests ->
                  {"idle", "asked", "waiting", "locked", "inserting", "committed"}]
  /\ holder \in SetupRequests \cup {"none"}
  /\ \A r \in SetupRequests : setup[r] \in {"locked", "inserting", "committed"} <=> holder = r
  /\ \A r \in SetupRequests : setup[r] = "inserting" => admins = 0
  /\ admins \in {0, 1}

LEMMA SetupStart == Setup!Init => SetupInv
BY NamesAssumption DEF Setup!Init, Setup!None, SetupInv

LEMMA SetupStep == SetupInv /\ [Setup!Next]_(Setup!vars) => SetupInv'
<1> SUFFICES ASSUME SetupInv, [Setup!Next]_(Setup!vars) PROVE SetupInv'
  OBVIOUS
<1> USE NamesAssumption DEF SetupInv, Setup!Go, Setup!Free, Setup!None
<1>1. ASSUME NEW r \in SetupRequests, NEW code \in 1..MaxCodes, Setup!Ask(r, code)
      PROVE  SetupInv'
  BY <1>1 DEF Setup!Ask
<1>2. ASSUME NEW r \in SetupRequests, Setup!Verify(r) PROVE SetupInv'
  BY <1>2 DEF Setup!Verify
<1>3. ASSUME NEW r \in SetupRequests, Setup!Lock(r) PROVE SetupInv'
  BY <1>3 DEF Setup!Lock
<1>4. ASSUME NEW r \in SetupRequests, Setup!Recheck(r) PROVE SetupInv'
  BY <1>4 DEF Setup!Recheck
<1>5. ASSUME NEW r \in SetupRequests, Setup!Commit(r) PROVE SetupInv'
  BY <1>5 DEF Setup!Commit
<1>6. ASSUME NEW r \in SetupRequests, Setup!Fail(r) \/ Setup!Clear(r) PROVE SetupInv'
  BY <1>6 DEF Setup!Fail, Setup!Clear
<1>7. CASE Setup!Restart
  BY <1>7 DEF Setup!Restart
<1>8. CASE UNCHANGED Setup!vars
  BY <1>8 DEF Setup!vars
<1> QED BY <1>1, <1>2, <1>3, <1>4, <1>5, <1>6, <1>7, <1>8 DEF Setup!Next

-----------------------------------------------------------------------------
(* SingleUse: a claim is made and turned into a row under the one write    *)
(* lock, so a claimed token is still free and the names are as they were   *)
(* when the free one was looked for.                                       *)

Codes == Invites \cup Enrolls

SlipsTypes ==
  /\ slip \in [Codes -> {"none", "free", "used", "gone"}]
  /\ pc \in [Redeemers -> {"idle", "read", "claimed", "named"}]
  /\ token \in [Redeemers -> Codes \cup {"none"}]
  /\ name \in [Redeemers -> Nat]
  /\ writer \in Redeemers \cup {"none"}
  /\ made \subseteq Codes \X Nat /\ IsFiniteSet(made)
  /\ revoking \subseteq Codes

\* What is not redeemed made nothing, what is made something, and nothing twice.
MadeOf(t) == {m \in made : m[1] = t}
Redeemed ==
  /\ \A t \in Codes : slip[t] \in {"none", "free"} => MadeOf(t) = {}
  /\ \A t \in Codes : slip[t] = "used" => MadeOf(t) # {}
  /\ \A m, n \in made : m[1] = n[1] => m = n

Claiming(r) == pc[r] \in {"claimed", "named"}

SlipsInv ==
  /\ SlipsTypes /\ Redeemed
  /\ \A r \in Redeemers : pc[r] # "idle" => token[r] \in Codes
  /\ \A r \in Redeemers : Claiming(r) <=> writer = r
  /\ \A r \in Redeemers : Claiming(r) => slip[token[r]] = "free"
  /\ Slips!NameIsFree

\* Among more names than there are rows, one is not taken (pigeonhole).
LEMMA SomeNameIsFree ==
  ASSUME IsFiniteSet(made), NEW t
  PROVE  \E n \in 1..Cardinality(made) + 1 : n \notin Slips!TakenFor(t)
<1> DEFINE N == Cardinality(made)
<1>1. N \in Nat
  BY FS_CardinalityType
<1>2. IsFiniteSet(1..N + 1) /\ Cardinality(1..N + 1) = N + 1
  BY <1>1, FS_Interval
<1> SUFFICES ASSUME \A n \in 1..N + 1 : n \in Slips!TakenFor(t) PROVE FALSE
  OBVIOUS
<1>3. \A n \in 1..N + 1 : \E m \in made : m[2] = n
  BY DEF Slips!TakenFor
<1> DEFINE f == [n \in 1..N + 1 |-> CHOOSE m \in made : m[2] = n]
<1>4. f \in [1..N + 1 -> made] /\ \A n \in 1..N + 1 : f[n][2] = n
  BY <1>3
<1> HIDE DEF f
<1>5. \E x, y \in 1..N + 1 : x # y /\ f[x] = f[y]
  <2>1. N < N + 1
    BY <1>1
  <2> HIDE DEF N
  <2> QED BY <1>2, <1>4, <2>1, FS_PigeonHole DEF N
<1> QED BY <1>4, <1>5

LEMMA LeastNatural ==
  ASSUME NEW S \in SUBSET Nat, S # {}
  PROVE  \E n \in S : \A m \in S : n <= m
<1>1. PICK n \in S : \A m \in S : ~(<<m, n>> \in OpToRel(<, Nat))
  BY NatLessThanWellFounded, WFMin
<1>2. \A m \in S : <<m, n>> \in OpToRel(<, Nat) <=> m < n
  BY DEF OpToRel
<1>3. \A m \in S : ~(m < n)
  BY <1>1, <1>2, Zenon
<1> QED BY <1>3

\* SingleUse counts as FiniteSets does.
LEMMA SlipsCount == \A S : Slips!Cardinality(S) = Cardinality(S)
BY Zenon DEF Slips!Cardinality, Cardinality

\* unique_subdomain finds a name, and one that is not taken.
LEMMA FirstFreeIsFree ==
  ASSUME IsFiniteSet(made), NEW t
  PROVE  Slips!FirstFree(t) \in Nat /\ Slips!FirstFree(t) \notin Slips!TakenFor(t)
<1> DEFINE N == Cardinality(made)
           S == {n \in 1..N + 1 : n \notin Slips!TakenFor(t)}
<1>1. N \in Nat
  BY FS_CardinalityType
<1>2. S # {} /\ S \in SUBSET Nat
  BY <1>1, SomeNameIsFree
<1>3. PICK n \in S : \A m \in S : n <= m
  <2> HIDE DEF S
  <2> QED BY <1>2, LeastNatural
<1>4. n \in 1..N + 1 /\ n \notin Slips!TakenFor(t)
      /\ \A k \in 1..n - 1 : k \in Slips!TakenFor(t)
  BY <1>1, <1>3
<1>5. \E k \in 1..Cardinality(made) + 1 :
        k \notin Slips!TakenFor(t) /\ \A j \in 1..k - 1 : j \in Slips!TakenFor(t)
  BY <1>4
<1>6. Slips!FirstFree(t) \in 1..Cardinality(made) + 1
      /\ Slips!FirstFree(t) \notin Slips!TakenFor(t)
  BY <1>5, SlipsCount, Zenon DEF Slips!FirstFree
<1> QED BY <1>1, <1>6

LEMMA SlipsStart == Slips!Init => SlipsInv
BY NamesAssumption, FS_EmptySet
DEF Slips!Init, Slips!Tokens, Slips!None, SlipsInv, SlipsTypes, Redeemed, MadeOf, Codes,
    Claiming, Slips!NameIsFree

LEMMA SlipsStep == SlipsInv /\ [Slips!Next]_(Slips!vars) => SlipsInv'
<1> SUFFICES ASSUME SlipsInv, [Slips!Next]_(Slips!vars) PROVE SlipsInv'
  OBVIOUS
<1> USE NamesAssumption
    DEF SlipsInv, SlipsTypes, Claiming, Slips!NameIsFree, Slips!NameIsTaken, Slips!TakenFor,
        Slips!None
<1>1. Slips!Tokens = Codes
  BY DEF Slips!Tokens, Codes
<1>2. ASSUME NEW t \in Codes, Slips!Mint(t) PROVE SlipsInv'
  BY <1>2 DEF Slips!Mint, Redeemed, MadeOf
<1>3. ASSUME NEW t \in Codes, Slips!Expire(t) PROVE SlipsInv'
  BY <1>3 DEF Slips!Expire, Redeemed, MadeOf
<1>4. ASSUME NEW t \in Codes, Slips!RevokeCheck(t) PROVE SlipsInv'
  BY <1>4 DEF Slips!RevokeCheck, Redeemed, MadeOf
<1>5. ASSUME NEW t \in Codes, Slips!RevokeDelete(t) PROVE SlipsInv'
  BY <1>5 DEF Slips!RevokeDelete, Redeemed, MadeOf
<1>6. ASSUME NEW r \in Redeemers, NEW t \in Codes, Slips!Lookup(r, t) PROVE SlipsInv'
  BY <1>6 DEF Slips!Lookup, Redeemed, MadeOf
<1>7. ASSUME NEW r \in Redeemers, Slips!Claim(r) PROVE SlipsInv'
  BY <1>7 DEF Slips!Claim, Slips!Claimable, Redeemed, MadeOf
<1>8. ASSUME NEW r \in Redeemers, Slips!Name(r) PROVE SlipsInv'
  BY <1>8, FirstFreeIsFree DEF Slips!Name, Redeemed, MadeOf
<1>9. ASSUME NEW r \in Redeemers, Slips!Commit(r) PROVE SlipsInv'
  <2>1. CASE Slips!NameIsTaken(r)
    BY <1>9, <2>1 DEF Slips!Commit, Redeemed, MadeOf
  <2>2. CASE ~Slips!NameIsTaken(r)
    <3> DEFINE t == token[r]
    <3>1. /\ slip' = [slip EXCEPT ![t] = "used"] /\ made' = made \cup {<<t, name[r]>>}
          /\ pc[r] = "named" /\ pc' = [pc EXCEPT ![r] = "idle"] /\ writer' = "none"
          /\ UNCHANGED <<token, name, revoking>>
      BY <1>9, <2>2 DEF Slips!Commit
    <3>2. t \in Codes /\ name[r] \in Nat /\ slip[t] = "free" /\ MadeOf(t) = {}
      BY <3>1 DEF Redeemed
    <3>3. SlipsTypes'
      <4>1. IsFiniteSet(made')
        BY <3>1, FS_AddElement
      <4>2. made' \subseteq Codes \X Nat
        BY <3>1, <3>2
      <4> QED BY <3>1, <3>2, <4>1, <4>2
    <3>4. Redeemed'
      <4>1. \A m \in made : m[1] # t
        BY <3>2 DEF MadeOf
      <4>2. <<t, name[r]>>[1] = t
        OBVIOUS
      <4>3. \A m, n \in made' : m[1] = n[1] => m = n
        BY <3>1, <4>1, <4>2 DEF Redeemed
      <4>4. \A u \in Codes : MadeOf(u)' = IF u = t THEN {<<t, name[r]>>} ELSE MadeOf(u)
        BY <3>1, <4>1, <4>2 DEF MadeOf
      <4>5. \A u \in Codes : slip'[u] = IF u = t THEN "used" ELSE slip[u]
        BY <3>1, <3>2
      <4>6. \A u \in Codes : slip'[u] \in {"none", "free"} => MadeOf(u)' = {}
        BY <4>4, <4>5 DEF Redeemed
      <4>7. \A u \in Codes : slip'[u] = "used" => MadeOf(u)' # {}
        <5>1. {<<t, name[r]>>} # {}
          OBVIOUS
        <5>2. \A u \in Codes : slip[u] = "used" => MadeOf(u) # {}
          BY DEF Redeemed
        <5> SUFFICES ASSUME NEW u \in Codes, slip'[u] = "used" PROVE MadeOf(u)' # {}
          OBVIOUS
        <5>3. CASE u = t
          BY <4>4, <5>1, <5>3
        <5>4. CASE u # t
          BY <4>4, <4>5, <5>2, <5>4
        <5> QED BY <5>3, <5>4
      <4> QED BY <4>3, <4>6, <4>7 DEF Redeemed
    <3>5. \A s \in Redeemers : ~Claiming(s)'
      BY <3>1
    <3> QED BY <3>1, <3>3, <3>4, <3>5
  <2> QED BY <2>1, <2>2
<1>10. ASSUME NEW r \in Redeemers, Slips!Rollback(r) PROVE SlipsInv'
  BY <1>10 DEF Slips!Rollback, Redeemed, MadeOf
<1>11. CASE UNCHANGED Slips!vars
  BY <1>11 DEF Slips!vars, Redeemed, MadeOf
<1> QED
  BY <1>1, <1>2, <1>3, <1>4, <1>5, <1>6, <1>7, <1>8, <1>9, <1>10, <1>11 DEF Slips!Next

LEMMA CodesGive == SlipsInv /\ SetupInv => MadeOnce
<1> SUFFICES ASSUME SlipsInv, SetupInv PROVE MadeOnce
  OBVIOUS
<1>1. ASSUME NEW t \in Codes PROVE Cardinality(MadeOf(t)) <= 1
  <2>1. CASE MadeOf(t) = {}
    BY <2>1, FS_EmptySet
  <2>2. ASSUME NEW m \in MadeOf(t) PROVE Cardinality(MadeOf(t)) <= 1
    <3>1. MadeOf(t) = {m}
      BY DEF MadeOf, SlipsInv, Redeemed
    <3>2. Cardinality({m}) = 1
      BY FS_Singleton
    <3> QED BY <3>1, <3>2
  <2> QED BY <2>1, <2>2
<1>2. Slips!OneEach
  <2>1. ASSUME NEW t \in Codes, slip[t] = "used" PROVE \E m \in made : m[1] = t
    BY <2>1 DEF SlipsInv, Redeemed, MadeOf
  <2>2. \A t \in Codes : Cardinality({m \in made : m[1] = t}) <= 1
    BY <1>1 DEF MadeOf
  <2>3. Slips!Tokens = Codes
    BY DEF Slips!Tokens, Codes
  <2> QED BY <2>1, <2>2, <2>3, SlipsCount DEF Slips!OneEach
<1>3. Setup!OneAdmin
  BY DEF SetupInv, Setup!OneAdmin
<1> QED BY <1>2, <1>3 DEF MadeOnce, Slips!RedeemedOnce, SlipsInv

-----------------------------------------------------------------------------
(* BanCache: a snapshot, or a reading of the rows under way, that is       *)
(* younger than a committed ban has the ban.                               *)

BanTypes ==
  /\ row \in [BanAddresses -> [left : Nat, age : 0..CacheTtl]]
  /\ snapshot \in [bans : [BanAddresses -> Nat], age : 0..CacheTtl]
  /\ reading \in [Checks -> {Bans!Idle} \cup [bans : [BanAddresses -> Nat], age : 0..CacheTtl]]

\* s was read after the ban of a was committed, and knows it.
Knows(s, a) == row[a].left > 0 /\ s.age < row[a].age => s.bans[a] >= row[a].left

BansInv ==
  /\ BanTypes
  /\ \A a \in BanAddresses : Knows(snapshot, a)
  /\ \A c \in Checks, a \in BanAddresses : reading[c] # Bans!Idle => Knows(reading[c], a)

LEMMA BansStart == Bans!Init => BansInv
BY BanTimesAssumption DEF Bans!Init, BansInv, BanTypes, Knows

LEMMA BansStep == BansInv /\ [Bans!Next]_(Bans!banVars) => BansInv'
<1> SUFFICES ASSUME BansInv, [Bans!Next]_(Bans!banVars) PROVE BansInv'
  OBVIOUS
<1> USE BanTimesAssumption DEF BansInv, BanTypes, Knows
<1>1. CASE Bans!Tick
  <2> DEFINE Older(s) == [bans |-> Bans!Pass(s.bans), age |-> Bans!More(s.age, CacheTtl)]
             Snapshots == [bans : [BanAddresses -> Nat], age : 0..CacheTtl]
  <2>1. row' \in [BanAddresses -> [left : Nat, age : 0..CacheTtl]]
    BY <1>1 DEF Bans!Tick, Bans!Less, Bans!More
  <2>2. ASSUME NEW s \in Snapshots
        PROVE  /\ Older(s) \in Snapshots
               /\ Older(s).age = Bans!More(s.age, CacheTtl)
               /\ \A a \in BanAddresses : Older(s).bans[a] = Bans!Less(s.bans[a])
    BY DEF Bans!Pass, Bans!Less, Bans!More
  <2>3. ASSUME NEW a \in BanAddresses
        PROVE  row'[a].left = Bans!Less(row[a].left)
               /\ row'[a].age = Bans!More(row[a].age, CacheTtl)
    BY <1>1 DEF Bans!Tick
  <2>4. ASSUME NEW s \in Snapshots, NEW a \in BanAddresses, Knows(s, a)
        PROVE  row'[a].left > 0 /\ Older(s).age < row'[a].age =>
                 Older(s).bans[a] >= row'[a].left
    BY <2>2, <2>3, <2>4 DEF Bans!Less, Bans!More
  <2>5. snapshot' = Older(snapshot)
    BY <1>1 DEF Bans!Tick
  <2>6. \A c \in Checks : reading'[c] = IF reading[c] = Bans!Idle THEN Bans!Idle
                                        ELSE Older(reading[c])
    BY <1>1 DEF Bans!Tick
  <2>7. reading' \in [Checks -> {Bans!Idle} \cup Snapshots]
    <3>1. DOMAIN reading' = Checks /\ reading' = [c \in Checks |-> reading'[c]]
      BY <1>1 DEF Bans!Tick
    <3> QED BY <2>2, <2>6, <3>1
  <2> HIDE DEF Older
  <2> QED BY <2>1, <2>2, <2>4, <2>5, <2>6, <2>7
<1>2. ASSUME NEW a \in BanAddresses, Bans!Invalidate(a) PROVE BansInv'
  BY <1>2 DEF Bans!Invalidate
<1>3. ASSUME NEW a \in BanAddresses, Bans!Commit(a) PROVE BansInv'
  BY <1>3 DEF Bans!Commit
<1>4. ASSUME NEW a \in BanAddresses, NEW resolved \in BOOLEAN, Bans!Failure(a, resolved)
      PROVE  BansInv'
  BY <1>4 DEF Bans!Failure
<1>5. ASSUME NEW c \in Checks, Bans!CheckReads(c) PROVE BansInv'
  BY <1>5 DEF Bans!CheckReads
<1>6. ASSUME NEW c \in Checks, Bans!CheckLoads(c) PROVE BansInv'
  BY <1>6 DEF Bans!CheckLoads, Bans!Loaded
<1>7. CASE UNCHANGED Bans!banVars
  BY <1>7 DEF Bans!banVars
<1> QED BY <1>1, <1>2, <1>3, <1>4, <1>5, <1>6, <1>7 DEF Bans!Next

LEMMA BansGive == BansInv => BanIsKnown
BY BanTimesAssumption
DEF BansInv, BanTypes, Knows, BanIsKnown, Bans!BanIsKnown, Bans!KnownBanned, Bans!Stale

-----------------------------------------------------------------------------
(* Federation: a claim of the invite is kept with the write lock until the *)
(* account is committed; and while an account's provider is being taken    *)
(* away it has another one, or a second removal is under way as well.      *)

AccountTypes ==
  account \in [Sso!Accounts -> [state : {"none", "live", "gone"}, open : BOOLEAN,
                                password : BOOLEAN, name : Identities \cup {Sso!Local, "chosen"}]]

CallRecords ==
  [at : {"idle", "resolve", "match", "link", "invite", "claim", "name", "insert", "accept",
         "unlink"},
   id : Identities \cup {Sso!Local}, verified : BOOLEAN, who : Sso!Accounts \cup {0},
   claimed : BOOLEAN, name : Identities \cup {Sso!Local, "chosen"}]

CallTypes == call \in [Callers -> CallRecords]

InviteInv ==
  /\ \/ invite.state = "free" /\ invite.made = {}
     \/ invite.state = "used" /\ \E n \in Sso!Accounts : invite.made = {n}
  /\ \A c \in Callers : call[c].claimed => claimer = c /\ invite.state = "free"

\* Nobody else is unlinking n, and another provider stays.
Unlinking(c, n) == call[c].at = "unlink" /\ call[c].who = n
LoginInv ==
  /\ \A c \in Callers : call[c].at = "unlink" =>
       call[c].who \in Sso!Accounts /\ account[call[c].who].state # "none"
  /\ \A n \in Sso!Accounts \ raced : account[n].state = "live" /\ ~account[n].password =>
       /\ Sso!RowsOf(n) # {}
       /\ \A c, d \in Callers : Unlinking(c, n) /\ Unlinking(d, n) => c = d
       /\ \A c \in Callers : Unlinking(c, n) => Sso!RowsOf(n) # {<<call[c].id, n>>}

SsoInv == AccountTypes /\ CallTypes /\ InviteInv /\ LoginInv

LEMMA SsoStart == Sso!Init => SsoInv
<1> SUFFICES ASSUME Sso!Init PROVE SsoInv
  OBVIOUS
<1> USE DEF Sso!Init, Sso!NoCall, Sso!NoAccount, Sso!Nobody
<1>1. AccountTypes
  BY DEF AccountTypes
<1>2. CallTypes
  BY DEF CallTypes, CallRecords
<1>3. \A c \in Callers : call[c].claimed = FALSE /\ call[c].at = "idle"
  OBVIOUS
<1>4. \A n \in Sso!Accounts : account[n].state = "none"
  OBVIOUS
<1>5. InviteInv
  <2>1. invite.state = "free" /\ invite.made = {}
    OBVIOUS
  <2>2. \A c \in Callers : ~call[c].claimed
    BY <1>3, Zenon
  <2>3. ASSUME NEW c \in Callers, call[c].claimed
        PROVE  claimer = c /\ invite.state = "free"
    BY <2>2, <2>3
  <2> QED BY <2>1, <2>3 DEF InviteInv
<1>6. LoginInv
  BY <1>3, <1>4 DEF LoginInv, Unlinking
<1> QED BY <1>1, <1>2, <1>5, <1>6 DEF SsoInv

\* A step of caller c changes the call of no other.
OnlyOf(c) == \A d \in Callers : d # c => call'[d] = call[d]

\* Rows of links come, none go, and c is not one that begins to unlink.
LEMMA LoginKept ==
  ASSUME SsoInv, NEW c \in Callers, OnlyOf(c), call'[c].at # "unlink",
         UNCHANGED <<account, raced>>, links \subseteq links'
  PROVE  LoginInv'
<1>1. \A d \in Callers : call'[d].at = "unlink" => call'[d] = call[d]
  BY DEF OnlyOf
<1>2. \A d \in Callers, n \in Sso!Accounts : Unlinking(d, n)' => Unlinking(d, n)
  BY <1>1 DEF Unlinking
<1>3. \A n \in Sso!Accounts : Sso!RowsOf(n) \subseteq Sso!RowsOf(n)'
  BY DEF Sso!RowsOf
<1>4. ASSUME NEW n \in Sso!Accounts, NEW x, Sso!RowsOf(n) # {}, Sso!RowsOf(n) # {x}
      PROVE  Sso!RowsOf(n)' # {} /\ Sso!RowsOf(n)' # {x}
  BY <1>3, <1>4
<1>5. \A d \in Callers : call'[d].at = "unlink" =>
        call'[d].who \in Sso!Accounts /\ account'[call'[d].who].state # "none"
  BY <1>1 DEF SsoInv, LoginInv
<1>6. ASSUME NEW n \in Sso!Accounts \ raced, account[n].state = "live", ~account[n].password
      PROVE  /\ Sso!RowsOf(n)' # {}
             /\ \A d, e \in Callers : Unlinking(d, n)' /\ Unlinking(e, n)' => d = e
             /\ \A d \in Callers : Unlinking(d, n)' => Sso!RowsOf(n)' # {<<call'[d].id, n>>}
  <2>1. Sso!RowsOf(n)' # {}
    BY <1>3, <1>6 DEF SsoInv, LoginInv
  <2>2. \A d, e \in Callers : Unlinking(d, n)' /\ Unlinking(e, n)' => d = e
    BY <1>2, <1>6 DEF SsoInv, LoginInv
  <2>3. ASSUME NEW d \in Callers, Unlinking(d, n)'
        PROVE  Sso!RowsOf(n)' # {<<call'[d].id, n>>}
    <3>1. Unlinking(d, n) /\ call'[d].id = call[d].id
      BY <1>1, <1>2, <2>3 DEF Unlinking
    <3>2. Sso!RowsOf(n) # {} /\ Sso!RowsOf(n) # {<<call[d].id, n>>}
      BY <1>6, <3>1 DEF SsoInv, LoginInv
    <3> QED BY <1>4, <3>1, <3>2
  <2> QED BY <2>1, <2>2, <2>3
<1> QED BY <1>5, <1>6 DEF LoginInv

\* The same step neither claims nor makes anything: the claims of the others stand.
LEMMA InviteKept ==
  ASSUME SsoInv, NEW c \in Callers, OnlyOf(c), ~call'[c].claimed, UNCHANGED invite,
         claimer' = claimer \/ claimer \in {"none", c}
  PROVE  InviteInv'
<1>1. ASSUME NEW d \in Callers, call'[d].claimed
      PROVE  claimer' = d /\ invite.state = "free"
  <2>1. d # c
    BY <1>1
  <2>2. call[d].claimed
    BY <1>1, <2>1 DEF OnlyOf
  <2>3. claimer = d /\ invite.state = "free"
    BY <2>2 DEF SsoInv, InviteInv
  <2>4. d # "none"
    BY NamesAssumption
  <2> QED BY <2>1, <2>3, <2>4
<1> QED BY <1>1 DEF SsoInv, InviteInv

\* One call is set to another.
LEMMA CallSet ==
  ASSUME CallTypes, NEW c \in Callers, NEW r, call' = [call EXCEPT ![c] = r]
  PROVE  call'[c] = r /\ OnlyOf(c)
BY DEF CallTypes, OnlyOf

LEMMA CallTyped ==
  ASSUME CallTypes, NEW c \in Callers, NEW r \in CallRecords, call' = [call EXCEPT ![c] = r]
  PROVE  CallTypes'
BY DEF CallTypes

\* A call that ends.
LEMMA SsoRefused ==
  ASSUME SsoInv, NEW c \in Callers, Sso!Refused(c)
  PROVE  /\ CallTypes' /\ OnlyOf(c) /\ call'[c].at = "idle" /\ ~call'[c].claimed
         /\ claimer' = claimer \/ claimer \in {"none", c}
<1>1. call' = [call EXCEPT ![c] = Sso!NoCall]
  BY DEF Sso!Refused
<1>2. Sso!NoCall \in CallRecords
  BY DEF Sso!NoCall, CallRecords, Sso!Nobody
<1>3. CallTypes'
  BY <1>1, <1>2, CallTyped DEF SsoInv
<1>4. call'[c] = Sso!NoCall /\ OnlyOf(c)
  BY <1>1, CallSet, Zenon DEF SsoInv
<1>5. Sso!NoCall.at = "idle" /\ Sso!NoCall.claimed = FALSE
  BY DEF Sso!NoCall
<1>6. claimer' = claimer \/ claimer \in {"none", c}
  BY DEF Sso!Refused
<1> QED BY <1>3, <1>4, <1>5, <1>6, Zenon

\* A call that goes on, without a claim of its own or with the one it has.
LEMMA ClaimKept ==
  ASSUME SsoInv, NEW c \in Callers, OnlyOf(c), call'[c].claimed = call[c].claimed,
         UNCHANGED <<invite, claimer>>
  PROVE  InviteInv'
<1>1. \A d \in Callers : call'[d].claimed => call[d].claimed
  BY DEF OnlyOf
<1> QED BY <1>1 DEF SsoInv, InviteInv

\* Only the stage of a call changes.
LEMMA SsoGoes ==
  ASSUME SsoInv, NEW c \in Callers, NEW at, Sso!Goes(c, at),
         at \in {"match", "invite", "name", "claim"}
  PROVE  CallTypes' /\ OnlyOf(c) /\ call'[c].at # "unlink" /\ call'[c].claimed = call[c].claimed
<1>1. call' = [call EXCEPT ![c] = [call[c] EXCEPT !.at = at]]
  BY DEF Sso!Goes, SsoInv, CallTypes
<1>2. [call[c] EXCEPT !.at = at] \in CallRecords
  BY DEF SsoInv, CallTypes, CallRecords
<1>3. CallTypes'
  BY <1>1, <1>2, CallTyped DEF SsoInv
<1>4. call'[c] = [call[c] EXCEPT !.at = at] /\ OnlyOf(c)
  BY <1>1, CallSet, Zenon DEF SsoInv
<1>5. call[c] \in CallRecords
  BY DEF SsoInv, CallTypes
<1>6. [call[c] EXCEPT !.at = at].at = at /\ [call[c] EXCEPT !.at = at].claimed = call[c].claimed
  BY <1>5 DEF CallRecords
<1> QED BY <1>3, <1>4, <1>6

\* A request that reads, or is refused, keeps the invariant.
LEMMA SsoReads ==
  ASSUME SsoInv, NEW c \in Callers, Sso!Rest,
         \/ Sso!Refused(c)
         \/ /\ UNCHANGED claimer
            /\ Sso!Goes(c, "match") \/ Sso!Goes(c, "invite") \/ Sso!Goes(c, "name")
               \/ Sso!Goes(c, "claim")
  PROVE  SsoInv'
<1>1. AccountTypes'
  BY DEF SsoInv, AccountTypes, Sso!Rest
<1>2. CASE Sso!Refused(c)
  <2>1. /\ CallTypes' /\ OnlyOf(c) /\ call'[c].at = "idle" /\ ~call'[c].claimed
        /\ claimer' = claimer \/ claimer \in {"none", c}
    BY <1>2, SsoRefused
  <2>2. InviteInv'
    BY <2>1, InviteKept DEF Sso!Rest
  <2>3. LoginInv'
    BY <2>1, LoginKept DEF Sso!Rest
  <2> QED BY <1>1, <2>1, <2>2, <2>3 DEF SsoInv
<1>3. ASSUME NEW at \in {"match", "invite", "name", "claim"}, Sso!Goes(c, at), UNCHANGED claimer
      PROVE  SsoInv'
  <2>1. CallTypes' /\ OnlyOf(c) /\ call'[c].at # "unlink" /\ call'[c].claimed = call[c].claimed
    BY <1>3, SsoGoes
  <2>2. InviteInv'
    BY <1>3, <2>1, ClaimKept DEF Sso!Rest
  <2>3. LoginInv'
    BY <2>1, LoginKept DEF Sso!Rest
  <2> QED BY <1>1, <2>1, <2>2, <2>3 DEF SsoInv
<1> QED BY <1>2, <1>3

\* A request that begins, or goes on with what it found.
LEMMA SsoGoesOn ==
  ASSUME SsoInv, NEW c \in Callers, NEW r \in CallRecords, Sso!Rest, UNCHANGED claimer,
         call' = [call EXCEPT ![c] = r], r.at # "unlink",
         r.claimed = FALSE \/ r.claimed = call[c].claimed
  PROVE  SsoInv'
<1>1. AccountTypes'
  BY DEF SsoInv, AccountTypes, Sso!Rest
<1>2. CallTypes'
  BY CallTyped DEF SsoInv
<1>3. call'[c] = r /\ OnlyOf(c)
  BY CallSet, Zenon DEF SsoInv
<1>4. InviteInv'
  <2>1. CASE r.claimed = FALSE
    <3>1. ~call'[c].claimed
      BY <1>3, <2>1
    <3> QED BY <1>3, <3>1, InviteKept DEF Sso!Rest
  <2>2. CASE r.claimed = call[c].claimed
    BY <1>3, <2>2, ClaimKept DEF Sso!Rest
  <2> QED BY <2>1, <2>2
<1>5. LoginInv'
  BY <1>3, LoginKept DEF Sso!Rest
<1> QED BY <1>1, <1>2, <1>4, <1>5 DEF SsoInv

\* The steps that read.
LEMMA SsoReading ==
  ASSUME SsoInv, NEW c \in Callers
  PROVE  /\ \A answer \in Sso!Answers : Sso!Callback(c, answer) => SsoInv'
         /\ Sso!Resolve(c) \/ Sso!Match(c) \/ Sso!ChooseName(c) \/ Sso!Accept(c) => SsoInv'
         /\ \A signup \in BOOLEAN : Sso!LookInvite(c, signup) => SsoInv'
         /\ \A n \in Sso!Accounts, i \in Identities : Sso!LinkOwn(c, i, n) => SsoInv'
<1>c. call[c] \in CallRecords
  BY DEF SsoInv, CallTypes
<1>1. ASSUME NEW answer \in Sso!Answers, Sso!Callback(c, answer) PROVE SsoInv'
  <2> DEFINE r == [Sso!NoCall EXCEPT !.at = "resolve", !.id = answer.id,
                                     !.verified = answer.verified]
  <2>1. r \in CallRecords
    BY DEF Sso!Answers, Sso!NoCall, CallRecords, Sso!Nobody
  <2>2. r.at = "resolve" /\ r.claimed = FALSE
    BY DEF Sso!NoCall
  <2>3. call' = [call EXCEPT ![c] = r] /\ UNCHANGED claimer /\ Sso!Rest
    BY <1>1 DEF Sso!Callback
  <2> HIDE DEF r
  <2>4. r.at # "unlink"
    BY <2>2
  <2> QED BY <2>1, <2>2, <2>3, <2>4, SsoGoesOn
<1>2. CASE Sso!Resolve(c)
  BY <1>2, SsoReads DEF Sso!Resolve
<1>3. CASE Sso!Match(c)
  <2>1. CASE Sso!Goes(c, "invite") /\ UNCHANGED claimer
    BY <1>3, <2>1, SsoReads DEF Sso!Match
  <2>2. CASE Sso!Refused(c)
    BY <1>3, <2>2, SsoReads DEF Sso!Match
  <2>3. ASSUME NEW n \in Sso!Accounts, UNCHANGED claimer,
               call' = [call EXCEPT ![c].at = "link", ![c].who = n]
        PROVE  SsoInv'
    <3> DEFINE r == [call[c] EXCEPT !.at = "link", !.who = n]
    <3>1. r \in CallRecords
      BY <1>c DEF CallRecords
    <3>2. r.at = "link" /\ r.claimed = call[c].claimed
      BY <1>c DEF CallRecords
    <3>3. call' = [call EXCEPT ![c] = r]
      BY <2>3 DEF SsoInv, CallTypes
    <3>4. Sso!Rest
      BY <1>3 DEF Sso!Match
    <3> HIDE DEF r
    <3>5. r.at # "unlink"
      BY <3>2
    <3> QED BY <2>3, <3>1, <3>2, <3>3, <3>4, <3>5, SsoGoesOn
  <2> QED BY <1>3, <2>1, <2>2, <2>3 DEF Sso!Match, Sso!Matches
<1>4. CASE Sso!ChooseName(c)
  <2> DEFINE r == [call[c] EXCEPT !.at = "insert",
                    !.name = IF Sso!Local \in Sso!Names THEN call[c].id ELSE Sso!Local]
  <2>1. r \in CallRecords
    BY <1>c DEF CallRecords
  <2>2. r.at = "insert" /\ r.claimed = call[c].claimed
    BY <1>c DEF CallRecords
  <2>3. call' = [call EXCEPT ![c] = r] /\ UNCHANGED claimer /\ Sso!Rest
    BY <1>4 DEF Sso!ChooseName, SsoInv, CallTypes
  <2> HIDE DEF r
  <2>4. r.at # "unlink"
    BY <2>2
  <2> QED BY <2>1, <2>2, <2>3, <2>4, SsoGoesOn
<1>5. CASE Sso!Accept(c)
  <2> DEFINE r == [Sso!NoCall EXCEPT !.at = "accept", !.name = "chosen"]
  <2>1. r \in CallRecords
    BY DEF Sso!NoCall, CallRecords, Sso!Nobody
  <2>2. r.at = "accept" /\ r.claimed = FALSE
    BY DEF Sso!NoCall
  <2>3. call' = [call EXCEPT ![c] = r] /\ UNCHANGED claimer /\ Sso!Rest
    BY <1>5 DEF Sso!Accept
  <2> HIDE DEF r
  <2>4. r.at # "unlink"
    BY <2>2
  <2> QED BY <2>1, <2>2, <2>3, <2>4, SsoGoesOn
<1>6. ASSUME NEW signup \in BOOLEAN, Sso!LookInvite(c, signup) PROVE SsoInv'
  <2>1. Sso!Rest
    BY <1>6 DEF Sso!LookInvite
  <2>2. \/ Sso!Refused(c)
        \/ UNCHANGED claimer /\ (Sso!Goes(c, "name") \/ Sso!Goes(c, "claim"))
    BY <1>6, Zenon DEF Sso!LookInvite
  <2> QED BY <2>1, <2>2, SsoReads
<1>7. ASSUME NEW n \in Sso!Accounts, NEW i \in Identities, Sso!LinkOwn(c, i, n) PROVE SsoInv'
  <2> DEFINE r == [Sso!NoCall EXCEPT !.at = "link", !.id = i, !.who = n]
  <2>1. r \in CallRecords
    BY DEF Sso!NoCall, CallRecords, Sso!Nobody
  <2>2. r.at = "link" /\ r.claimed = FALSE
    BY DEF Sso!NoCall
  <2>3. call' = [call EXCEPT ![c] = r] /\ UNCHANGED claimer /\ Sso!Rest
    BY <1>7 DEF Sso!LinkOwn
  <2> HIDE DEF r
  <2>4. r.at # "unlink"
    BY <2>2
  <2> QED BY <2>1, <2>2, <2>3, <2>4, SsoGoesOn
<1> QED BY <1>1, <1>2, <1>3, <1>4, <1>5, <1>6, <1>7

\* FiniteSets as the instance sees it
LEMMA SsoCount == \A S : Sso!Cardinality(S) = Cardinality(S)
BY Zenon DEF Sso!Cardinality, Cardinality

LEMMA MoreThanOne == ASSUME NEW S, Sso!Cardinality(S) > 1 PROVE S # {} /\ \A x : S # {x}
<1>1. Sso!Cardinality({}) = 0
  BY FS_EmptySet, SsoCount
<1>2. ASSUME NEW x PROVE Sso!Cardinality({x}) = 1
  BY FS_Singleton, SsoCount
<1>3. CASE S = {}
  BY <1>1, <1>3
<1>4. ASSUME NEW x, S = {x} PROVE FALSE
  BY <1>2, <1>4
<1> QED BY <1>3, <1>4

\* An account is made where none was: it is nobody's that unlinks.
LEMMA LoginMade ==
  ASSUME SsoInv, NEW c \in Callers, Sso!Refused(c), UNCHANGED raced, links \subseteq links',
         NEW n \in Sso!Accounts, account[n].state = "none", NEW r,
         account' = [account EXCEPT ![n] = r], r.state = "live",
         r.password \/ Sso!RowsOf(n)' # {}
  PROVE  LoginInv'
<1>1. OnlyOf(c) /\ call'[c].at = "idle"
  BY SsoRefused
<1>2. \A d \in Callers : call'[d].at = "unlink" => call'[d] = call[d] /\ call[d].who # n
  BY <1>1 DEF OnlyOf, SsoInv, LoginInv
<1>3. account'[n] = r /\ \A m \in Sso!Accounts : m # n => account'[m] = account[m]
  BY DEF SsoInv, AccountTypes
<1>4. ASSUME NEW d \in Callers, call'[d].at = "unlink"
      PROVE  call'[d].who \in Sso!Accounts /\ account'[call'[d].who].state # "none"
  <2>1. call[d].who \in Sso!Accounts /\ account[call[d].who].state # "none"
    BY <1>2, <1>4 DEF SsoInv, LoginInv
  <2> QED BY <1>2, <1>3, <1>4, <2>1
<1>5. \A d \in Callers, m \in Sso!Accounts : Unlinking(d, m)' => Unlinking(d, m) /\ m # n
  BY <1>2 DEF Unlinking
<1>6. \A m \in Sso!Accounts : Sso!RowsOf(m) \subseteq Sso!RowsOf(m)'
  BY DEF Sso!RowsOf
<1>7. ASSUME NEW m \in Sso!Accounts \ raced, account'[m].state = "live", ~account'[m].password
      PROVE  /\ Sso!RowsOf(m)' # {}
             /\ \A d, e \in Callers : Unlinking(d, m)' /\ Unlinking(e, m)' => d = e
             /\ \A d \in Callers : Unlinking(d, m)' => Sso!RowsOf(m)' # {<<call'[d].id, m>>}
  <2>1. CASE m = n
    BY <1>3, <1>5, <1>7, <2>1
  <2>2. CASE m # n
    <3>1. account[m].state = "live" /\ ~account[m].password
      BY <1>3, <1>7, <2>2
    <3>2. Sso!RowsOf(m)' # {}
      BY <1>6, <3>1 DEF SsoInv, LoginInv
    <3>3. \A d, e \in Callers : Unlinking(d, m)' /\ Unlinking(e, m)' => d = e
      BY <1>5, <3>1 DEF SsoInv, LoginInv
    <3>4. ASSUME NEW d \in Callers, Unlinking(d, m)'
          PROVE  Sso!RowsOf(m)' # {<<call'[d].id, m>>}
      <4>1. Unlinking(d, m) /\ call'[d].id = call[d].id
        BY <1>2, <1>5, <3>4 DEF Unlinking
      <4>2. Sso!RowsOf(m) # {} /\ Sso!RowsOf(m) # {<<call[d].id, m>>}
        BY <3>1, <4>1 DEF SsoInv, LoginInv
      <4> QED BY <1>6, <4>1, <4>2
    <3> QED BY <3>2, <3>3, <3>4
  <2> QED BY <2>1, <2>2
<1> QED BY <1>4, <1>7 DEF LoginInv

\* The steps that make an account.
LEMMA SsoMaking ==
  ASSUME SsoInv, NEW c \in Callers
  PROVE  Sso!Provision(c) \/ Sso!AcceptCommit(c) => SsoInv'
<1>c. call[c] \in CallRecords
  BY DEF SsoInv, CallTypes
<1>1. CASE Sso!Provision(c)
  <2>1. /\ CallTypes' /\ OnlyOf(c) /\ call'[c].at = "idle" /\ ~call'[c].claimed
        /\ claimer' = claimer \/ claimer \in {"none", c}
    BY <1>1, SsoRefused DEF Sso!Provision
  <2>2. CASE UNCHANGED <<account, links, invite>>
    <3>1. InviteInv'
      BY <2>1, <2>2, InviteKept
    <3>2. LoginInv'
      BY <1>1, <2>1, <2>2, LoginKept DEF Sso!Provision
    <3> QED BY <2>1, <2>2, <3>1, <3>2 DEF SsoInv, AccountTypes
  <2>3. ASSUME NEW n \in Sso!Accounts, NEW open \in BOOLEAN, Sso!LinkOf(call[c].id) = {},
               Sso!Fresh(n), Sso!Made(n, c, open, FALSE), Sso!Linked(call[c].id, n)
        PROVE  SsoInv'
    <3> DEFINE r == [state |-> "live", open |-> open, password |-> FALSE, name |-> call[c].name]
    <3>1. account' = [account EXCEPT ![n] = r] /\ account[n].state = "none"
      BY <2>3 DEF Sso!Made, Sso!Fresh
    <3>2. r \in [state : {"none", "live", "gone"}, open : BOOLEAN, password : BOOLEAN,
                 name : Identities \cup {Sso!Local, "chosen"}]
      BY <1>c DEF CallRecords
    <3>3. r.state = "live"
      OBVIOUS
    <3>4. links' = links \cup {<<call[c].id, n>>}
      BY <2>3 DEF Sso!Linked
    <3> HIDE DEF r
    <3>5. AccountTypes'
      BY <3>1, <3>2 DEF SsoInv, AccountTypes
    <3>6. <<call[c].id, n>> \in Sso!RowsOf(n)'
      BY <3>4 DEF Sso!RowsOf
    <3>7. LoginInv'
      BY <1>1, <3>1, <3>3, <3>4, <3>6, LoginMade DEF Sso!Provision
    <3>8. InviteInv'
      <4>1. CASE call[c].claimed
        <5>1. invite.state = "free" /\ invite.made = {} /\ claimer = c
          BY <4>1 DEF SsoInv, InviteInv
        <5>2. invite' = [state |-> "used", made |-> {n}]
          BY <2>3, <4>1, <5>1 DEF Sso!Made
        <5>3. \A d \in Callers : ~call'[d].claimed
          BY <2>1, <5>1 DEF OnlyOf, SsoInv, InviteInv
        <5> QED BY <5>2, <5>3 DEF InviteInv
      <4>2. CASE ~call[c].claimed
        BY <2>1, <2>3, <4>2, InviteKept DEF Sso!Made
      <4> QED BY <4>1, <4>2
    <3> QED BY <2>1, <3>5, <3>7, <3>8 DEF SsoInv
  <2> QED BY <1>1, <2>2, <2>3 DEF Sso!Provision
<1>2. CASE Sso!AcceptCommit(c)
  <2>1. /\ CallTypes' /\ OnlyOf(c) /\ call'[c].at = "idle" /\ ~call'[c].claimed
        /\ claimer' = claimer \/ claimer \in {"none", c}
    BY <1>2, SsoRefused DEF Sso!AcceptCommit
  <2>2. CASE UNCHANGED <<account, invite>>
    <3>1. InviteInv'
      BY <2>1, <2>2, InviteKept
    <3>2. LoginInv'
      BY <1>2, <2>1, <2>2, LoginKept DEF Sso!AcceptCommit
    <3> QED BY <2>1, <2>2, <3>1, <3>2 DEF SsoInv, AccountTypes
  <2>3. ASSUME NEW n \in Sso!Accounts, Sso!Fresh(n), invite.state = "free",
               account' = [account EXCEPT ![n] = [Sso!NoAccount EXCEPT
                             !.state = "live", !.password = TRUE, !.name = "chosen"]],
               invite' = [state |-> "used", made |-> invite.made \cup {n}]
        PROVE  SsoInv'
    <3> DEFINE r == [Sso!NoAccount EXCEPT !.state = "live", !.password = TRUE, !.name = "chosen"]
    <3>1. account' = [account EXCEPT ![n] = r] /\ account[n].state = "none"
      BY <2>3 DEF Sso!Fresh
    <3>2. r \in [state : {"none", "live", "gone"}, open : BOOLEAN, password : BOOLEAN,
                 name : Identities \cup {Sso!Local, "chosen"}]
      BY DEF Sso!NoAccount
    <3>3. r.state = "live" /\ r.password
      BY DEF Sso!NoAccount
    <3> HIDE DEF r
    <3>4. AccountTypes'
      BY <3>1, <3>2 DEF SsoInv, AccountTypes
    <3>5. LoginInv'
      BY <1>2, <3>1, <3>3, LoginMade DEF Sso!AcceptCommit
    <3>6. InviteInv'
      <4>1. invite' = [state |-> "used", made |-> {n}]
        BY <2>3 DEF SsoInv, InviteInv
      <4>2. claimer = "none"
        BY <1>2 DEF Sso!AcceptCommit
      <4>3. ASSUME NEW d \in Callers, call'[d].claimed PROVE FALSE
        <5>1. call[d].claimed
          BY <2>1, <4>3 DEF OnlyOf
        <5>2. claimer = d
          BY <5>1 DEF SsoInv, InviteInv
        <5> QED BY <4>2, <5>2, NamesAssumption
      <4> QED BY <4>1, <4>3 DEF InviteInv
    <3> QED BY <2>1, <3>4, <3>5, <3>6 DEF SsoInv
  <2> QED BY <1>2, <2>2, <2>3 DEF Sso!AcceptCommit, Sso!Claims
<1> QED BY <1>1, <1>2

\* Unlinking
LEMMA SsoUnlinks ==
  ASSUME SsoInv, NEW c \in Callers, NEW i \in Identities, NEW n \in Sso!Accounts,
         Sso!Unlink(c, i, n)
  PROVE  SsoInv'
<1> DEFINE r == [Sso!NoCall EXCEPT !.at = "unlink", !.id = i, !.who = n]
<1>1. r \in CallRecords
  BY DEF Sso!NoCall, CallRecords, Sso!Nobody
<1>2. r.at = "unlink" /\ r.claimed = FALSE /\ r.who = n
  BY DEF Sso!NoCall
<1>3. call' = [call EXCEPT ![c] = r] /\ UNCHANGED <<account, links, invite, claimer>>
  BY DEF Sso!Unlink
<1> HIDE DEF r
<1>4. CallTypes' /\ AccountTypes'
  BY <1>1, <1>3, CallTyped DEF SsoInv, AccountTypes
<1>5. call'[c] = r /\ OnlyOf(c)
  BY <1>3, CallSet, Zenon DEF SsoInv
<1>6. InviteInv'
  BY <1>2, <1>3, <1>5, InviteKept
<1>7. \A d \in Callers : d # c => call'[d] = call[d]
  BY <1>5 DEF OnlyOf
<1>8. account[n].state = "live" /\ call[c].at = "idle"
  BY DEF Sso!Unlink, Sso!Live
<1>9. ASSUME NEW d \in Callers, call'[d].at = "unlink"
      PROVE  call'[d].who \in Sso!Accounts /\ account'[call'[d].who].state # "none"
  <2>1. CASE d = c
    BY <1>2, <1>3, <1>5, <1>8, <2>1
  <2>2. CASE d # c
    BY <1>3, <1>7, <1>9, <2>2 DEF SsoInv, LoginInv
  <2> QED BY <2>1, <2>2
<1>10. ASSUME NEW m \in Sso!Accounts \ raced', account[m].state = "live", ~account[m].password
       PROVE  /\ Sso!RowsOf(m)' # {}
              /\ \A d, e \in Callers : Unlinking(d, m)' /\ Unlinking(e, m)' => d = e
              /\ \A d \in Callers : Unlinking(d, m)' => Sso!RowsOf(m)' # {<<call'[d].id, m>>}
  <2>1. raced \subseteq raced'
    BY DEF Sso!Unlink
  <2>2. Sso!RowsOf(m)' = Sso!RowsOf(m)
    BY <1>3 DEF Sso!RowsOf
  <2>3. /\ Sso!RowsOf(m) # {}
        /\ \A d, e \in Callers : Unlinking(d, m) /\ Unlinking(e, m) => d = e
        /\ \A d \in Callers : Unlinking(d, m) => Sso!RowsOf(m) # {<<call[d].id, m>>}
    BY <1>10, <2>1 DEF SsoInv, LoginInv
  <2>4. \A d \in Callers : d # c /\ Unlinking(d, m)' => Unlinking(d, m)
    BY <1>7 DEF Unlinking
  <2>5. CASE m # n
    <3>1. ~Unlinking(c, m)'
      BY <1>2, <1>5, <2>5 DEF Unlinking
    <3> QED BY <1>7, <2>2, <2>3, <2>4, <3>1
  <2>6. CASE m = n
    <3>1. ~ \E d \in Callers : Unlinking(d, n)
      BY <1>10, <2>6 DEF Sso!Unlink, Unlinking
    <3>2. \A d \in Callers : Unlinking(d, m)' => d = c
      BY <2>4, <2>6, <3>1
    <3>3. Sso!Cardinality(Sso!RowsOf(n)) > 1
      BY <1>10, <2>6 DEF Sso!Unlink, Sso!MayUnlink
    <3>4. \A x : Sso!RowsOf(n) # {x}
      BY <3>3, MoreThanOne
    <3> QED BY <2>2, <2>3, <2>6, <3>2, <3>4
  <2> QED BY <2>5, <2>6
<1>11. LoginInv'
  BY <1>3, <1>9, <1>10 DEF LoginInv
<1> QED BY <1>4, <1>6, <1>11 DEF SsoInv

LEMMA SsoUnlinked ==
  ASSUME SsoInv, NEW c \in Callers, Sso!UnlinkCommit(c)
  PROVE  SsoInv'
<1>1. /\ CallTypes' /\ OnlyOf(c) /\ call'[c].at = "idle" /\ ~call'[c].claimed
      /\ claimer' = claimer \/ claimer \in {"none", c}
  BY SsoRefused DEF Sso!UnlinkCommit
<1>2. UNCHANGED <<account, invite, raced>> /\ links' = links \ {<<call[c].id, call[c].who>>}
  BY DEF Sso!UnlinkCommit
<1>3. InviteInv'
  BY <1>1, <1>2, InviteKept
<1>4. \A d \in Callers : call'[d].at = "unlink" => d # c /\ call'[d] = call[d]
  BY <1>1 DEF OnlyOf
<1>5. \A d \in Callers, m \in Sso!Accounts :
        Unlinking(d, m)' => d # c /\ Unlinking(d, m) /\ call'[d].id = call[d].id
  BY <1>4 DEF Unlinking
<1>6. ASSUME NEW m \in Sso!Accounts \ raced, account[m].state = "live", ~account[m].password
      PROVE  /\ Sso!RowsOf(m)' # {}
             /\ \A d, e \in Callers : Unlinking(d, m)' /\ Unlinking(e, m)' => d = e
             /\ \A d \in Callers : Unlinking(d, m)' => Sso!RowsOf(m)' # {<<call'[d].id, m>>}
  <2>1. /\ Sso!RowsOf(m) # {}
        /\ \A d, e \in Callers : Unlinking(d, m) /\ Unlinking(e, m) => d = e
        /\ \A d \in Callers : Unlinking(d, m) => Sso!RowsOf(m) # {<<call[d].id, m>>}
    BY <1>6 DEF SsoInv, LoginInv
  <2>2. CASE call[c].who = m
    <3>1. Unlinking(c, m)
      BY <2>2 DEF Sso!UnlinkCommit, Unlinking
    <3>2. \A d \in Callers : ~Unlinking(d, m)'
      BY <1>5, <2>1, <3>1
    <3>3. Sso!RowsOf(m)' = Sso!RowsOf(m) \ {<<call[c].id, m>>}
      BY <1>2, <2>2 DEF Sso!RowsOf
    <3> QED BY <2>1, <3>1, <3>2, <3>3
  <2>3. CASE call[c].who # m
    <3>1. Sso!RowsOf(m)' = Sso!RowsOf(m)
      BY <1>2, <2>3 DEF Sso!RowsOf
    <3> QED BY <1>5, <2>1, <3>1
  <2> QED BY <2>2, <2>3
<1>7. ASSUME NEW d \in Callers, call'[d].at = "unlink"
      PROVE  call'[d].who \in Sso!Accounts /\ account'[call'[d].who].state # "none"
  BY <1>2, <1>4, <1>7 DEF SsoInv, LoginInv
<1>8. LoginInv'
  BY <1>2, <1>6, <1>7 DEF LoginInv
<1> QED BY <1>1, <1>2, <1>3, <1>8 DEF SsoInv, AccountTypes

LEMMA SsoLinked ==
  ASSUME SsoInv, NEW c \in Callers, Sso!LinkCommit(c)
  PROVE  SsoInv'
<1>1. /\ CallTypes' /\ OnlyOf(c) /\ call'[c].at = "idle" /\ ~call'[c].claimed
      /\ claimer' = claimer \/ claimer \in {"none", c}
  BY SsoRefused DEF Sso!LinkCommit
<1>2. UNCHANGED <<account, invite, raced>> /\ links \subseteq links'
  BY DEF Sso!LinkCommit, Sso!Linked
<1>3. InviteInv'
  BY <1>1, <1>2, InviteKept
<1>4. LoginInv'
  BY <1>1, <1>2, LoginKept
<1> QED BY <1>1, <1>2, <1>3, <1>4 DEF SsoInv, AccountTypes

LEMMA SsoClaims ==
  ASSUME SsoInv, NEW c \in Callers, Sso!ClaimInvite(c)
  PROVE  SsoInv'
<1>1. Sso!Rest /\ claimer = "none"
  BY DEF Sso!ClaimInvite
<1>2. CASE Sso!Refused(c)
  BY <1>1, <1>2, SsoReads
<1>3. CASE /\ call' = [call EXCEPT ![c].at = "name", ![c].claimed = TRUE] /\ claimer' = c
           /\ invite.state = "free"
  <2> DEFINE r == [call[c] EXCEPT !.at = "name", !.claimed = TRUE]
  <2>1. call[c] \in CallRecords
    BY DEF SsoInv, CallTypes
  <2>2. r \in CallRecords /\ r.at = "name"
    BY <2>1 DEF CallRecords
  <2>3. call' = [call EXCEPT ![c] = r]
    BY <1>3 DEF SsoInv, CallTypes
  <2> HIDE DEF r
  <2>4. CallTypes' /\ call'[c].at = "name" /\ OnlyOf(c)
    BY <2>2, <2>3, CallTyped, CallSet DEF SsoInv
  <2>5. LoginInv'
    BY <1>1, <2>4, LoginKept DEF Sso!Rest
  <2>6. ASSUME NEW d \in Callers, call'[d].claimed PROVE d = c
    <3>1. CASE d # c
      <4>1. call[d].claimed
        BY <2>4, <2>6, <3>1 DEF OnlyOf
      <4>2. claimer = d
        BY <4>1 DEF SsoInv, InviteInv
      <4> QED BY <1>1, <4>2, NamesAssumption
    <3> QED BY <3>1
  <2>7. UNCHANGED invite
    BY <1>1 DEF Sso!Rest
  <2>8. InviteInv'
    BY <1>3, <2>6, <2>7 DEF SsoInv, InviteInv
  <2> QED BY <1>1, <2>4, <2>5, <2>8 DEF SsoInv, AccountTypes, Sso!Rest
<1> QED BY <1>2, <1>3 DEF Sso!ClaimInvite, Sso!Claims

\* The admins, who change one account.
LEMMA SsoAdmins ==
  ASSUME SsoInv, NEW n \in Sso!Accounts, Sso!ChangeUser(n) \/ Sso!DeleteUser(n)
  PROVE  SsoInv'
<1>1. UNCHANGED <<invite, call, claimer, raced>>
  BY DEF Sso!ChangeUser, Sso!DeleteUser
<1>2. CallTypes' /\ InviteInv'
  BY <1>1 DEF SsoInv, CallTypes, InviteInv
<1>3. account[n] \in [state : {"none", "live", "gone"}, open : BOOLEAN, password : BOOLEAN,
                      name : Identities \cup {Sso!Local, "chosen"}]
  BY DEF SsoInv, AccountTypes
<1>4. CASE Sso!ChangeUser(n)
  <2> DEFINE r == [account[n] EXCEPT !.open = ~account[n].open]
  <2>1. account' = [account EXCEPT ![n] = r] /\ UNCHANGED links
    BY <1>4 DEF Sso!ChangeUser, SsoInv, AccountTypes
  <2>2. r \in [state : {"none", "live", "gone"}, open : BOOLEAN, password : BOOLEAN,
               name : Identities \cup {Sso!Local, "chosen"}]
    BY <1>3
  <2>3. r.state = account[n].state /\ r.password = account[n].password
    BY <1>3
  <2> HIDE DEF r
  <2>4. AccountTypes'
    BY <2>1, <2>2 DEF SsoInv, AccountTypes
  <2>5. \A m \in Sso!Accounts : /\ account'[m].state = account[m].state
                                 /\ account'[m].password = account[m].password
    BY <2>1, <2>3 DEF SsoInv, AccountTypes
  <2>6. \A m \in Sso!Accounts : Sso!RowsOf(m)' = Sso!RowsOf(m)
    BY <2>1 DEF Sso!RowsOf
  <2>7. \A d \in Callers, m \in Sso!Accounts : Unlinking(d, m)' = Unlinking(d, m)
    BY <1>1 DEF Unlinking
  <2>8. LoginInv'
    BY <1>1, <2>5, <2>6, <2>7 DEF SsoInv, LoginInv
  <2> QED BY <1>2, <2>4, <2>8 DEF SsoInv
<1>5. CASE Sso!DeleteUser(n)
  <2>1. account' = [account EXCEPT ![n].state = "gone"] /\ links' = links \ Sso!RowsOf(n)
    BY <1>5 DEF Sso!DeleteUser
  <2>2. AccountTypes'
    BY <1>3, <2>1 DEF SsoInv, AccountTypes
  <2>3. account'[n].state = "gone" /\ \A m \in Sso!Accounts : m # n => account'[m] = account[m]
    BY <1>3, <2>1 DEF SsoInv, AccountTypes
  <2>4. \A m \in Sso!Accounts : m # n => Sso!RowsOf(m)' = Sso!RowsOf(m)
    BY <2>1 DEF Sso!RowsOf
  <2>5. \A d \in Callers, m \in Sso!Accounts : Unlinking(d, m)' = Unlinking(d, m)
    BY <1>1 DEF Unlinking
  <2>6. ASSUME NEW d \in Callers, call'[d].at = "unlink"
        PROVE  call'[d].who \in Sso!Accounts /\ account'[call'[d].who].state # "none"
    BY <1>1, <2>3, <2>6 DEF SsoInv, LoginInv
  <2>7. ASSUME NEW m \in Sso!Accounts \ raced, account'[m].state = "live", ~account'[m].password
        PROVE  /\ Sso!RowsOf(m)' # {}
               /\ \A d, e \in Callers : Unlinking(d, m)' /\ Unlinking(e, m)' => d = e
               /\ \A d \in Callers : Unlinking(d, m)' => Sso!RowsOf(m)' # {<<call'[d].id, m>>}
    <3>1. m # n /\ account'[m] = account[m]
      BY <2>3, <2>7
    <3>2. /\ Sso!RowsOf(m) # {}
          /\ \A d, e \in Callers : Unlinking(d, m) /\ Unlinking(e, m) => d = e
          /\ \A d \in Callers : Unlinking(d, m) => Sso!RowsOf(m) # {<<call[d].id, m>>}
      BY <2>7, <3>1 DEF SsoInv, LoginInv
    <3> QED BY <1>1, <2>4, <2>5, <3>1, <3>2
  <2>8. LoginInv'
    BY <1>1, <2>6, <2>7 DEF LoginInv
  <2> QED BY <1>2, <2>2, <2>8 DEF SsoInv
<1> QED BY <1>4, <1>5

LEMMA SsoStep == SsoInv /\ [Sso!Next]_(Sso!fedVars) => SsoInv'
<1> SUFFICES ASSUME SsoInv, [Sso!Next]_(Sso!fedVars) PROVE SsoInv'
  OBVIOUS
<1>1. ASSUME NEW n \in Sso!Accounts, Sso!ChangeUser(n) \/ Sso!DeleteUser(n) PROVE SsoInv'
  BY <1>1, SsoAdmins
<1>2. ASSUME NEW c \in Callers, Sso!LinkCommit(c) PROVE SsoInv'
  BY <1>2, SsoLinked
<1>3. ASSUME NEW c \in Callers, Sso!ClaimInvite(c) PROVE SsoInv'
  BY <1>3, SsoClaims
<1>4. ASSUME NEW c \in Callers, Sso!UnlinkCommit(c) PROVE SsoInv'
  BY <1>4, SsoUnlinked
<1>5. ASSUME NEW c \in Callers, NEW n \in Sso!Accounts, NEW i \in Identities, Sso!Unlink(c, i, n)
      PROVE  SsoInv'
  BY <1>5, SsoUnlinks
<1>6. CASE UNCHANGED Sso!fedVars
  BY <1>6 DEF Sso!fedVars, SsoInv, AccountTypes, CallTypes, InviteInv, LoginInv, Unlinking,
              Sso!RowsOf
<1> QED BY <1>1, <1>2, <1>3, <1>4, <1>5, <1>6, SsoReading, SsoMaking DEF Sso!Next

LEMMA SsoGive == SsoInv => AccountsAreWhole
<1> SUFFICES ASSUME SsoInv PROVE AccountsAreWhole
  OBVIOUS
<1>1. Sso!InviteMakesOne
  <2>1. CASE invite.state = "free" /\ invite.made = {}
    <3>1. Sso!Cardinality({}) = 0
      BY FS_EmptySet, SsoCount
    <3> QED BY <2>1, <3>1 DEF Sso!InviteMakesOne
  <2>2. ASSUME NEW n, invite.state = "used", invite.made = {n} PROVE Sso!InviteMakesOne
    <3>1. Sso!Cardinality({n}) = 1
      BY FS_Singleton, SsoCount
    <3> QED BY <2>2, <3>1 DEF Sso!InviteMakesOne
  <2> QED BY <2>1, <2>2 DEF SsoInv, InviteInv
<1>2. Sso!LoginStays
  BY DEF SsoInv, LoginInv, Sso!LoginStays, Sso!Matches, Sso!Live
<1> QED BY <1>1, <1>2 DEF AccountsAreWhole, Sso!AccountsAreWhole

-----------------------------------------------------------------------------
(* SignIn: the bound rests on two facts about the queues, which are in     *)
(* order of age: the account's brake holds a failure for every guess that  *)
(* counts, and no older one, so that it is over its threshold when the     *)
(* guesses are; and the guesses beyond the threshold lie a gap apart,      *)
(* since each of them took the slot that the one before had left.          *)

Falling(q) == \A i, j \in 1..Len(q) : i <= j => q[i] >= q[j]
InWindow(q) == \A i \in 1..Len(q) : q[i] < Duration

\* the k newest failures of the brake are no older than the k newest guesses
Covers(b, g) == Len(g) <= Len(b) /\ \A i \in 1..Len(g) : b[Len(b) - Len(g) + i] <= g[i]

\* Beyond the threshold
Spaced(g) == \A i, j \in 1..Len(g) : i > GlobalThreshold /\ i <= j => g[i] >= g[j] + (j - i) * Gap
LastKnown(g, c) == Len(g) > GlobalThreshold => c <= g[Len(g)]

Braked(g, b, c) ==
  /\ g \in Seq(Nat) /\ b \in Seq(Nat) /\ c \in 0..Gap
  /\ Falling(g) /\ Falling(b) /\ InWindow(g) /\ Covers(b, g)
  /\ Spaced(g) /\ LastKnown(g, c)

GuessInv == Braked(guesses, brake, lastCheck)

LEMMA GuessesCount == \A S : SignIns!Cardinality(S) = Cardinality(S)
BY Zenon DEF SignIns!Cardinality, Cardinality

\* What leaves the window leaves from the front.
LEMMA FrontIsPast ==
  ASSUME NEW q \in Seq(Nat), Falling(q)
  PROVE  /\ SignIns!Past(q) \in 0..Len(q)
         /\ \A i \in 1..Len(q) : q[i] + 1 >= Duration <=> i <= SignIns!Past(q)
<1> DEFINE S == {i \in 1..Len(q) : q[i] + 1 >= Duration}
           n == SignIns!Past(q)
<1>1. Len(q) \in Nat /\ \A i \in 1..Len(q) : q[i] \in Nat
  OBVIOUS
<1>2. n = Cardinality(S)
  BY GuessesCount DEF SignIns!Past
<1>3. \A k \in Nat : IsFiniteSet(1..k) /\ Cardinality(1..k) = k
  <2> SUFFICES ASSUME NEW k \in Nat PROVE IsFiniteSet(1..k) /\ Cardinality(1..k) = k
    OBVIOUS
  <2> QED BY FS_Interval
<1>4. IsFiniteSet(S) /\ n \in Nat /\ n <= Len(q)
  <2>1. S \subseteq 1..Len(q) /\ IsFiniteSet(1..Len(q)) /\ Cardinality(1..Len(q)) = Len(q)
    BY <1>1, <1>3
  <2>2. IsFiniteSet(S) /\ Cardinality(S) <= Cardinality(1..Len(q))
    BY <2>1, FS_Subset
  <2> QED BY <1>2, <2>1, <2>2, FS_CardinalityType
<1>5. ASSUME NEW i \in S PROVE i <= n
  <2>1. 1..i \subseteq S
    BY <1>1, LockoutAssumption DEF Falling
  <2>2. Cardinality(1..i) <= Cardinality(S)
    BY <1>4, <2>1, FS_Subset
  <2>3. i \in Nat
    BY <1>5
  <2> QED BY <1>2, <1>3, <2>2, <2>3
<1>6. ASSUME NEW i \in 1..Len(q), i \notin S PROVE i > n
  <2>1. S \subseteq 1..(i - 1)
    BY <1>1, <1>6, LockoutAssumption DEF Falling
  <2>2. i - 1 \in Nat
    BY <1>6
  <2>3. Cardinality(S) <= i - 1
    BY <1>3, <2>1, <2>2, FS_Subset
  <2> QED BY <1>2, <1>4, <1>6, <2>3
<1> QED BY <1>4, <1>5, <1>6

\* An age of a queue
LEMMA Ages ==
  ASSUME NEW q, q \in Seq(Nat), NEW i \in 1..Len(q) PROVE q[i] \in Nat /\ Len(q) \in Nat
OBVIOUS

Shifted(o, q, n) == \A i \in 1..Len(o) : o[i] = q[n + i] + 1
Grown(h, q) == Len(h) = Len(q) + 1 /\ h[Len(q) + 1] = 0 /\ \A i \in 1..Len(q) : h[i] = q[i]

LEMMA OlderFacts ==
  ASSUME NEW q \in Seq(Nat), Falling(q), NEW n, n = SignIns!Past(q)
  PROVE  /\ SignIns!Older(q) \in Seq(Nat) /\ n \in 0..Len(q)
         /\ Len(SignIns!Older(q)) = Len(q) - n /\ Shifted(SignIns!Older(q), q, n)
<1> DEFINE k == Len(q) - n
           o == [i \in 1..k |-> q[n + i] + 1]
<1>1. n \in 0..Len(q) /\ Len(q) \in Nat
  BY FrontIsPast
<1>2. SignIns!Older(q) = o
  BY DEF SignIns!Older
<1>3. ASSUME NEW i \in 1..k PROVE q[n + i] + 1 \in Nat
  <2>1. n + i \in 1..Len(q)
    BY <1>1
  <2>2. q[n + i] \in Nat
    BY <2>1, Ages
  <2> QED BY <2>2
<1>4. k \in Nat
  BY <1>1
<1> HIDE DEF k
<1>5. o \in [1..k -> Nat]
  BY <1>3
<1>6. o \in Seq(Nat) /\ Len(o) = k
  BY <1>4, <1>5
<1>7. Shifted(o, q, n)
  BY <1>6 DEF Shifted
<1> HIDE DEF o
<1> QED BY <1>1, <1>2, <1>6, <1>7 DEF k

\* The entry of a queue that one of a shifted queue comes from
ComesFrom(o, q, n) ==
  \A i \in 1..Len(o) : n + i \in 1..Len(q) /\ q[n + i] \in Nat /\ o[i] = q[n + i] + 1

LEMMA ShiftedAges ==
  ASSUME NEW q, q \in Seq(Nat), NEW n, n \in 0..Len(q), NEW o, Len(o) = Len(q) - n, Shifted(o, q, n)
  PROVE  ComesFrom(o, q, n)
<1> SUFFICES ASSUME NEW i \in 1..Len(o)
             PROVE  n + i \in 1..Len(q) /\ q[n + i] \in Nat /\ o[i] = q[n + i] + 1
  BY DEF ComesFrom
<1>1. n + i \in 1..Len(q)
  <2>1. Len(q) \in Nat
    OBVIOUS
  <2> QED BY <2>1
<1>2. q[n + i] \in Nat
  BY <1>1, Ages
<1>3. o[i] = q[n + i] + 1
  BY DEF Shifted
<1> QED BY <1>1, <1>2, <1>3

LEMMA ShiftedFalls ==
  ASSUME NEW q, q \in Seq(Nat), NEW n \in 0..Len(q), NEW o, o \in Seq(Nat), Len(o) = Len(q) - n,
         Shifted(o, q, n), Falling(q)
  PROVE  Falling(o)
<1> SUFFICES ASSUME NEW i \in 1..Len(o), NEW j \in 1..Len(o), i <= j PROVE o[i] >= o[j]
  BY DEF Falling
<1> DEFINE x == q[n + i]
           y == q[n + j]
<1>1. n + i \in 1..Len(q) /\ n + j \in 1..Len(q) /\ n + i <= n + j
  OBVIOUS
<1>2. x >= y
  BY <1>1 DEF Falling
<1>3. /\ x \in Nat /\ o[i] = x + 1
      /\ y \in Nat /\ o[j] = y + 1
  <2>1. \A k \in 1..Len(o) : n + k \in 1..Len(q) /\ q[n + k] \in Nat /\ o[k] = q[n + k] + 1
    <3>1. ComesFrom(o, q, n)
      BY ShiftedAges, Zenon
    <3> QED BY <3>1 DEF ComesFrom
  <2> QED BY <2>1, Zenon
<1> HIDE DEF x, y
<1>4. x + 1 >= y + 1
  BY <1>2, <1>3
<1> QED BY <1>3, <1>4

LEMMA GrownFacts ==
  ASSUME NEW q, q \in Seq(Nat)
  PROVE  Append(q, 0) \in Seq(Nat) /\ Grown(Append(q, 0), q) /\ Len(q) \in Nat
BY DEF Grown

LEMMA GrownFalls ==
  ASSUME NEW q, q \in Seq(Nat), NEW h, h \in Seq(Nat), Grown(h, q), Falling(q)
  PROVE  Falling(h)
<1> SUFFICES ASSUME NEW i \in 1..Len(h), NEW j \in 1..Len(h), i <= j PROVE h[i] >= h[j]
  BY DEF Falling
<1>1. Len(q) \in Nat /\ Len(h) = Len(q) + 1
  BY DEF Grown
<1>2. h[i] \in Nat
  BY Ages
<1>3. CASE j = Len(q) + 1
  <2>1. h[j] = 0
    BY <1>3 DEF Grown
  <2> QED BY <1>2, <2>1
<1>4. CASE j \in 1..Len(q)
  <2>1. i \in 1..Len(q)
    BY <1>1, <1>4
  <2>2. q[i] >= q[j]
    BY <1>4, <2>1 DEF Falling
  <2>3. h[i] = q[i] /\ h[j] = q[j]
    BY <1>4, <2>1 DEF Grown
  <2> QED BY <2>2, <2>3
<1> QED BY <1>1, <1>3, <1>4

LEMMA BrakedTick ==
  ASSUME NEW g, NEW b, NEW c, Braked(g, b, c), NEW d, d = IF c < Gap THEN c + 1 ELSE Gap
  PROVE  Braked(SignIns!Older(g), SignIns!Older(b), d)
<1> DEFINE m == SignIns!Past(g)
           n == SignIns!Past(b)
           og == SignIns!Older(g)
           ob == SignIns!Older(b)
<1>1. g \in Seq(Nat) /\ b \in Seq(Nat) /\ Falling(g) /\ Falling(b) /\ c \in 0..Gap
  BY DEF Braked
<1>2. og \in Seq(Nat) /\ m \in 0..Len(g) /\ Len(og) = Len(g) - m /\ Shifted(og, g, m)
  BY <1>1, OlderFacts
<1>3. ob \in Seq(Nat) /\ n \in 0..Len(b) /\ Len(ob) = Len(b) - n /\ Shifted(ob, b, n)
  BY <1>1, OlderFacts
<1>4. /\ \A i \in 1..Len(g) : g[i] + 1 >= Duration <=> i <= m
      /\ \A i \in 1..Len(b) : b[i] + 1 >= Duration <=> i <= n
  BY <1>1, FrontIsPast
<1>5. Len(g) \in Nat /\ Len(b) \in Nat /\ Len(g) <= Len(b)
  BY <1>1 DEF Braked, Covers
<1>6. ASSUME NEW i \in 1..Len(g) PROVE Len(b) - Len(g) + i \in 1..Len(b) /\ b[Len(b) - Len(g) + i] <= g[i]
  BY <1>5 DEF Braked, Covers
<1> HIDE DEF m, n, og, ob
<1>7. \A i \in 1..Len(og) : m + i \in 1..Len(g) /\ g[m + i] \in Nat /\ og[i] = g[m + i] + 1
  <2>1. ComesFrom(og, g, m)
    BY <1>1, <1>2, ShiftedAges, Zenon
  <2> QED BY <2>1 DEF ComesFrom
<1>8. \A i \in 1..Len(ob) : n + i \in 1..Len(b) /\ b[n + i] \in Nat /\ ob[i] = b[n + i] + 1
  <2>1. ComesFrom(ob, b, n)
    BY <1>1, <1>3, ShiftedAges, Zenon
  <2> QED BY <2>1 DEF ComesFrom
<1>9. d \in 0..Gap
  BY <1>1, LockoutAssumption
<1>10. Falling(og) /\ Falling(ob)
  BY <1>1, <1>2, <1>3, ShiftedFalls
<1>11. InWindow(og)
  <2> SUFFICES ASSUME NEW i \in 1..Len(og) PROVE og[i] < Duration
    BY DEF InWindow
  <2> DEFINE x == g[m + i]
  <2>1. m + i \in 1..Len(g) /\ x \in Nat /\ og[i] = x + 1
    BY <1>7, Zenon
  <2>2. ~(m + i <= m)
    BY <1>2, <1>5
  <2>3. ~(x + 1 >= Duration)
    BY <1>4, <2>1, <2>2
  <2> HIDE DEF x
  <2> QED BY <2>1, <2>3, LockoutAssumption
<1>12. n <= Len(b) - Len(g) + m
  <2> SUFFICES ASSUME n > Len(b) - Len(g) + m PROVE FALSE
    BY <1>2, <1>3, <1>5
  <2> DEFINE i == n - (Len(b) - Len(g))
             x == g[i]
             y == b[n]
  <2>1. i \in 1..Len(g) /\ ~(i <= m) /\ Len(b) - Len(g) + i = n /\ n \in 1..Len(b)
    BY <1>2, <1>3, <1>5
  <2>2. y <= x
    BY <1>6, <2>1
  <2> HIDE DEF i
  <2>3. x \in Nat /\ y \in Nat
    BY <1>1, <2>1, Ages
  <2>4. ~(x + 1 >= Duration)
    BY <1>4, <2>1
  <2>5. y + 1 >= Duration
    <3>1. n <= n
      BY <2>1
    <3> QED BY <1>4, <2>1, <3>1
  <2> HIDE DEF x, y
  <2> QED BY <2>2, <2>3, <2>4, <2>5, LockoutAssumption
<1>13. Covers(ob, og)
  <2>1. Len(og) <= Len(ob) /\ Len(og) \in Nat /\ Len(ob) \in Nat
    BY <1>2, <1>3, <1>5, <1>12
  <2>2. ASSUME NEW i \in 1..Len(og) PROVE ob[Len(ob) - Len(og) + i] <= og[i]
    <3> DEFINE k == Len(ob) - Len(og) + i
               x == g[m + i]
               y == b[n + k]
    <3>1. m + i \in 1..Len(g) /\ x \in Nat /\ og[i] = x + 1
      BY <1>7, Zenon
    <3>2. k \in 1..Len(ob) /\ n + k = Len(b) - Len(g) + (m + i)
      BY <1>2, <1>3, <1>5, <2>1
    <3>3. y <= x
      BY <1>6, <3>1, <3>2
    <3> HIDE DEF k
    <3>4. y \in Nat /\ ob[k] = y + 1
      BY <1>8, <3>2, Zenon
    <3> HIDE DEF x, y
    <3>5. y + 1 <= x + 1
      BY <3>1, <3>3, <3>4
    <3> QED BY <3>1, <3>4, <3>5 DEF k
  <2> QED BY <2>1, <2>2 DEF Covers
<1>14. Spaced(og)
  <2> SUFFICES ASSUME NEW i \in 1..Len(og), NEW j \in 1..Len(og), i > GlobalThreshold, i <= j
               PROVE  og[i] >= og[j] + (j - i) * Gap
    BY DEF Spaced
  <2> DEFINE x == g[m + i]
             y == g[m + j]
             z == (j - i) * Gap
  <2>1. m + i \in 1..Len(g) /\ x \in Nat /\ og[i] = x + 1
    BY <1>7, Zenon
  <2>2. m + j \in 1..Len(g) /\ y \in Nat /\ og[j] = y + 1
    BY <1>7, Zenon
  <2>3. m + i > GlobalThreshold /\ m + i <= m + j /\ (m + j) - (m + i) = j - i
    BY <1>2, <1>5, LockoutAssumption
  <2>4. x >= y + z
    BY <2>1, <2>2, <2>3 DEF Braked, Spaced
  <2>5. z \in Nat
    <3>1. j - i \in Nat
      BY <1>2, <1>5
    <3> QED BY <3>1, LockoutAssumption
  <2> HIDE DEF x, y, z
  <2>6. x + 1 >= (y + 1) + z
    BY <2>1, <2>2, <2>4, <2>5
  <2> QED BY <2>1, <2>2, <2>6 DEF z
<1>15. LastKnown(og, d)
  <2> SUFFICES ASSUME Len(og) > GlobalThreshold PROVE d <= og[Len(og)]
    BY DEF LastKnown
  <2> DEFINE x == g[Len(g)]
  <2>1. Len(g) > GlobalThreshold /\ Len(og) \in 1..Len(og) /\ m + Len(og) = Len(g)
    BY <1>2, <1>5, LockoutAssumption
  <2>2. c <= x
    BY <2>1 DEF Braked, LastKnown
  <2>3. x \in Nat /\ og[Len(og)] = x + 1
    <3>1. g[m + Len(og)] \in Nat /\ og[Len(og)] = g[m + Len(og)] + 1
      BY <1>7, <2>1, Zenon
    <3> QED BY <2>1, <3>1, Zenon
  <2> HIDE DEF x
  <2>4. d <= x + 1
    BY <1>1, <2>2, <2>3, LockoutAssumption
  <2> QED BY <2>3, <2>4
<1> QED BY <1>2, <1>3, <1>9, <1>10, <1>11, <1>13, <1>14, <1>15 DEF Braked, og, ob

\* A failure that is no guess of a stranger
LEMMA BrakedFail ==
  ASSUME NEW g, NEW b, NEW c, Braked(g, b, c) PROVE Braked(g, Append(b, 0), c)
<1> DEFINE l == Append(b, 0)
<1>1. g \in Seq(Nat) /\ b \in Seq(Nat) /\ Falling(b) /\ Len(g) \in Nat /\ Len(b) \in Nat
      /\ Len(g) <= Len(b)
  BY DEF Braked, Covers
<1>2. l \in Seq(Nat) /\ Grown(l, b) /\ Len(l) = Len(b) + 1
  BY <1>1, GrownFacts
<1> HIDE DEF l
<1>3. Falling(l)
  BY <1>1, <1>2, GrownFalls
<1>4. ASSUME NEW i \in 1..Len(g) PROVE l[Len(l) - Len(g) + i] <= g[i]
  <2> DEFINE k == Len(b) - Len(g) + i
             x == g[i]
             y == b[k]
  <2>1. k \in 1..Len(b) /\ Len(l) - Len(g) + i = k + 1
    BY <1>1, <1>2
  <2>2. y <= x
    BY DEF Braked, Covers
  <2> HIDE DEF k
  <2>3. x \in Nat /\ y \in Nat
    BY <1>1, <2>1, Ages
  <2>4. CASE k = Len(b)
    <3>1. l[k + 1] = 0
      BY <1>2, <2>4 DEF Grown
    <3> HIDE DEF x, y
    <3>2. l[k + 1] <= x
      BY <2>3, <3>1
    <3> QED BY <2>1, <3>2 DEF x
  <2>5. CASE k < Len(b)
    <3> DEFINE z == b[k + 1]
    <3>1. k + 1 \in 1..Len(b) /\ k <= k + 1
      BY <1>1, <2>1, <2>5
    <3>2. y >= z
      BY <1>1, <2>1, <3>1 DEF Falling
    <3>3. z \in Nat /\ l[k + 1] = z
      BY <1>1, <1>2, <3>1, Ages DEF Grown
    <3> HIDE DEF x, y, z
    <3>4. z <= x
      BY <2>2, <2>3, <3>2, <3>3
    <3> QED BY <2>1, <3>3, <3>4 DEF x
  <2> QED BY <1>1, <2>1, <2>4, <2>5
<1>5. Covers(l, g)
  BY <1>1, <1>2, <1>4 DEF Covers
<1> QED BY <1>2, <1>3, <1>5 DEF Braked, l

\* A check that took the slot
LEMMA BrakedSlot ==
  ASSUME NEW g, NEW b, NEW c, Braked(g, b, c) PROVE Braked(g, b, 0)
<1>1. LastKnown(g, 0)
  <2> SUFFICES ASSUME Len(g) > GlobalThreshold PROVE 0 <= g[Len(g)]
    BY DEF LastKnown
  <2>1. g \in Seq(Nat) /\ Len(g) \in Nat
    BY DEF Braked
  <2>2. Len(g) \in 1..Len(g)
    BY <2>1, LockoutAssumption
  <2>3. g[Len(g)] \in Nat
    BY <2>1, <2>2, Ages
  <2> QED BY <2>3
<1> QED BY <1>1, LockoutAssumption DEF Braked

\* A stranger's guess that was checked: over the threshold it took the slot.
LEMMA BrakedGuess ==
  ASSUME NEW g, NEW b, NEW c, Braked(g, b, c), NEW d,
         IF Len(b) >= GlobalThreshold THEN c >= Gap /\ d = 0 ELSE d = c
  PROVE  Braked(Append(g, 0), Append(b, 0), d)
<1> DEFINE h == Append(g, 0)
           l == Append(b, 0)
<1>1. /\ g \in Seq(Nat) /\ b \in Seq(Nat) /\ Falling(g) /\ Falling(b) /\ c \in 0..Gap
      /\ Len(g) \in Nat /\ Len(b) \in Nat /\ Len(g) <= Len(b)
  BY DEF Braked, Covers
<1>2. h \in Seq(Nat) /\ Grown(h, g) /\ Len(h) = Len(g) + 1
  BY <1>1, GrownFacts
<1>3. l \in Seq(Nat) /\ Grown(l, b) /\ Len(l) = Len(b) + 1
  BY <1>1, GrownFacts
<1> HIDE DEF h, l
<1>4. Falling(h) /\ Falling(l)
  BY <1>1, <1>2, <1>3, GrownFalls
<1>5. InWindow(h)
  <2> SUFFICES ASSUME NEW i \in 1..Len(h) PROVE h[i] < Duration
    BY DEF InWindow
  <2>1. CASE i = Len(g) + 1
    <3>1. h[i] = 0
      BY <1>2, <2>1 DEF Grown
    <3> QED BY <3>1, LockoutAssumption
  <2>2. CASE i \in 1..Len(g)
    BY <1>2, <2>2 DEF Grown, Braked, InWindow
  <2> QED BY <1>1, <1>2, <2>1, <2>2
<1>6. Covers(l, h)
  <2>1. Len(h) <= Len(l)
    BY <1>1, <1>2, <1>3
  <2>2. ASSUME NEW i \in 1..Len(h) PROVE l[Len(l) - Len(h) + i] <= h[i]
    <3> DEFINE k == Len(b) - Len(g) + i
    <3>1. Len(l) - Len(h) + i = k
      BY <1>1, <1>2, <1>3
    <3>2. CASE i = Len(g) + 1
      <4>1. k = Len(b) + 1
        BY <1>1, <3>2
      <4>2. l[k] = 0 /\ h[i] = 0
        BY <1>2, <1>3, <3>2, <4>1 DEF Grown
      <4> HIDE DEF k
      <4>3. l[k] <= h[i]
        BY <4>2
      <4> QED BY <3>1, <4>3
    <3>3. CASE i \in 1..Len(g)
      <4>1. k \in 1..Len(b)
        BY <1>1, <3>3
      <4>2. b[k] <= g[i]
        BY <3>3 DEF Braked, Covers
      <4> HIDE DEF k
      <4>3. l[k] = b[k] /\ h[i] = g[i]
        BY <1>2, <1>3, <3>3, <4>1 DEF Grown
      <4> QED BY <3>1, <4>2, <4>3
    <3> QED BY <1>1, <1>2, <3>2, <3>3
  <2> QED BY <2>1, <2>2 DEF Covers
<1>7. d \in 0..Gap /\ (Len(g) >= GlobalThreshold => c >= Gap /\ d = 0)
  BY <1>1, LockoutAssumption
<1>8. Spaced(h)
  <2> SUFFICES ASSUME NEW i \in 1..Len(h), NEW j \in 1..Len(h), i > GlobalThreshold, i <= j
               PROVE  h[i] >= h[j] + (j - i) * Gap
    BY DEF Spaced
  <2>1. CASE j \in 1..Len(g)
    <3>1. i \in 1..Len(g)
      BY <1>1, <2>1
    <3>2. g[i] >= g[j] + (j - i) * Gap
      BY <2>1, <3>1 DEF Braked, Spaced
    <3>3. h[i] = g[i] /\ h[j] = g[j]
      BY <1>2, <2>1, <3>1 DEF Grown
    <3> QED BY <3>2, <3>3
  <2>2. CASE j = Len(g) + 1 /\ i = j
    <3>1. h[i] = 0 /\ h[j] = 0 /\ j - i = 0
      BY <1>1, <1>2, <2>2 DEF Grown
    <3>2. 0 * Gap = 0
      BY LockoutAssumption
    <3>3. h[j] + (j - i) * Gap = 0
      BY <3>1, <3>2
    <3> QED BY <3>1, <3>3
  <2>3. CASE j = Len(g) + 1 /\ i <= Len(g)
    <3> DEFINE k == Len(g) - i
               x == g[i]
               y == g[Len(g)]
               z == k * Gap
    <3>1. k \in Nat /\ j - i = k + 1 /\ Len(g) > GlobalThreshold /\ i \in 1..Len(g)
          /\ Len(g) \in 1..Len(g)
      BY <1>1, <1>2, <2>3, LockoutAssumption
    <3>2. x >= y + z
      BY <1>1, <3>1 DEF Braked, Spaced
    <3>3. c <= y
      BY <3>1 DEF Braked, LastKnown
    <3>4. x \in Nat /\ y \in Nat
      BY <1>1, <3>1, Ages
    <3>5. h[i] = x /\ h[j] = 0
      BY <1>2, <2>3, <3>1 DEF Grown
    <3>6. c >= Gap
      BY <1>1, <1>7, <3>1, LockoutAssumption
    <3> HIDE DEF k
    <3>7. z \in Nat /\ (k + 1) * Gap = z + Gap
      BY <3>1, LockoutAssumption
    <3> HIDE DEF x, y, z
    <3>8. x >= 0 + (z + Gap)
      BY <1>1, <3>2, <3>3, <3>4, <3>6, <3>7, LockoutAssumption
    <3> QED BY <3>1, <3>5, <3>7, <3>8
  <2> QED BY <1>1, <1>2, <2>1, <2>2, <2>3
<1>9. LastKnown(h, d)
  <2> SUFFICES ASSUME Len(h) > GlobalThreshold PROVE d <= h[Len(h)]
    BY DEF LastKnown
  <2>1. d = 0
    BY <1>1, <1>2, <1>7, LockoutAssumption
  <2>2. h[Len(h)] = 0
    BY <1>2 DEF Grown
  <2> QED BY <2>1, <2>2
<1> QED BY <1>2, <1>3, <1>4, <1>5, <1>6, <1>7, <1>8, <1>9 DEF Braked, h, l

LEMMA BrakedNone == Braked(<<>>, <<>>, Gap)
<1>1. <<>> \in Seq(Nat) /\ Len(<<>>) = 0
  OBVIOUS
<1> QED BY <1>1, LockoutAssumption DEF Braked, Falling, InWindow, Covers, Spaced, LastKnown

LEMMA GuessStart == SignIns!Init => GuessInv
BY BrakedNone DEF SignIns!Init, GuessInv

\* What the lockout check leaves behind: nothing, or the slot is taken
LEMMA PassesFacts ==
  ASSUME NEW a, NEW withDevice, SignIns!Passes(a, withDevice)
  PROVE  /\ lastCheck' = lastCheck \/ lastCheck' = 0
         /\ ~SignIns!Vouches(withDevice) =>
              IF Len(brake) >= GlobalThreshold THEN lastCheck >= Gap /\ lastCheck' = 0
              ELSE lastCheck' = lastCheck
BY DEF SignIns!Passes, SignIns!Slot, SignIns!OverBrake

LEMMA GuessWrong ==
  ASSUME GuessInv, NEW a, NEW withDevice, SignIns!WrongPassword(a, withDevice) PROVE GuessInv'
<1>1. brake' = Append(brake, 0) /\ SignIns!Passes(a, withDevice)
      /\ guesses' = IF SignIns!Vouches(withDevice) THEN guesses ELSE Append(guesses, 0)
  BY DEF SignIns!WrongPassword, SignIns!Failed, SignIns!RecordFail
<1>2. CASE SignIns!Vouches(withDevice)
  <2>1. guesses' = guesses /\ (lastCheck' = lastCheck \/ lastCheck' = 0)
    BY <1>1, <1>2, PassesFacts
  <2>2. Braked(guesses, Append(brake, 0), lastCheck)
    BY BrakedFail DEF GuessInv
  <2>3. Braked(guesses, Append(brake, 0), 0)
    BY <2>2, BrakedSlot
  <2> QED BY <1>1, <2>1, <2>2, <2>3 DEF GuessInv
<1>3. CASE ~SignIns!Vouches(withDevice)
  <2>1. IF Len(brake) >= GlobalThreshold THEN lastCheck >= Gap /\ lastCheck' = 0
        ELSE lastCheck' = lastCheck
    BY <1>1, <1>3, PassesFacts
  <2>2. Braked(Append(guesses, 0), Append(brake, 0), lastCheck')
    BY <2>1, BrakedGuess DEF GuessInv
  <2> QED BY <1>1, <1>3, <2>2 DEF GuessInv
<1> QED BY <1>2, <1>3

LEMMA GuessStep == GuessInv /\ [SignIns!Next]_(SignIns!vars) => GuessInv'
<1> SUFFICES ASSUME GuessInv, [SignIns!Next]_(SignIns!vars) PROVE GuessInv'
  OBVIOUS
<1>1. ASSUME UNCHANGED <<guesses, brake>>, lastCheck' = lastCheck \/ lastCheck' = 0 PROVE GuessInv'
  BY <1>1, BrakedSlot DEF GuessInv
<1>2. CASE SignIns!Tick
  <2>1. /\ guesses' = SignIns!Older(guesses) /\ brake' = SignIns!Older(brake)
        /\ lastCheck' = IF lastCheck < Gap THEN lastCheck + 1 ELSE Gap
    BY <1>2 DEF SignIns!Tick
  <2> QED BY <2>1, BrakedTick DEF GuessInv
<1>3. CASE SignIns!Evict
  BY <1>1, <1>3 DEF SignIns!Evict
<1>4. ASSUME NEW to \in {"off", "on"}, SignIns!ChangeCard(to) PROVE GuessInv'
  BY <1>1, <1>4 DEF SignIns!ChangeCard, SignIns!counters
<1>5. ASSUME NEW reset \in BOOLEAN, SignIns!Unlock(reset) PROVE GuessInv'
  BY <1>5, BrakedNone DEF SignIns!Unlock, SignIns!ClearUser, GuessInv
<1>6. ASSUME NEW a \in Addresses, SignIns!ChangePassword(a) PROVE GuessInv'
  <2>1. UNCHANGED <<guesses, brake>> /\ SignIns!Passes(a, FALSE)
    BY <1>6 DEF SignIns!ChangePassword
  <2> QED BY <1>1, <2>1, PassesFacts
<1>7. ASSUME NEW a \in Addresses, NEW withDevice \in BOOLEAN, SignIns!RightPassword(a, withDevice)
      PROVE  GuessInv'
  <2>1. UNCHANGED <<guesses, brake>> /\ SignIns!Passes(a, withDevice)
    BY <1>7 DEF SignIns!RightPassword, SignIns!PasswordClears, SignIns!Cleared
  <2> QED BY <1>1, <2>1, PassesFacts
<1>8. ASSUME NEW a \in Addresses, NEW withDevice \in BOOLEAN, SignIns!WrongAnswer(a, withDevice)
      PROVE  GuessInv'
  <2>1. brake' = Append(brake, 0) /\ UNCHANGED <<guesses, lastCheck>>
    BY <1>8 DEF SignIns!WrongAnswer, SignIns!Failed, SignIns!RecordFail
  <2> QED BY <2>1, BrakedFail DEF GuessInv
<1>9. ASSUME NEW a \in Addresses, NEW withDevice \in BOOLEAN, SignIns!RightAnswer(a, withDevice)
      PROVE  GuessInv'
  BY <1>1, <1>9 DEF SignIns!RightAnswer, SignIns!Cleared
<1>10. CASE UNCHANGED SignIns!vars \/ SignIns!CardRefused
  BY <1>1, <1>10 DEF SignIns!vars, SignIns!counters, SignIns!CardRefused
<1> QED BY <1>2, <1>3, <1>4, <1>5, <1>6, <1>7, <1>8, <1>9, <1>10, GuessWrong DEF SignIns!Next

\* n gaps less one fit into the window: so many checks, rounded up
LEMMA GapsInWindow ==
  ASSUME NEW n \in Nat, n * Gap < Duration
  PROVE  n + 1 <= (Duration + Gap - 1) \div Gap
<1> DEFINE x == Duration + Gap - 1
           q == x \div Gap
<1>1. x \in Nat /\ Gap \in Nat /\ Gap > 0
  BY LockoutAssumption
<1>2. q \in Nat /\ x < (q + 1) * Gap
  BY <1>1
<1>3. (n + 1) * Gap = n * Gap + Gap /\ n * Gap \in Nat
  BY <1>1
<1>4. (n + 1) * Gap < (q + 1) * Gap
  BY <1>1, <1>2, <1>3, LockoutAssumption
<1> HIDE DEF q, x
<1>5. n + 1 < q + 1
  BY <1>1, <1>2, <1>4
<1> QED BY <1>2, <1>5 DEF q, x

LEMMA GuessGives == GuessInv => GuessesAreBounded
<1> SUFFICES ASSUME GuessInv PROVE GuessesAreBounded
  OBVIOUS
<1> DEFINE n == Len(guesses)
           k == (Duration + Gap - 1) \div Gap
<1>1. /\ n \in Nat /\ (\A i \in 1..n : guesses[i] \in Nat) /\ InWindow(guesses) /\ Spaced(guesses)
  BY DEF GuessInv, Braked
<1>2. k \in Nat
  BY LockoutAssumption
<1>3. CASE n <= GlobalThreshold
  BY <1>1, <1>2, <1>3, LockoutAssumption DEF GuessesAreBounded, SignIns!GuessesAreBounded, SignIns!Allowed
<1>4. CASE n > GlobalThreshold
  <2> DEFINE i == GlobalThreshold + 1
             m == n - i
  <2>1. i \in 1..n /\ n \in 1..n /\ m \in Nat /\ n = GlobalThreshold + (m + 1)
    BY <1>1, <1>4, LockoutAssumption
  <2>2. guesses[i] >= guesses[n] + m * Gap
    BY <2>1, LockoutAssumption DEF GuessInv, Braked, Spaced
  <2>3. guesses[i] < Duration
    BY <1>1, <2>1 DEF InWindow
  <2> HIDE DEF m, i, n, k
  <2>4. m * Gap \in Nat
    BY <2>1, LockoutAssumption
  <2>5. m * Gap < Duration
    BY <1>1, <2>1, <2>2, <2>3, <2>4, LockoutAssumption
  <2>6. m + 1 <= k
    BY <2>1, <2>5, GapsInWindow DEF k
  <2>7. n <= GlobalThreshold + k
    BY <1>2, <2>1, <2>6, LockoutAssumption
  <2> QED BY <2>7 DEF n, k, GuessesAreBounded, SignIns!GuessesAreBounded, SignIns!Allowed
<1> QED BY <1>1, <1>3, <1>4, LockoutAssumption

-----------------------------------------------------------------------------
(* The theorems                                                            *)

\* Whatever is routed, no request is answered by a thing of another path, past its gate or to an
\* app with an older row's cookie, and the portal's own paths stay with the portal.
THEOREM DispatchHolds == Spec => []DispatchIsRight
<1>1. DispatchIsRight
  BY NoneMisrouted DEF DispatchIsRight
<1> QED BY <1>1, PTL

\* Refreshes, settings requests, refused calls and restarts in any order: a file that could be
\* written has the rate in force, and a route in the cluster the gate and the service it names but
\* for the one object whose call failed.
THEOREM RoutesStayWhole == Spec => []RoutesAreWhole
<1>1. Init => RouteInv
  BY RouteStart
<1>2. RouteInv /\ [Next]_vars => RouteInv'
  BY RouteStep
<1>3. RouteInv => RoutesAreWhole
  BY RouteGives
<1> QED BY <1>1, <1>2, <1>3, PTL DEF Spec

\* Both at once: the right choice among the routers, and what was written of them whole.
THEOREM RoutingStaysRight == Spec => []RoutingIsRight
<1>1. DispatchIsRight /\ RoutesAreWhole => RoutingIsRight
  BY DEF RoutingIsRight
<1> QED BY <1>1, DispatchHolds, RoutesStayWhole, PTL

\* Every code, in whatever order requests read, claim, die and are repeated: an invite one account, an
\* enrollment code one workstation, the setup code one first admin.
THEOREM CodesMakeOnce == Slips!Spec /\ Setup!Spec => []MadeOnce
<1>1. Slips!Spec => []SlipsInv
  BY SlipsStart, SlipsStep, PTL DEF Slips!Spec
<1>2. Setup!Spec => []SetupInv
  BY SetupStart, SetupStep, PTL DEF Setup!Spec
<1> QED BY <1>1, <1>2, CodesGive, PTL

\* However failures, the owner's successes, card answers and evictions interleave: strangers have at
\* most the threshold's passwords of an account checked in vain in a window, and then one per gap,
\* by sign-in and password change (services/abuse.py throttled).
THEOREM GuessesStayBounded == SignIns!Spec => []GuessesAreBounded
<1>1. SignIns!Init => GuessInv
  BY GuessStart
<1>2. GuessInv /\ [SignIns!Next]_(SignIns!vars) => GuessInv'
  BY GuessStep
<1>3. GuessInv => GuessesAreBounded
  BY GuessGives
<1> QED BY <1>1, <1>2, <1>3, PTL DEF SignIns!Spec

\* A ban that was committed CacheTtl ago is answered, or the next check reads the rows again,
\* whichever checks read before it and finish after it (services/abuse.py BanCache.is_banned).
THEOREM BansAreKnown == Bans!Spec => []BanIsKnown
<1>1. Bans!Init => BansInv
  BY BansStart
<1>2. BansInv /\ [Bans!Next]_(Bans!banVars) => BansInv'
  BY BansStep
<1>3. BansInv => BanIsKnown
  BY BansGive
<1> QED BY <1>1, <1>2, <1>3, PTL DEF Bans!Spec

\* Sign-ins, invitations and removals of a provider in any order: the invite makes one account, and
\* who has no password keeps a provider.
THEOREM AccountsStayWhole == Sso!Spec => []AccountsAreWhole
<1>1. Sso!Init => SsoInv
  BY SsoStart
<1>2. SsoInv /\ [Sso!Next]_(Sso!fedVars) => SsoInv'
  BY SsoStep
<1>3. SsoInv => AccountsAreWhole
  BY SsoGive
<1> QED BY <1>1, <1>2, <1>3, PTL DEF Sso!Spec

\* All of it holds of the composed doors that MCPortal instantiates: one inductive invariant,
\* the conjunction of the parts', which a step of one part keeps of the others.
THEOREM DoorsAreSafe ==
  SpecAll => [](RoutingIsRight /\ GuessesAreBounded /\ BanIsKnown /\ MadeOnce /\ AccountsAreWhole)
<1> DEFINE Inv == RouteInv /\ GuessInv /\ BansInv /\ SlipsInv /\ SetupInv /\ SsoInv
<1>1. InitAll => Inv
  BY RouteStart, GuessStart, BansStart, SlipsStart, SetupStart, SsoStart DEF InitAll
<1>2. [NextAll]_allVars => /\ [Next]_vars /\ [SignIns!Next]_(SignIns!vars)
                           /\ [Bans!Next]_(Bans!banVars) /\ [Sso!Next]_(Sso!fedVars)
  BY DEF NextAll, allVars, signInVars, banVars, ssoVars, SignIns!vars, SignIns!counters,
         SignIns!secrets, Bans!banVars, Sso!fedVars
<1>3. [NextAll]_allVars => [Slips!Next]_(Slips!vars) /\ [Setup!Next]_(Setup!vars)
  BY DEF NextAll, allVars, slipVars, setupVars, Slips!vars, Setup!vars
<1>4. Inv /\ [NextAll]_allVars => Inv'
  BY <1>2, <1>3, RouteStep, GuessStep, BansStep, SlipsStep, SetupStep, SsoStep
<1>5. Inv => RoutingIsRight /\ GuessesAreBounded /\ BanIsKnown /\ MadeOnce /\ AccountsAreWhole
  BY RouteGives, GuessGives, BansGive, CodesGive, SsoGive DEF RoutingIsRight
<1> QED BY <1>1, <1>4, <1>5, PTL DEF SpecAll
=============================================================================
