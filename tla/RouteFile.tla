----------------------------- MODULE RouteFile ------------------------------
(***************************************************************************)
(* What Traefik routes: the routers the portal derives from its rows       *)
(* (services/route_writer.py, service_routes.py), the file it writes them  *)
(* to or the Kubernetes objects it keeps in step with them (k8s_routes.py),*)
(* and the rate-limit setting that is part of them (settings_store.py,     *)
(* routers/system_settings.py).                                            *)
(*                                                                         *)
(* A refresh reads the instances, workstations and services at three       *)
(* awaits and then hands the rows to a worker thread, which writes under a *)
(* lock: one action each.  A row is routed or not; its port, protocol and  *)
(* TLS transport are left out.  A path is a sequence of segments.          *)
(***************************************************************************)
EXTENDS Naturals, Sequences, FiniteSets

CONSTANTS
  Desks, Stations, Apps,  \* instances, workstations, proxied services
  Segment,      \* their subdomains and slugs, as path segments
  Longer,       \* pairs <<s, t>> of segments where t is s and some more letters
  ExtraPorts,   \* instances whose template has an extra port
  Focus,        \* apps mounted cookie-root, the others under a path
  Native,       \* apps with auth_mode app-native
  Denied,       \* things whose upstream Kubernetes routes must not reach
  Refreshers,   \* request handlers and loops that refresh the routes
  Lan,          \* the self-signed LAN certificate exists, and the routes are in a file
  MaxEvents     \* bound: row changes, failed calls and settings requests together

Things == Desks \cup Stations \cup Apps

ASSUME ThingAssumption ==
  /\ ExtraPorts \subseteq Desks /\ Focus \subseteq Apps /\ Native \subseteq Apps
  /\ Denied \subseteq Things
  /\ Lan \in BOOLEAN /\ MaxEvents \in Nat

\* Of RESERVED_SERVICE_SLUGS the ones some route or request here begins with
Reserved == {"api", "i", "w", "accept-invite", "_styx"}

\* A thing is of one kind, no name of a thing or a refresher means something else, and
\* no service has a reserved slug (schemas_services.py:135).
ASSUME NameAssumption ==
  /\ Desks \cap Stations = {} /\ Desks \cap Apps = {} /\ Stations \cap Apps = {}
  /\ {"api", "frontend"} \cap Things = {} /\ "nobody" \notin Refreshers
  /\ \A a \in Apps : Segment[a] \notin Reserved

-----------------------------------------------------------------------------
(* The routers                                                             *)

\* The focus cookie names a service row: after the row is created anew it has another token.
TokenOf(a) == <<a, "this row">>
StaleTokenOf(a) == <<a, "an older row">>
NoCookie == <<"none", "none">>
Cookies == {NoCookie} \cup {TokenOf(a) : a \in Focus} \cup {StaleTokenOf(a) : a \in Focus}

\* A router: "tight" rules end at a segment boundary, "cookies" are those it accepts,
\* "client" wants the X-Styx-Client header; gate is its own middleware.
Router(path, prio, svc, gate) ==
  [path |-> path, tight |-> FALSE, host |-> TRUE, cookies |-> Cookies, client |-> FALSE,
   prio |-> prio, svc |-> svc, part |-> "main", gate |-> gate]

Tight(r) == [r EXCEPT !.tight = TRUE]
OnLan(r) == [r EXCEPT !.host = FALSE]
Open == <<"none", "none">>
AuthOf(t) == <<"auth", t>>
StripOf(t) == <<"strip", t>>

DeskRouters(d) ==
  {Tight(Router(<<"i", Segment[d]>>, 50, d, AuthOf(d)))}
  \cup (IF d \in ExtraPorts
        THEN {[OnLan(Tight(Router(<<"i", Segment[d], "p", "web">>, 50, d, AuthOf(d))))
               EXCEPT !.part = "web"]}
        ELSE {})

StationRouters(w) ==
  LET r == Tight(Router(<<"w", Segment[w]>>, 50, w, AuthOf(w)))
  IN  {r} \cup (IF Lan THEN {OnLan(r)} ELSE {})

LanRouters ==
  IF Lan THEN {OnLan(Router(<<"api">>, 100, "api", Open)), OnLan(Router(<<>>, 1, "frontend", Open))}
  ELSE {}

GateOf(a) == IF a \in Native THEN StripOf(a) ELSE AuthOf(a)

\* mutant: the focus cookie is matched on the slug alone
AppRouter_AnyToken(a) ==
  IF a \in Focus
  THEN [Router(<<>>, 40, a, GateOf(a)) EXCEPT !.cookies = {TokenOf(a), StaleTokenOf(a)}]
  ELSE Tight(Router(<<Segment[a]>>, 60, a, GateOf(a)))

AppRouter(a) ==
  IF a \in Focus THEN [Router(<<>>, 40, a, GateOf(a)) EXCEPT !.cookies = {TokenOf(a)}]
  ELSE Tight(Router(<<Segment[a]>>, 60, a, GateOf(a)))

\* add_service_routes: while a focus app is enabled, its cookie takes /api with it
PortalRouters(apps) ==
  LET focus == apps \cap Focus
  IN  (IF apps = {} THEN {}
       ELSE {Router(<<"_styx">>, 90, "api", Open), Router(<<"_styx", "app">>, 95, "frontend", Open)})
      \cup {[Router(<<"api">>, 100, "api", Open) EXCEPT !.cookies = @ \ {TokenOf(a) : a \in focus}]}
      \cup (IF focus = {} THEN {}
            ELSE {Router(<<"api", "auth", "oauth">>, 101, "api", Open),
                  Tight(Router(<<"accept-invite">>, 101, "frontend", Open)),
                  [Router(<<"api">>, 100, "api", Open) EXCEPT !.client = TRUE]})

\* build_routes_config
Build(things) ==
  {Router(<<>>, 1, "frontend", Open), Router(<<"i">>, 10, "api", Open)}
  \cup PortalRouters(things \cap Apps) \cup LanRouters
  \cup (UNION {DeskRouters(d) : d \in things \cap Desks})
  \cup (UNION {StationRouters(w) : w \in things \cap Stations})
  \cup {AppRouter(a) : a \in things \cap Apps}

-----------------------------------------------------------------------------
(* How Traefik chooses: the matching routers of the highest priority        *)

Under(tight, prefix, path) ==
  /\ Len(prefix) <= Len(path)
  /\ \A k \in 1 .. Len(prefix) :
       \/ path[k] = prefix[k]
       \/ ~tight /\ k = Len(prefix) /\ <<prefix[k], path[k]>> \in Longer

Matches(r, q) ==
  /\ r.host => q.host
  /\ Under(r.tight, r.path, q.path)
  /\ q.cookie \in r.cookies
  /\ r.client => q.client

Chosen(routers, q) ==
  LET fit == {r \in routers : Matches(r, q)}
  IN  {r \in fit : \A s \in fit : s.prio <= r.prio}

Paths ==
  {<<>>, <<"api", "x">>, <<"api", "auth", "oauth">>, <<"accept-invite">>, <<"_styx", "app">>}
  \cup {<<"i", Segment[d], "x">> : d \in Desks} \cup {<<"w", Segment[w]>> : w \in Stations}
  \cup {<<Segment[a]>> : a \in Apps} \cup {<<p[2]>> : p \in Longer}
Requests == [host : BOOLEAN, path : Paths, cookie : Cookies, client : BOOLEAN]

-----------------------------------------------------------------------------
(* The rows, the readers and the writer                                    *)

VARIABLES
  k8s,       \* ROUTE_BACKEND is k8s: objects in the cluster, else a file
  rows,      \* the routable rows: running instances, online workstations, enabled services
  stored,    \* the override of the rate limit in the database
  cache,     \* and in the process, which get() reads
  file,      \* routes.yml: the rows and the rate it was built from
  cluster,   \* the managed Kubernetes objects, as <<kind, thing>>
  ref,       \* per refresher: where it is and the rows it read
  lock,      \* the refresher whose thread holds _write_lock
  sync,      \* its pass over the cluster: what is left to apply, then to prune
  admin,     \* the settings request: where it is, and the refresher it is
  unwritten, \* ghost: the last write of the file was refused
  hurt,      \* ghost: the objects of which the last call of a pass that went on failed
  events

ghosts == <<unwritten, hurt>>
vars == <<k8s, rows, stored, cache, file, cluster, ref, lock, sync, admin, ghosts, events>>

Stages == [desks |-> Desks, stations |-> Stations, apps |-> Apps]
Following == [desks |-> "stations", stations |-> "apps", apps |-> "queued"]
Nobody == "nobody"
NoSync == [apply |-> {}, prune |-> {}, failed |-> FALSE, pruning |-> FALSE]
Spend == events < MaxEvents /\ events' = events + 1
Rates == {"seed", "override"}
NoPatch == [pc |-> "idle", by |-> Nobody]

Idle == [pc |-> "idle", seen |-> {}]
Serve(r) ==
  ref[r].pc = "idle" /\ admin.by # r /\ ref' = [ref EXCEPT ![r] = [pc |-> "desks", seen |-> {}]]

\* A pod's route needs no Service object of its own; Apply goes kind by kind.
Kinds == <<"Service", "Middleware", "IngressRoute">>
BadUpstream(t) == t \in Denied
Kept(things) == {t \in things : ~BadUpstream(t)}
BackingServices(things) == {"Service"} \X (Kept(things) \ Desks)
ObjectsOf(things) ==
  BackingServices(things) \cup ({"Middleware"} \X things)
  \cup ({"IngressRoute"} \X Kept(things))
Rank(o) == CHOOSE k \in 1 .. 3 : Kinds[k] = o[1]

Init ==
  /\ k8s \in BOOLEAN
  /\ rows \in {Desks, Things}   \* MaxEvents = 3 changes lead from these to every set of five
  /\ stored \in Rates /\ cache = stored
  /\ file = [rows |-> rows, rate |-> cache]
  /\ cluster = IF k8s THEN ObjectsOf(rows) ELSE {}
  /\ ref = [r \in Refreshers |-> Idle]
  /\ lock = Nobody /\ sync = NoSync /\ admin = NoPatch /\ events = 0
  /\ unwritten = FALSE /\ hurt = {}

\* A handler or the monitor starts, stops, enables or deletes one thing, commits,
\* and refreshes the routes.
Change(r) ==
  /\ Spend
  /\ \E t \in Things : rows' = (rows \ {t}) \cup ({t} \ rows)
  /\ Serve(r)
  /\ UNCHANGED <<k8s, stored, cache, file, cluster, lock, sync, admin, ghosts>>

\* refresh_routes_from_db: the three queries, then to_thread
Read(r) ==
  /\ ref[r].pc \in DOMAIN Stages
  /\ ref' = [ref EXCEPT ![r] = [pc |-> Following[@.pc],
                                seen |-> @.seen \cup (rows \cap Stages[@.pc])]]
  /\ UNCHANGED <<k8s, rows, stored, cache, file, cluster, lock, sync, admin, ghosts, events>>

\* get: the override of the process, else the value of the environment
Effective == cache

\* build_routes_config asks the settings service while the thread holds the lock
Written(seen) == [rows |-> seen, rate |-> Effective]

\* The volume cannot be written by the backend's user: logged, and the file stays.
Unwritable == Spend /\ unwritten' = TRUE

\* _write_routes_locked
WriteFile(r) ==
  /\ ~k8s /\ ref[r].pc = "queued"
  /\ \/ file' = Written(ref[r].seen) /\ unwritten' = FALSE /\ UNCHANGED events
     \/ Unwritable /\ UNCHANGED file
  /\ ref' = [ref EXCEPT ![r] = Idle]
  /\ UNCHANGED <<k8s, rows, stored, cache, cluster, lock, sync, admin, hurt>>

\* _write_routes_k8s: take the lock, render the objects
SyncBegins(r) ==
  /\ k8s /\ ref[r].pc = "queued" /\ lock = Nobody
  /\ lock' = r
  /\ ref' = [ref EXCEPT ![r].pc = "sync"]
  /\ sync' = [NoSync EXCEPT !.apply = ObjectsOf(ref[r].seen)]
  /\ UNCHANGED <<k8s, rows, stored, cache, file, cluster, admin, ghosts, events>>

SyncOver ==
  /\ lock' = Nobody /\ sync' = NoSync /\ ref' = [ref EXCEPT ![lock] = Idle]

\* mutant: the objects are applied in whatever order
First_Any(todo) == todo

\* The objects are applied in the order of Kinds and pruned in the opposite order.
First(todo) == {o \in todo : \A p \in todo : Rank(o) <= Rank(p)}
Last(todo) == {o \in todo : \A p \in todo : Rank(p) <= Rank(o)}

\* One object: applied, refused (the pass goes on), or the API is not reached, or its answer
\* is lost (the pass ends).
Apply ==
  /\ lock # Nobody /\ \E o \in First(sync.apply) :
       \/ /\ cluster' = cluster \cup {o} /\ hurt' = hurt \ {o}
          /\ sync' = [sync EXCEPT !.apply = @ \ {o}]
          /\ UNCHANGED <<ref, lock, events>>
       \/ /\ Spend /\ hurt' = hurt \cup {o}
          /\ sync' = [sync EXCEPT !.apply = @ \ {o}, !.failed = TRUE]
          /\ UNCHANGED <<cluster, ref, lock>>
       \/ /\ Spend /\ SyncOver /\ UNCHANGED hurt
          /\ cluster' \in {cluster, cluster \cup {o}}
  /\ UNCHANGED <<k8s, rows, stored, cache, file, admin, unwritten>>

\* "a partial desired set must not delete live routes"
MayPrune == ~sync.failed

PruneBegins ==
  /\ lock # Nobody /\ sync.apply = {} /\ ~sync.pruning
  /\ IF MayPrune
     THEN /\ sync' = [sync EXCEPT !.pruning = TRUE,
                                  !.prune = cluster \ ObjectsOf(ref[lock].seen)]
          /\ UNCHANGED <<ref, lock>>
     ELSE SyncOver
  /\ UNCHANGED <<k8s, rows, stored, cache, file, cluster, admin, ghosts, events>>

\* One object: deleted, or the call fails in whatever way (the pass goes on).
Prune ==
  /\ lock # Nobody /\ \E o \in Last(sync.prune) :
       /\ sync' = [sync EXCEPT !.prune = @ \ {o}]
       /\ \/ cluster' = cluster \ {o} /\ hurt' = hurt \ {o} /\ UNCHANGED events
          \/ Spend /\ hurt' = hurt \cup {o} /\ cluster' \in {cluster, cluster \ {o}}
  /\ UNCHANGED <<k8s, rows, stored, cache, file, ref, lock, admin, unwritten>>

\* The pass is over, or the names of the next kind cannot be listed.
SyncEnds ==
  /\ lock # Nobody /\ sync.pruning
  /\ \/ sync.prune = {} /\ UNCHANGED events
     \/ sync.prune # {} /\ Spend
  /\ SyncOver
  /\ UNCHANGED <<k8s, rows, stored, cache, file, cluster, admin, ghosts>>

-----------------------------------------------------------------------------
(* The settings                                                            *)

\* set or reset of the rate limit: the row is pending, the cache is not
PatchBegins(r) ==
  /\ admin = NoPatch /\ Spend
  /\ cache' = CHOOSE v \in Rates : v # cache
  /\ Serve(r)
  /\ admin' = [pc |-> "refresh", by |-> r]
  /\ UNCHANGED <<k8s, rows, stored, file, cluster, lock, sync, ghosts>>

\* a later setting of the body does not validate
Refused == Spend /\ admin' = NoPatch

\* Its refresh is awaited within the request; then the other settings of the body
\* are set, and when one is refused the request ends with nothing committed.
PatchGoesOn ==
  /\ admin.pc = "refresh" /\ ref[admin.by].pc = "idle"
  /\ \/ admin' = [admin EXCEPT !.pc = "commit"] /\ UNCHANGED events
     \/ Refused
  /\ UNCHANGED <<k8s, rows, stored, cache, file, cluster, ref, lock, sync, ghosts>>

PatchEnds ==
  /\ admin.pc = "commit"
  /\ stored' = cache /\ admin' = NoPatch
  /\ UNCHANGED <<k8s, rows, cache, file, cluster, ref, lock, sync, ghosts, events>>

\* The process ends at any point and boots: reload, then the boot refresh.
Restart(r) ==
  /\ Spend
  /\ cache' = stored
  /\ ref' = [[x \in Refreshers |-> Idle] EXCEPT ![r].pc = "desks"]
  /\ lock' = Nobody /\ sync' = NoSync /\ admin' = NoPatch
  /\ UNCHANGED <<k8s, rows, stored, file, cluster, ghosts>>

Next ==
  \/ \E r \in Refreshers :
       Change(r) \/ Read(r) \/ WriteFile(r) \/ SyncBegins(r) \/ PatchBegins(r) \/ Restart(r)
  \/ PatchGoesOn \/ Apply \/ PruneBegins \/ Prune \/ SyncEnds \/ PatchEnds

Spec == Init /\ [][Next]_vars
-----------------------------------------------------------------------------
(* Properties                                                              *)

Portal == {"api", "frontend"}
PathOf(t) ==
  IF t \in Desks THEN <<"i", Segment[t], "x">>
  ELSE IF t \in Stations THEN <<"w", Segment[t]>> ELSE <<Segment[t]>>

\* What may answer request q.
RightAnswer(r, q) ==
  /\ r.svc \notin Portal => r.gate = GateOf(r.svc)
  /\ r.svc \in Focus => q.cookie = TokenOf(r.svc)
  /\ r.svc \in Things \ Focus => q.path = PathOf(r.svc)
  /\ q.path \in {<<"api", "auth", "oauth">>, <<"accept-invite">>, <<"_styx", "app">>}
       => r.svc \in Portal
  /\ q.path[1] = "api" /\ (q.client \/ q.cookie \notin {TokenOf(a) : a \in Focus})
       => r.svc = "api"

Misrouted(things, q) ==
  q.path # <<>> /\ \E r \in Chosen(Build(things), q) : ~RightAnswer(r, q)

\* The rows under which some request is answered wrongly
MisroutedRows ==
  {m[1] : m \in {n \in (SUBSET Things) \X Requests : Misrouted(n[1], n[2])}}

\* Whatever the rows in the file, Traefik's choice among the routers is right: nothing
\* of a desktop, workstation or app is served without its own gate, nor to the path of
\* another (segment boundaries, priorities), a focus app is reached with the cookie of
\* its present row only, and sign-in answers, invites and the portal's own calls never
\* leave the portal (route_writer.py:22-24, service_routes.py:72-80, 114-134).
DispatchIsRight == file.rows \notin MisroutedRows

\* Refreshes may overtake one another with older rows, but the rate limit in the file
\* is the one in force whenever none is under way: it is read under the lock
\* (route_writer.py:66, settings_store.py:296-299).  It is not said of a file that could not
\* be written the last time.
RateIsLive == ~unwritten /\ ~k8s /\ (\A r \in Refreshers : ref[r].pc = "idle") => file.rate = cache

\* No route is in the cluster without the gate and the service it names, after passes that
\* were refused an object, lost the API, or were cut by a restart in the middle, unless the
\* last call of that very route, gate or service failed (k8s_routes.py:193-231).
RouteHasItsParts ==
  \A t \in Things : <<"IngressRoute", t>> \in cluster \ hurt =>
    /\ <<"Middleware", t>> \in cluster \cup hurt
    /\ t \notin Desks => <<"Service", t>> \in cluster \cup hurt

\* What was written is whole, whoever refreshed last: the rate and the parts of each route.
RoutesAreWhole == RateIsLive /\ RouteHasItsParts

\* What is routed, and what is written of it
RoutingIsRight == DispatchIsRight /\ RoutesAreWhole

-----------------------------------------------------------------------------
(* Sentences of the code and its documents that the model refutes (README) *)

\* With nothing under way the file routes the rows ("Query running/idle instances and
\* (re)write the Traefik routes file", route_writer.py:353).
FileIsRows == ~k8s /\ (\A r \in Refreshers : ref[r].pc = "idle") => file.rows = rows

\* With nothing under way the rate limit in force is the one of the file ("set" changes the
\* process and rewrites the routes at once, settings_store.py:296-299).
RateIsAlwaysLive == ~k8s /\ (\A r \in Refreshers : ref[r].pc = "idle") => file.rate = cache

PlainVisit(t) == [host |-> TRUE, path |-> PathOf(t), cookie |-> NoCookie, client |-> FALSE]

\* Every routed desktop, workstation and path app answers its own path
\* ("path services get Path(/slug) || PathPrefix(/slug/)", service_routes.py:4).
RoutedIsReached ==
  \A t \in file.rows \ Focus : \A r \in Chosen(Build(file.rows), PlainVisit(t)) : r.svc = t
=============================================================================
