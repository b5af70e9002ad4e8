# Styx Portal in TLA+

Models of the Styx Portal, its workstation agent and the shell around its apps, checked
with TLC; their safety properties are proved with TLAPS for every value of the constants.
The portal launches desktop containers, fronts LAN services and workstations behind one
sign-in, and runs as one asyncio process over one SQLite file, one Docker daemon or
Kubernetes cluster, and one Traefik; the agent supervises the streaming stack of a
workstation. Their hard behaviour is what happens *between awaits*: handlers that load a
row, wait and then write; background passes over the same rows; files and sockets through
which processes talk; and processes that can be killed between any two steps.

Run a model with `tlc -config X.cfg MCX.tla`, the proofs with `tlapm XProofs.tla`.
`PROJECT.json` lists every run, the source lines of every definition, the hazards the
properties are about, and for each property one plausible bug that breaks it (definitions
marked `mutant:` in the modules).

## The system and what is modelled

| Component | State it keeps | What is hard | Module |
|---|---|---|---|
| Managed base path (`mount_jobs.py`, `service_mounts.py`) | `mount_jobs` rows, backups, the app's settings file | a crash between any two steps, partial writes, a service moved or deleted under a job | `MountJob`, `MountJobProofs` |
| Instance lifecycle (`instances.py`, `session_monitor.py`, `background_loops.py`), profiles | `instances` rows, containers | no row locks, stale loads, Docker failures, crash | `InstanceLifecycle`, `InstanceLifecycleProofs` |
| Login sessions (`auth.py`, `users.py`, `deps.py`) | refresh families, `token_version` | rotation races, revocation against requests under way | `SessionFamily`, `SessionFamilyProofs` |
| Workstation seat, session log (`agent.py`, `workstations.py`, `stream_sessions.py`) | occupancy, one-shot disconnect, open sessions | heartbeats against requests, lost answers | `WorkstationSeat`, `WorkstationSeatProofs` |
| Agent gateway, refit, game mode (`gateway.py`, `viewers.py`, `refit.py`) | viewers, owner of the size, request file | reconnects, timers, a refit that cuts every socket | `Gateway`, `GatewayProofs` |
| Agent supervisor (`styx_agent.py`, `agent_procs.py`, `seat_gnome.py`) | child processes, settings, port file | partial restarts, standby promotion, deaths in any order | `Supervisor`; labwc seats in `LabwcSeat` |
| Agent updater (`agent_updater.py`, `agent_update.py`) | install directory, backup, order | a crash in the swap, lost and late reports | `AgentUpdate` refines `UpdateContract` |
| Seat helper, clipboard, keys, TURN counting | monitor size and scale, selections, held keys, counters | files and D-Bus calls that are late, doubled or swapped | `SeatHelper`, `SeatClipboard`, `ClipboardBridge`, `KeyOrder`, `RelayMeter` |
| Routes and the setting in them (`route_writer.py`, `service_routes.py`, `k8s_routes.py`, `settings_store.py`) | the routes file or objects, the cache | overlapping refreshes, half-done passes, priorities | `RouteFile` |
| Failed sign-ins, cards, bans (`abuse.py`, `login_flow.py`) | counters, bans, their cache | budgets that expire at different times, stale snapshots | `SignIn`, `BanCache` |
| Invites, enrollment, first setup (`single_use.py`, `enroll.py`, `setup_token.py`) | one-use rows, the code's file | two redeemers, failed winners | `SingleUse`, `FirstSetup` |
| Identity providers (`federation.py`, `oauth.py`) | accounts, links, invites | an invite redeemed two ways, unlinks and deletions under a sign-in | `Federation` |
| Forward auth, app shell, sign-in page (`services_auth.py`, `safe_next.py`, `frontend/src/shell`, `LoginPage.tsx`) | the focus cookie, the tab, its frame | redirects between parts that each see half | `AppShell` |
| Kubernetes desktops, image pre-pull | Deployment, row, waiter; DaemonSets | status of the rollout before, overlapping syncs | `Readiness`, `Prepull` |
| Screenshots, health and icons, tunnel pods, migration | networks, rows, sets in memory, columns | overlapping captures, results for edited rows, threads, half-done boots | `CaptureNets`, `ServiceChecks`, `TunnelPeers`, `Schema` |

`Agent`, `Portal` and `Services` put machines of one process side by side (`Agent`: updater,
supervisor, relay meter, seat, clipboards, keys; `Portal`: routes, sign-in, bans, codes, setup,
providers; `Services`: captures, readiness, checks, pods, pre-pull, migration, shell). Each has
an `MC` module that bounds it for TLC and a `Proofs` module.

They interact through rows (a service edit under a mount job, a deletion under a launch, a
logout that frees a seat), through Docker names, through the routes file, through the
heartbeat, and through the process: every request, task and loop of the portal shares one
event loop and dies with it. `SingleUse` and `Federation` share the SQLite discipline (a read
outside any transaction, one write lock from the first write to the commit); `CaptureNets`
feeds the snapshot that `TunnelPeers` reads around; `RouteFile` decides what reaches the
forward auth that `AppShell` starts from; `WorkstationSeat` and `AgentUpdate` ride on the
same heartbeat.

Sentences of the code and its documents that a model refutes stand in the last section of
its module, with the line they come from. They can be reproduced by adding the definition to
the cfg as INVARIANT or PROPERTY (the small modules have no cfg of their own: add it to the
`MC` module that instantiates them, as its other properties are). Each is a finding in
`PROJECT.json`; `instance_delete` is one that has a run. `EveryOrderIsCarried` is refuted under
`SeatOrders.cfg`, `AlwaysEnds` under `Services.cfg`, `SessionsDoNotGuess` under `Portal.cfg` with
`MaxCardGuesses` at 4.

## MountJob: writing a base path into an app's settings file

A settings file is abstracted to the base path it holds: a service's slug, the app's own
default, the preset's template, garbage, or nothing. One action is one stretch between two
awaits of `mount_apply` or `run_job`; a job's `pc` names the next stretch. `ApplyBegin` is
the per-service lock with the 409 check, `ApplyPlan` the plan, `ApplyInsert` the row and the
new task, then `Preflight`, `Backup`, `BackupSave`, `Edit`, `Write`, `Restart`, `Verify`,
`Manage`, and on any failure `Rollback`, `Undo`, `Undone`. `WriteFail` and `Undo` may leave
the old text, the new text or garbage. `Crash` empties the process at any point and `Boot`
runs `sweep_interrupted`. `UpdateService`, `DeleteService`, `PlanMount` and `AppWrites` are
the rest of the world. Database commits are taken to succeed.

* `mount_job` (two services on two containers, two applies, one crash, one edit by others,
  one backup kept): one unfinished job per service; a running job's backup survives pruning;
  a finished job left its file new (`done`), restored (`rolled_back`) or flagged with a
  backup (`failed`).
* `mount_job_ends` (one service): every accepted apply ends and frees the service, through
  crashes. Fairness is weak, per job: asyncio runs ready tasks, Docker calls return or time
  out and the verify loop has a budget; and on `Boot`, since compose restarts the backend.

Two jobs are enough for every pairwise race, and one crash and one edit for every place one
can fall; the proofs cover any number.

**Proved** (`MountJobProofs`, for all constants): `TypeOK`, `OneActiveJob`, `ChangeIsMarked`
(every file a job changed belongs to a job marked `changed`), `RestorePossible`,
`NoHalfChange`. None but the type is inductive alone. `IInv` adds that a
lock is held exactly through a request's critical section (`LockHeld`), that a row's state
follows its task's place (`RowMatchesPoint`), that `changed` and the backup are saved around
the write (`MarkedAroundWrite`), that the last writer of a file is a job past its write
(`WriterPastWrite`) and that a running job's backup is the newest directory, which is what
survives pruning because jobs of a service do not overlap (`BackupIsNewest`). Assumed: at
least one backup is kept, and the markers are distinct from slugs.

## InstanceLifecycle: desktops between handlers, monitor and Docker

Rows are `status`, `cid`, `age`; Docker is `box` (each container's state), `made` (for which
instance) and `isolated`. A request walks through the Docker calls of its handler; what its
session loaded stays in `req` until the commit, which, as the ORM does, writes only the
columns that differ from the loaded ones and fails when the row is gone. `create` starts the
launch task. The monitor loads all rows, visits them one by one and commits once. `Crash`
ends every request and the pass; `Boot` is the boot reconcile, with and without Docker.
Time is the age of the last activity: recent, past the idle timeout, past the grace period.

* `instances` (one desktop, two overlapping requests of any kind, one crash, one Docker
  failure or death): no container runs before it is moved off the portal network; a row in
  use names its own container; after a boot with Docker no row claims a dead desktop; a dead
  desktop is noticed; an idle one past its grace period stops. Fairness is weak on the
  monitor's steps and on the boot only: both are endless loops of the process. Two requests
  reach each pairwise race, and three containers cover the first one and one new one each.
* `instance_delete` shows a desktop deleted during a launch or start leaving its container.

**Proved** (`InstanceLifecycleProofs`, for any desktops, requests, crashes and faults):
`RowNamesItsBox`, `StartedIsIsolated` and the action property `BootAgrees`. A row's container id is
used by handlers that loaded it long before, so `RowNamesItsBox` needs to know what every request
and the monitor hold: `NameInv` has, per handler and place in it, which loaded values can still be
committed (`CallInv`), that a container a request will make is in no row yet, that one
request at a time inserts a given row, and that the monitor's verdicts are about rows that had a
container. It holds because a row that has named a container names one until it is deleted, and
an id is never created again. `IsoInv` adds that a request about to start a box holds an
isolated one. Assumed: a marker that is no container, and a name of its own for each container.
Liveness (`DeathNoticed`, `IdleStops`) stays with TLC.

## SessionFamily: refresh-token families

A jti stands for the refresh, access and proxy tokens minted together. A request carries an access
and a refresh cookie (`acc`, `tok`), and nothing says that both are of one session or one user:
`change_password` takes the user from the first and the session to continue from the second. Each handler is a
`...Load` (what it read) and a `...Write` (its first write to its commit): SQLite has one
writer and readers see committed rows, so writes are atomic and only reads get stale.
`Rollback` is any error or crash before the commit. `refresh` is `RefreshReused`,
`RefreshRefused`, `RefreshTooOld` or `RefreshRotates`; the atomic claim is a test of `revoked`
at the write. `token_version` is read at the load and written back, as the code does.
`ended` records what was ended on purpose, as pairs of a family and a user: with two people's
cookies a password change puts its row into the other's card session (a finding), and from then on
one family has a part of each. `epoch` and `resets` are the sign-ins before a reset.

* `sessions` (two accounts, one signed in, three tokens, three requests of any kind): a user has at
  most one live token in a family; a user's part of a family that was ended never redeems or opens
  an app again, except that a password change from a card session goes on in its family; a part
  nobody ended always has a live token. Three requests reach a race of two with a third that ends
  the session, and a sign-in of the other account whose cookie is then mixed in.

**Proved** (`SessionFamilyProofs`): these, `TypeOK` and `FamilyHasOneClass` (a family has one
lifetime class, though not one owner), for any number of users, tokens and requests. They are proved
together: a new family starts clean only because families are named by issued tokens
(`Rooted`), what is ended is always a user's whole part of a family, so that no token of it is left
live (`EndedRevoked`), and a request's cookies are of issued tokens, a refresh's of its owner
(`ReqOwns`). Every action is one of three kinds, each with its lemma: it touches no token
(`QuietKeeps`), ends whole parts (`EndsKeeps`) or issues one token (`IssuesKeeps`). Assumed: a marker that is no
token, and at least one user.

Left out: expiry (it only refuses more) and forced password change.

## WorkstationSeat: who is on a workstation

The portal learns of streams from the agent's heartbeat only, and of people from the forward
auth of a websocket. `row` holds the columns both write. A request is a `...Load` and a
`...Write`, a heartbeat `BeatSend`, `BeatLoad`, `BeatWrite`, `BeatAnswer`; `Flush` writes
what differs from what was loaded, as the ORM does, so that a flag set between the two
halves survives. `BeatLost` is the agent giving up after 15 s: the call is lost, still under
way, or its answer is. A connection count is zero or not, the only thing the code asks of
it; a takeover grant is part of the request that uses it. The gateway is external here: a set
of live streams, emptied by its restart. `doomed` records the streams live when a drop was
asked for.

* `seat` (two users, one an admin; a desktop that is free; two requests of any kind, one account
  disabled, one lost heartbeat, three of these in a run): the log never shows two people on one
  desktop and ends up equal to the occupancy; an unused desktop becomes free. Three events
  reach every pair of racing writers with a heartbeat between them, and a third that disturbs it.
* `seat_orders` (a desktop in use, three requests, no lost heartbeat): an order to drop the
  streams is carried out. Three requests are an order, one that overtakes it and one that dials.

Fairness is weak: asyncio runs a handler to its end, the agent's loop sends heartbeats for ever,
a dialled websocket opens or fails. Nothing is assumed of users or admins.

`DropsArrive` excludes two things by name. A lost answer: the flag is cleared in the commit that
precedes it. And a repeated order (ghost `again`): a logout or kick that loaded the flag TRUE, set
by an earlier order, assigns TRUE again, which the ORM does not write; when a heartbeat took the
flag in between, what was dialled since the gateway's restart lives on (`EveryOrderIsCarried`, refuted).

**Proved** (`WorkstationSeatProofs`): `TypeOK`, `OneOpenSession` and `DropIsCarried` (a
requested disconnect is in the row or in the next answer, but for the two cases above), for any
number of users, requests and heartbeats. The last one is not inductive alone: it needs `FlushRow`, that a write leaves
alone the columns its handler did not change, and `OneCall`, that until a heartbeat is lost
the call under way is the one the agent waits for, so its answer is read. Assumed: a marker
that is no user, an occupant at the start who is a user or that marker, and more calls than can be
lost.

Left out: deregistering a workstation, deleting and demoting a user (they kick like `Disable`).

## Gateway: who drives a GNOME seat, and at which size

An action is what a handler does from one await to the next: dial, busy check, open, claim
of the size, request of a refit, the cut of every socket, the timers that settle a size or
expire a tab. The agent's half of the refit (`TakeRequest`, `FinishRefit`) is in the module.
A size stands for all within the tolerance of one another, a scale for a dpi.

* `gateway` (two tabs that drive, one of them with two sockets, and one that watches, four
  sockets): the size is never owned by a tab that is gone or only watches, and while
  someone drives somebody owns it. The two sockets of one tab are a reconnect that overtakes
  the end of the old one, the case the code's hold and grace are for.
* `gateway_ends` (two tabs; one disturbance, `MaxEvents` 1: a window resized, a scale picked,
  game mode, a failed refit, a closed tab, a dropped socket): `GeometryConverges`, the
  desktop ends at its owner's size and its stream at the scale chosen. Fairness is weak, on
  handlers, timers and the agent: asyncio and the agent's loop run on, and the page of an open
  tab reconnects and resends its size.

**Proved** (`GatewayProofs`): `OwnerIsKnown`, for any tabs and sockets. It is inductive together
with the order of the known viewers being one without repetition and holding every tab with an
open socket (`Ordered`); lemmas say what appending to that sequence and taking one out of it keep.
Assumed: the tabs that only watch are tabs, every socket is of a tab, and a marker that is neither
tab nor size. `GeometryConverges` is liveness and stays with TLC.

## Supervisor: the agent's loop over a GNOME seat

The loop is sequential, one action per part of a pass: apply settings, check the seat, start
processes, watch for starving streams, heartbeat, wait, refit. Around it processes die or
hang, viewers come and go, settings are pushed, the gateway leaves its files, the agent dies.

In the `agent` run (any two faults and pushes; two restarts escalate, two missed probes mark the
seat): `ProcessesAreCurrent`, no process stays on replaced settings unless its restart is
due and the port file names the live selkies; `SeatComesBack`, a live selkies over a live
seat comes again and again, and no GNOME that hangs with Xwayland stays. Fairness is weak
on the loop, which never ends, and on the grace of a restarted selkies, which is only time.
Two faults are one in the handling of another; the thresholds of two are the smallest at
which counting can go wrong.

**Proved** (`AgentProofs`): `ProcessesAreCurrent`, with `LoopInv`: whatever runs on replaced
settings is due (`Due`), the standby never has the live port, and the file names the live selkies
once the pass is past publishing it. Assumed: the thresholds are positive. `SeatComesBack` is
liveness and stays with TLC.

## The `agent` run: the smaller machines beside the loop

The parts named by `part` in `Agent` share no state and each is checked alone: a behaviour
is one of one machine, the others keep their first state. It is one run because each machine
is small; the loop of the section before is one of them. `Portal` and `Services` are built the same way.

* `AgentUpdate` (two files, two orders, one crash, one late confirmation): order, staging,
  swap file by file, gate, restore, the full install, heartbeats lost or late.
  `KeepsContract` shows that it implements `UpdateContract`, where an update is one step from
  old to new and perhaps back and the outcome tells which; the refinement maps a directory
  in the middle of swap or restore to what it was. A power loss during an update promises
  nothing, by name. `RowConverges`: the portal's row ends at what the updater left. Strong
  fairness is for heartbeats that are not lost for ever, weak for the rest.
* `RelayMeter` (one page; ages to 3, idle 2, grace 1, two relayed units, two restarts): a
  page is cut after its time however often it reconnects (`SessionIsCut`), and no byte is
  counted twice (`CountedOnce`); the run checks the two as `RelayIsMetered`. A page is one load of
  it: the id of the session is drawn at the load, so that a reload is another page here and a
  new session in the code, which no limit holds (a finding).
* `SeatHelper` (three sizes, three refits, two deaths, two scales) and `LabwcSeat` (four socket
  slots, four faults): `SeatIsLive`, between refits the monitor has the recorded size and
  scale, and after a pass selkies, shell and bridge are at each other's sockets. Exempt, by
  name: a helper that found the request file of one that died (`left`), a scale that Mutter refused
  or that could not be recorded, which is logged and not tried again (`failed`;
  `EveryScaleIsLive` is refuted), and waits that found another session's socket. Three refits and two deaths are what it takes for such a file to be
  found after the refit it was written in is over.
* `SeatClipboard` (four copies, two servers): the newest session is served, with the
  selection of now. `ClipboardBridge` (four copies, two failing calls; weak fairness of the
  mirror's poll): both sides end with the same text. `KeyOrder` (two keys, six events): no
  key stays down.

**Proved** (`AgentProofs`): `KeepsContract`, `SessionIsCut`, `CountedOnce`, `SeatIsLive`,
`ClipboardIsCurrent` and `NoKeyStuck`.

* The refinement needs `UpdateInv`: who says what (the agent and its heartbeats speak for the
  version that runs, `SpeaksForItself`), and, until a power loss, which versions are installed and
  backed up at each place of the updater (`Installs`, `Halfway`); with it every step is one of the
  contract or a stutter (`UpdatesKeepTheContract`). Assumed: the file that names the version is one
  of the files.
* `CutInv` relates a page's uninterrupted streak to the age of the session kept for it; `MeterInv`
  that counted, sent and still to be sent units are covered by what the sessions have credited or
  forgot. Sums over pages are sizes of sets of units, so that no induction is needed. Assumed:
  finitely many pages, limits that are numbers.
* `HelpInv`: while a helper lives, the ready file names the awaited size only when the monitor has
  it. `LabwcInv`: from the wait that found selkies' socket on, labwc and the
  bridge are built on that one, and labwc's is right from the wait that found it on. Assumed: sizes are not the marker of no request, slots are numbered.
* `ClipInv`: a server's own copy is the selection, or a signal that tells it otherwise is on its
  way behind those it skips. `KeyInv` gives every place on the wire, for every key, a mark of what the
  events before it leave in Mutter: the first fits Mutter's state, and the last one of a key the
  viewer does not hold means up. Two events that change places change the mark between them.

## The `portal` run: the portal's doors

* `RouteFile` (two desktops of which one name begins with the other, a workstation, a path
  app and a focus app, two refreshers, three changes): `DispatchIsRight`, Traefik's choice
  among the written routers gives every request to the right thing with its own gate;
  `RoutesAreWhole`, the rate limit in the file is the one in force and in a cluster no route is
  without its parts; the run checks the two as `RoutingIsRight`. Exempt, by name: a file whose last
  write the volume refused, which is logged only (`unwritten`; `RateIsAlwaysLive` is refuted), and
  the cluster's objects whose own last call failed (`hurt`), until a pass gets through.
  Segments are sequences and priorities numbers, so the choice is computed, not assumed.
* `SignIn` (two addresses; all thresholds, windows and gaps 2; four failures): a bound on the
  passwords that sign-in and password change check in vain, however lockout, brake, trusted
  devices, cards and clears interleave. The handlers of the matrix card check the same password
  with no bound (`CardRefused`; `SessionsDoNotGuess` is refuted). `BanCache` (one address, two overlapping checks; threshold and window 2, ban 3,
  TTL 2): a ban is known at the latest one TTL after its commit.
* `SingleUse` (two requests, one invite, two enrollment codes) and `FirstSetup` (two
  requests, three codes): `MadeOnce`, each code makes one thing, the setup one admin, and who
  holds the claim gets through. `Federation` (two identities, two callers, two accounts):
  an invite makes one account, and no account is left without a way to sign in, except one
  that unlinked two providers at once.

**Proved** (`PortalProofs`): all six, for any things, addresses, thresholds, codes and accounts.

* `DispatchIsRight` is a fact of every set of routed things: among the rules that match a path,
  the one of the highest priority leads to a thing the path (or the cookie) names. It rests on
  what the schema and the code keep apart: no service has a reserved slug (`Reserved`,
  `RESERVED_SERVICE_SLUGS`), things of different kinds have different names (`NameAssumption`).
* `RoutesAreWhole` needs what a pass over the cluster has still to apply and to prune
  (`PartsInv`): it goes by kinds, middlewares and services before the routes that use them.
* `GuessesAreBounded` needs that the brake has a failure for every guess of the window and no
  older one, so that it is over its threshold when the guesses are (`Covers`), that the guesses
  beyond the threshold lie a gap apart (`Spaced`), and that old entries leave at the front.
  Assumed: a duration and a gap of at least one (`LockoutAssumption`).
* `BanIsKnown` needs that a snapshot or a reading, stored or still on its way, knows every ban
  that was committed before it was read (`Knows`).
* `MadeOnce`: who claimed holds the write lock and its row still reads free (`SlipsInv`, with a
  pigeonhole for the names), and one request at a time is between counting the users and leaving
  the setup lock (`SetupInv`). `AccountsAreWhole`: one claim of the invite, and no two requests
  unlinking an account that was not raced (`InviteInv`, `LoginInv`). Assumed: no request bears
  the name that says a lock is free.

## The `services` run: beside the requests, and the apps' door

* `CaptureNets` (two captures, two users, one stop): no capture takes the portal off its own
  network or leaves what another one joined, and it is on a user's only for a capture that
  will leave, or as one left it behind: a failed disconnect, a connect whose answer is lost, a
  cancelled task, a stop (`behind`; `NothingIsLeft` is refuted).
* `Readiness` (one handler, two waiters, timeout 1, two operations, one restart): a
  Deployment is not called ready by the pod before, and a row does not stay starting. Weak
  fairness of time, of a handler once begun, and of the waiters.
* `ServiceChecks` (one fetch, one edit at a time, two upstreams, one flip): an edit loads the
  row, waits and writes what it changed, as the ORM does. A chosen icon stays, except two cases by
  name: a refresh by hand beside or after the choice, and an edit that chooses the icon it found
  while a fetch stores another (`PickIsStored` is refuted). Health ends right.
  Strong fairness says that a pass does not fail for ever. `Prepull` (two images, two syncs,
  one change, two failures): wanted images end with their DaemonSets, under weak fairness of
  the nightly pass. With the end of starting, these are `LoopsCatchUp`.
* `TunnelPeers` (two addresses, two threads, TTLs 3, 1 and 2, two moves): a pod once listed is
  never taken for a client. Each read and write of the module's sets is a step of its own.
* `Schema`: a serving portal finds every column, and values where its models need them,
  after boots that died and older portals that wrote in between.
* `AppShell` (a path app, a focus app that may be framed and one that may not, three moves of
  user, other tabs, admins or clock): a browser tab, its pending navigation, the focus cookie, the
  shell with its frame and queries, and the login page with its ends: password, card, provider,
  a dismissed error, a forced password change. The portal's own pages and the apps' check do
  not accept the same sessions: the first look at `session` only, the second at `Accepts`, which
  refuses one that must change its password. Only this tab signs in.
  `NavigationEnds`: no two redirects send each other round for ever, except a path app with
  `/login?next=` for such a session (`GoesRound`), the loop which refutes `AlwaysEnds` and is a
  finding. `ShellIsTrue`: at rest the frame shows the app and page its address names and never
  the portal, unless the services or the cookie changed under it (`moved`); and who signs in again
  is back where the session ran out, unless the way back was left (`lost.astray`): through a
  provider, Dismiss or a forced change, by the link of a path app's frame while a focus app's
  cookie is set, or from a shell that was about to open its app again. Weak fairness on the
  browser's own steps: it follows redirects and runs the page's effects. Three moves reach an
  expired session with a cookie another tab changed, and a forced change in an open app. An app
  whose own sign-in is at `/login` makes the first property false (`OwnLogin`), which is a finding;
  the run has none.

**Proved** (`ServicesProofs`): the six invariants, for any captures, waiters, fetches, pods,
columns and apps.

* `NetsAreKept`: a capture never notes the portal's own network as joined, and every step that
  drops a note without leaving puts the network among those left behind. `ReadyIsNew`: the controller never has observed a later generation than was
  written, and what it says of the latest is about the latest. `ChosenStays`: while a refresh by
  hand runs no choice counts, an edit under way knows whether one ran beside it (`clean`), and any
  other fetch looks at `icon_custom` in its UPDATE. A deleted service's row stays at its last upstream and one
  not yet created is at its first: these must differ (`MaxEditsAssumption`).
* `PodIsNoClient`: one lookup at a time, so no answer that is stored is older than the set it
  replaces. `RowsAreWhole`: what the boot has still to add and fill (`TablesInv`): past its backfill
  a column has no NULL, whoever wrote rows before, and one with a DEFAULT never has any.
* `ShellIsTrue`: `FrameInv`, that the navigation in the frame is the one for the shell's address,
  and `ReturnInv`, that from the end of a session on the page is carried by one of nine places on
  the way back (`OnTheWay`) until that way is left. It holds with any app in `OwnLogin`. Assumed (`NoAppAssumption`): a
  service is a path app or a focus app, not both, and the markers are no apps.

## What is proved and what is only checked

Every safety invariant a run checks is a theorem of its specification, for all values of the
constants; so are the action property `BootAgrees` and the refinement of
`UpdateContract`. Eight modules hold the theorems, listed in `PROJECT.json`. The argument is the
same each time: an inductive invariant, one lemma that it holds at the start, one that a step
keeps it (a case or a lemma per action), one that it gives the property, and a last temporal
step. `DoorsAreSafe`, `AgentIsSafe` and `ServicesAreSafe` conclude the same for the compositions
the runs check. Parameters have the assumptions stated with them in the modules, and TLC
evaluates those in every run.

Three proof attempts failed for a reason and changed a model:

* `ShellIsTrue` did not hold beyond three moves: with the focus cookie changed under a shell that
  is about to open its app again, a session that ends there loses the page (a finding). The
  bound of the run is too small for it; the property now says so by `lost.astray`.
* `SeatIsLive` failed for a request file left by a helper that died between two refits; the ghost
  was too narrow and the bounds of two refits and one death hid it (`left`).
* `KeepsContract` needs that the file naming the version is among the files, and
  `ClipboardIsCurrent`, `DispatchIsRight` and others the assumptions above, which TLC's
  constants met without saying so.

Only checked by TLC, within the bounds above: liveness under fairness (`JobEnds`, `DeathNoticed`,
`IdleStops`, `DropsArrive`, `LogSettles`, `SeatFreed`, `GeometryConverges`, `SeatComesBack`,
`RowConverges`, `SidesMeet`, `NavigationEnds`, `LoopsCatchUp`), which the prover cannot handle
(no fairness, no ENABLED). No module declares a RECURSIVE operator.

## Noted while reading, without a property

* `change_role`, `disable_user` and `delete_user` count admins before they write (`users.py:101`).
* `token_version` is incremented in memory: two bumps at once count as one (`users.py:162`).
* Hourly samples wait in memory and are lost with the process (`metric_rollup.py:70`).
* `_release_container` looks before a thread disconnects (`services.py:130`).
* The quota is counted before the row is inserted, over awaits (`instances.py:285`); a crash
  after a launch saved its container leaves the row starting until the next boot
  (`instances.py:236`); a recreate leaves out a status the monitor changed (`instances.py:501`).
* The monitor decides from the activity it loaded: a desktop kept alive after that is stopped
  all the same (`session_monitor.py:44`).
* A file planned as missing is not looked for again before it is written (`mount_jobs.py:215`);
  the design asks to poll "until 2xx" where `_verify` accepts 200 to 399.
* A password change from a card session continues a family that a logout ended meanwhile
  (`auth.py:392`; `EndedStaysDead` excludes it by name).
* Revoking or purging a workstation leaves its open session in the log until the backend restarts.

## Not modelled, and why

* Configuration text: menus and wallpaper of labwc (`seat_labwc.py`), command lines
  (`engine.py`), Pydantic schemas, `config.py`, Kubernetes object bodies, nginx templates.
  They hold no state; what the models need of them is in the definitions that use them.
* Media and pictures: capture and encoding of screenshots and thumbnails, icon search in a
  page, card drawing. Pure computation on data the properties do not tell apart.
* The OAuth exchange and token encoding: external or cryptographic, taken as a verified
  identity and an unforgeable token.
* Bypass rules, identity headers and the characters a `next=` may have: decisions on strings.
* The sliding window of requests, Cloudflare's TURN figures, hourly and daily sums: sums
  without an interleaving besides the ones noted above.
* The web frontend apart from the shell and the way of `next=` through the login page;
  groups, templates, audit and registry CRUD, LAN certificates, deployment.

## Plan

1. Abstract specifications for `MountJob` (one atomic commit or restore) and for
   `InstanceLifecycle` (the documented state diagram), checked as properties, then proved.
2. Composition of `Gateway` and `Supervisor` over the request file, which `Gateway` now meets
   with its own short model of the agent.
3. The safety halves of the liveness properties as theorems: that a finished apply stays
   finished, that a closed session is not opened again.
