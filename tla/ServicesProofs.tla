---------------------------- MODULE ServicesProofs ---------------------------
(***************************************************************************)
(* Proofs about the machines of Services, for any number of captures,      *)
(* waiters, fetches, pods, columns and apps, and any bounds.  Each has     *)
(* an inductive invariant of its own; the theorems hold of the machine     *)
(* alone and of their composition.                                         *)
(***************************************************************************)
EXTENDS Services, TLAPS

-----------------------------------------------------------------------------
(* CaptureNets: a capture only leaves what it joined, and that is never    *)
(* the portal's own network, nor another's: a connect fails while the      *)
(* portal is on the network, and what is left behind stays on it.          *)

NetsTypes ==
  /\ nets \subseteq Users \cup {Home}
  /\ pc \in [Captures -> {"idle", "look", "join", "shoot", "leave", "dropped"}]
  /\ on \in [Captures -> SUBSET (Users \cup {Home})]
  /\ want \in [Captures -> SUBSET (Users \cup {Home})]
  /\ joined \in [Captures -> SUBSET (Users \cup {Home})]
  /\ behind \subseteq Users \cup {Home}

\* What the portal is on, and what each capture will take it off.
NetsInv ==
  /\ NetsTypes /\ NetsAreKept
  /\ \A c \in Captures : Home \notin joined[c] /\ joined[c] \cap behind = {}
  /\ behind \subseteq nets \ {Home}
  /\ \A c \in Captures : pc[c] \in {"idle", "look"} => joined[c] = {}

LEMMA NetsStart == Init => NetsInv
BY DEF Init, NetsInv, NetsTypes, NetsAreKept, HomeIsKept, JoinedStays, StayIsShort

LEMMA NetsStep == NetsInv /\ [Next]_vars => NetsInv'
<1> SUFFICES ASSUME NetsInv, [Next]_vars PROVE NetsInv'
  OBVIOUS
<1> USE DEF NetsInv, NetsTypes, NetsAreKept, HomeIsKept, JoinedStays, StayIsShort, Go
<1>1. ASSUME NEW c \in Captures, NEW S \in Places, Start(c, S) PROVE NetsInv'
  BY <1>1 DEF Start, Places
<1>2. ASSUME NEW c \in Captures, Look(c) PROVE NetsInv'
  BY <1>2 DEF Look
<1>3. ASSUME NEW c \in Captures, Joined(c) \/ Shot(c) PROVE NetsInv'
  BY <1>3 DEF Joined, Shot
<1>4. ASSUME NEW c \in Captures, Done(c) PROVE NetsInv'
  BY <1>4 DEF Done
<1>5. ASSUME NEW c \in Captures, Cancel(c) PROVE NetsInv'
  BY <1>5 DEF Cancel
<1>6. ASSUME NEW c \in Captures, NEW n \in want[c], Join(c, n) PROVE NetsInv'
  BY <1>6 DEF Join, Connects
<1>7. ASSUME NEW c \in Captures, NEW n \in joined[c], Leave(c, n) PROVE NetsInv'
  BY <1>7 DEF Leave
<1>8. ASSUME NEW u \in Users, RemoveNet(u) \/ EnsureNet(u) PROVE NetsInv'
  BY <1>8 DEF RemoveNet, EnsureNet
<1>9. CASE Restart
  BY <1>9 DEF Restart
<1>10. CASE Recreate
  <2>1. \A c \in Captures : joined[c] = {}
    BY <1>10 DEF Recreate
  <2>2. nets' = {Home} /\ behind' = {} /\ UNCHANGED <<pc, on, want, joined>>
    BY <1>10 DEF Recreate
  <2> QED BY <2>1, <2>2
<1>11. CASE UNCHANGED vars
  BY <1>11 DEF vars
<1> QED BY <1>1, <1>2, <1>3, <1>4, <1>5, <1>6, <1>7, <1>8, <1>9, <1>10, <1>11 DEF Next

LEMMA NetsGive == NetsInv => NetsAreKept
BY DEF NetsInv

\* Captures leave the portal on its own network, and on no other but those that a failed
\* disconnect, a lost answer, a cancelled task or a stop left behind (_join_instance_nets,
\* _leave_nets of screenshot.py), however many run beside each other.
THEOREM NetsKept == Spec => []NetsAreKept
BY NetsGive, NetsStart, NetsStep, PTL DEF Spec

-----------------------------------------------------------------------------
(* Readiness: a look of the controller that has the Deployment's           *)
(* generation has its template, since every patch raises the generation.   *)

Statuses == {"stopped", "starting", "running", "error"}
PodRequest == [op : {"none", "start", "stop", "restart"},
               at : {"idle", "loaded", "patched", "committed"}, loaded : Statuses]

DepTypes ==
  /\ dep \in [replicas : {0, 1}, rev : Nat, generation : Nat]
  /\ view.observed \in Nat
  /\ status \in Statuses
  /\ req \in [Handlers -> PodRequest]

PodsInv ==
  /\ DepTypes
  /\ \A h \in Handlers : req[h].at = "loaded" => req[h].op # "none"
  /\ view.observed <= dep.generation
  /\ view.observed = dep.generation /\ view.updated => view.rev = dep.rev

LEMMA PodsStart == Pods!Init => PodsInv
BY DEF Pods!Init, Pods!Idle, PodsInv, DepTypes, Statuses, PodRequest

LEMMA PodsStep == PodsInv /\ [Pods!Next]_(Pods!vars) => PodsInv'
<1> SUFFICES ASSUME PodsInv, [Pods!Next]_(Pods!vars) PROVE PodsInv'
  OBVIOUS
<1> USE DEF PodsInv, DepTypes, Statuses, PodRequest, Pods!cluster
<1>1. CASE Pods!Cluster
  <2>1. CASE Pods!Controller
    BY <1>1, <2>1 DEF Pods!Cluster, Pods!Controller
  <2>2. CASE Pods!Kubelet
    BY <1>1, <2>2 DEF Pods!Cluster, Pods!Kubelet
  <2>3. CASE Pods!Observe
    <3>1. view'.updated => view'.rev = dep'.rev
      BY <2>3, Zenon DEF Pods!Observe
    <3> QED BY <1>1, <2>3, <3>1 DEF Pods!Cluster, Pods!Observe
  <2> QED BY <1>1, <2>1, <2>2, <2>3 DEF Pods!Cluster
<1>2. CASE Pods!Tick
  BY <1>2 DEF Pods!Tick
<1>3. CASE Pods!Restart
  BY <1>3 DEF Pods!Restart, Pods!Idle
<1>4. ASSUME NEW h \in Handlers,
             Pods!StartInstance(h) \/ Pods!StopInstance(h) \/ Pods!RestartInstance(h)
      PROVE  PodsInv'
  BY <1>4 DEF Pods!StartInstance, Pods!StopInstance, Pods!RestartInstance, Pods!Load
<1>5. ASSUME NEW h \in Handlers, Pods!Patch(h) PROVE PodsInv'
  BY <1>5 DEF Pods!Patch, Pods!Patched
<1>6. ASSUME NEW h \in Handlers, Pods!Commit(h) PROVE PodsInv'
  BY <1>6 DEF Pods!Commit, Pods!NewStatus, Pods!Idle
<1>7. ASSUME NEW h \in Handlers, Pods!Kick(h) PROVE PodsInv'
  BY <1>7 DEF Pods!Kick, Pods!Idle
<1>8. ASSUME NEW w \in Waiters, Pods!Waiter(w) PROVE PodsInv'
  BY <1>8 DEF Pods!Waiter, Pods!Look, Pods!Ask, Pods!Act
<1>9. CASE UNCHANGED Pods!vars
  BY <1>9 DEF Pods!vars
<1> QED
  BY <1>1, <1>2, <1>3, <1>4, <1>5, <1>6, <1>7, <1>8, <1>9 DEF Pods!Next, Pods!GoesOn

LEMMA PodsGive == PodsInv => ReadyIsNew
BY DEF PodsInv, DepTypes, ReadyIsNew, Pods!ReadyIsNew, Pods!Says, Pods!Rolled

\* A Deployment that was just patched is not taken for ready by the controller's look at the old
\* pod (_rolled_out of k8s_instances.py).
THEOREM PodsReady == Pods!Spec => []ReadyIsNew
BY PodsGive, PodsStart, PodsStep, PTL DEF Pods!Spec

-----------------------------------------------------------------------------
(* ServiceChecks: while the icon chosen last counts, no refresh by hand is  *)
(* under way and no edit that began before one ended can touch it, so only  *)
(* a fetch could, and that looks at icon_custom in its UPDATE.              *)

ServiceRow == [there : BOOLEAN, target : Nat, enabled : BOOLEAN,
               health : {"unknown", "healthy", "unhealthy"}, icon : Nat, custom : BOOLEAN]

ServiceForm == [at : {"off", "loaded"}, icon : Nat, custom : BOOLEAN, pick : Nat, move : BOOLEAN,
                clean : BOOLEAN]

CheckTypes ==
  /\ row \in ServiceRow /\ row.target > 0
  /\ manual.at \in {"off", "fetching"} /\ manual.target \in Nat
  /\ fetch \in [Fetches -> [at : {"off", "scheduled", "read", "got"}, target : Nat]]
  /\ form \in [Forms -> ServiceForm]
  /\ choice \in Nat

\* What an edit loaded that no refresh by hand ran beside: nobody took the mark off since.
FormsTrue ==
  \A e \in Forms : form[e].clean =>
    manual.at = "off" /\ (row.there /\ form[e].custom => row.custom)

ChecksInv ==
  /\ CheckTypes /\ FormsTrue /\ ChosenStays
  /\ manual.at = "fetching" => choice = Checks!NoIcon
  /\ ~row.there /\ row.target = 1 =>
       manual.at = "off" /\ choice = Checks!NoIcon /\ form = [e \in Forms |-> Checks!NoForm]

LEMMA IconsAreNumbers == Checks!Own \in Nat /\ Checks!Preset \in Nat /\ Checks!NoIcon \in Nat
BY MaxEditsAssumption DEF Checks!Own, Checks!Preset, Checks!NoIcon

LEMMA FormsAreTyped == Checks!NoForm \in ServiceForm /\ Checks!NoForm.clean = FALSE
BY IconsAreNumbers DEF Checks!NoForm, ServiceForm

LEMMA ChecksStart == Checks!Init => ChecksInv
<1> SUFFICES ASSUME Checks!Init PROVE ChecksInv
  OBVIOUS
<1>1. /\ row = Checks!NoRow /\ choice = Checks!NoIcon /\ form = [e \in Forms |-> Checks!NoForm]
      /\ manual.at = "off" /\ manual.target = 0
  BY DEF Checks!Init
<1>2. fetch \in [Fetches -> [at : {"off", "scheduled", "read", "got"}, target : Nat]]
  BY DEF Checks!Init, Checks!Off
<1>3. row \in ServiceRow /\ row.target = 1 /\ row.there = FALSE
  BY <1>1, IconsAreNumbers DEF Checks!NoRow, ServiceRow
<1>4. FormsTrue
  BY <1>1, FormsAreTyped DEF FormsTrue
<1> QED
  BY <1>1, <1>2, <1>3, <1>4, FormsAreTyped, IconsAreNumbers
  DEF ChecksInv, CheckTypes, ChosenStays, Checks!ChosenStays

LEMMA ChecksStep == ChecksInv /\ [Checks!Next]_(Checks!vars) => ChecksInv'
<1> SUFFICES ASSUME ChecksInv, [Checks!Next]_(Checks!vars) PROVE ChecksInv'
  OBVIOUS
<1> USE DEF ChecksInv, CheckTypes, FormsTrue, ChosenStays, Checks!ChosenStays
<1>0. /\ Checks!Own \in Nat /\ Checks!Preset \in Nat /\ Checks!NoIcon \in Nat
      /\ Checks!Own # Checks!NoIcon /\ MaxEdits \in Nat /\ MaxEdits > 1
  BY MaxEditsAssumption DEF Checks!Own, Checks!Preset, Checks!NoIcon
<1>1. ASSUME NEW image \in BOOLEAN, Checks!Create(image) PROVE ChecksInv'
  <2>1. /\ ~row.there /\ row.target = 1 /\ manual' = manual /\ form' = form
        /\ row' = [row EXCEPT !.there = TRUE, !.custom = image,
                              !.icon = IF image THEN Checks!Own ELSE Checks!Preset]
        /\ choice' = IF image THEN Checks!Own ELSE choice
    BY <1>1 DEF Checks!Create
  <2>2. fetch' \in [Fetches -> [at : {"off", "scheduled", "read", "got"}, target : Nat]]
    BY <1>1 DEF Checks!Create, Checks!Schedule, Checks!Off
  <2>3. row' \in ServiceRow /\ row'.there = TRUE /\ row'.target = 1
    BY <1>0, <2>1 DEF ServiceRow
  <2>4. row'.custom = image /\ (image => row'.icon = Checks!Own)
    BY <2>1 DEF ServiceRow
  <2>5. \A e \in Forms : form'[e].clean = FALSE
    BY <2>1, FormsAreTyped
  <2> QED BY <1>0, <2>1, <2>2, <2>3, <2>4, <2>5
<1>2. CASE Checks!SetEnabled
  BY <1>2 DEF Checks!SetEnabled, ServiceRow
<1>3. CASE Checks!Delete
  <2>1. /\ row' = [Checks!NoRow EXCEPT !.target = MaxEdits] /\ choice' = Checks!NoIcon
        /\ UNCHANGED <<manual, fetch, form>>
    BY <1>3 DEF Checks!Delete
  <2>2. row' \in ServiceRow /\ row'.there = FALSE /\ row'.target = MaxEdits
    BY <1>0, <2>1 DEF Checks!NoRow, ServiceRow
  <2> QED BY <1>0, <2>1, <2>2
<1>4. CASE Checks!MountDone
  BY <1>4 DEF Checks!MountDone, Checks!Schedule, Checks!Off
<1>5. ASSUME NEW e \in Forms, NEW pick \in {Checks!Own, row.icon, Checks!NoIcon},
             NEW move \in BOOLEAN, Checks!LoadForm(e, pick, move)
      PROVE  ChecksInv'
  <2> DEFINE new == [at |-> "loaded", icon |-> row.icon, custom |-> row.custom, pick |-> pick,
                     move |-> move, clean |-> manual.at = "off"]
  <2>1. /\ row.there /\ form' = [form EXCEPT ![e] = new]
        /\ UNCHANGED <<row, fetch, manual, choice>>
    BY <1>5 DEF Checks!LoadForm
  <2>2. new \in ServiceForm
    BY <1>0 DEF ServiceRow, ServiceForm
  <2> HIDE DEF new
  <2>3. form' \in [Forms -> ServiceForm]
    BY <2>1, <2>2
  <2>4. FormsTrue'
    BY <2>1 DEF new
  <2> QED BY <2>1, <2>3, <2>4
<1>6. ASSUME NEW e \in Forms, Checks!Commit(e) PROVE ChecksInv'
  <2>1. /\ row.there /\ form' = [form EXCEPT ![e] = Checks!NoForm] /\ UNCHANGED <<fetch, manual>>
        /\ row' = [row EXCEPT !.target = IF form[e].move THEN row.target + 1 ELSE row.target,
                              !.icon = IF Checks!WritesIcon(e) THEN form[e].pick ELSE row.icon,
                              !.custom = row.custom \/ Checks!WritesCustom(e)]
    BY <1>6 DEF Checks!Commit
  <2>2. form[e] \in ServiceForm
    OBVIOUS
  <2>3. form' \in [Forms -> ServiceForm]
    BY <2>1, FormsAreTyped
  <2>4. row' \in ServiceRow /\ row'.target > 0 /\ row'.there = TRUE
    <3> DEFINE t == IF form[e].move THEN row.target + 1 ELSE row.target
               i == IF Checks!WritesIcon(e) THEN form[e].pick ELSE row.icon
               c == row.custom \/ Checks!WritesCustom(e)
    <3>1. t \in Nat /\ t > 0
      BY <2>2 DEF ServiceRow
    <3>2. i \in Nat
      BY <2>2 DEF ServiceRow, ServiceForm
    <3>3. c \in BOOLEAN
      OBVIOUS
    <3>4. row' = [row EXCEPT !.target = t, !.icon = i, !.custom = c]
      BY <2>1
    <3> HIDE DEF t, i, c
    <3> QED BY <2>1, <3>1, <3>2, <3>3, <3>4 DEF ServiceRow
  <2>5. row'.custom = (row.custom \/ Checks!WritesCustom(e))
    BY <2>1 DEF ServiceRow
  <2>6. row'.icon = IF Checks!WritesIcon(e) THEN form[e].pick ELSE row.icon
    BY <2>1 DEF ServiceRow
  <2>7. FormsTrue'
    BY <2>1, <2>4, <2>5, FormsAreTyped
  <2>8. /\ choice' \in {choice, form[e].pick, Checks!NoIcon}
        /\ choice' # Checks!NoIcon => \/ form[e].pick = Checks!NoIcon /\ choice' = choice
                                     \/ /\ form[e].pick # Checks!NoIcon /\ form[e].clean
                                        /\ choice' = form[e].pick
                                        /\ Checks!WritesIcon(e) \/ row.icon = form[e].icon
    BY <1>6 DEF Checks!Commit
  <2>9. manual.at = "fetching" => choice' = Checks!NoIcon
    BY <2>8
  <2>10. choice' # Checks!NoIcon => row'.icon = choice' /\ row'.custom
    BY <2>1, <2>2, <2>5, <2>6, <2>8 DEF Checks!WritesIcon, Checks!WritesCustom, ServiceForm
  <2>11. choice' \in Nat
    BY <1>0, <2>2, <2>8 DEF ServiceForm
  <2> QED BY <2>1, <2>3, <2>4, <2>7, <2>9, <2>10, <2>11
<1>7. ASSUME NEW e \in Forms, Checks!FormFails(e) PROVE ChecksInv'
  <2>1. form[e].at = "loaded" /\ form' = [form EXCEPT ![e] = Checks!NoForm]
        /\ UNCHANGED <<row, fetch, manual, choice>>
    BY <1>7 DEF Checks!FormFails
  <2>2. form' \in [Forms -> ServiceForm] /\ FormsTrue'
    BY <2>1, FormsAreTyped
  <2>3. Checks!NoForm.at = "off"
    BY DEF Checks!NoForm
  <2> QED BY <2>1, <2>2, <2>3
<1>8. CASE Checks!RefreshIcon
  <2>1. /\ row.there /\ choice' = Checks!NoIcon /\ UNCHANGED <<row, fetch>>
        /\ manual'.at = "fetching" /\ manual'.target = row.target
        /\ form' = [e \in Forms |-> [form[e] EXCEPT !.clean = FALSE]]
    BY <1>8 DEF Checks!RefreshIcon
  <2>2. form' \in [Forms -> ServiceForm] /\ \A e \in Forms : form'[e].clean = FALSE
    BY <2>1 DEF ServiceForm
  <2> QED BY <1>0, <2>1, <2>2 DEF ServiceRow
<1>9. ASSUME NEW found \in BOOLEAN, Checks!Refreshed(found) PROVE ChecksInv'
  <2>1. /\ manual.at = "fetching" /\ manual'.at = "off" /\ manual'.target = 0
        /\ UNCHANGED <<fetch, form, choice>>
    BY <1>9 DEF Checks!Refreshed
  <2>2. row' \in ServiceRow /\ row'.there = row.there /\ row'.target = row.target
    BY <1>9 DEF Checks!Refreshed, ServiceRow
  <2>3. \A e \in Forms : ~form[e].clean
    BY <2>1
  <2> QED BY <2>1, <2>2, <2>3
<1>10. ASSUME NEW f \in Fetches, Checks!FetchRead(f) PROVE ChecksInv'
  BY <1>10 DEF Checks!FetchRead, Checks!Off, ServiceRow
<1>11. ASSUME NEW f \in Fetches, Checks!FetchStore(f) PROVE ChecksInv'
  BY <1>11 DEF Checks!FetchStore, Checks!Stores, Checks!Off, ServiceRow
<1>12. ASSUME NEW f \in Fetches, NEW found \in BOOLEAN, Checks!FetchGot(f, found)
       PROVE  ChecksInv'
  BY <1>12 DEF Checks!FetchGot, Checks!Off
<1>13. CASE Checks!PassBegin \/ Checks!PassFails \/ Checks!Flip
  BY <1>13 DEF Checks!PassBegin, Checks!PassFails, Checks!Flip
<1>14. CASE Checks!PassStore
  BY <1>14 DEF Checks!PassStore, Checks!Truth, ServiceRow
<1>15. CASE UNCHANGED Checks!vars
  BY <1>15 DEF Checks!vars
<1> QED
  BY <1>1, <1>2, <1>3, <1>4, <1>5, <1>6, <1>7, <1>8, <1>9, <1>10, <1>11, <1>12, <1>13, <1>14, <1>15
  DEF Checks!Next

LEMMA ChecksGive == ChecksInv => ChosenStays
BY DEF ChecksInv

\* The icon an admin chose stays, whichever fetches of the app's own icon and other edits were
\* under way when it was chosen (fetch_and_store of service_favicon.py, update_service of
\* services.py): ChosenStays says which choices count.
THEOREM ChosenIconStays == Checks!Spec => []ChosenStays
BY ChecksGive, ChecksStart, ChecksStep, PTL DEF Checks!Spec

-----------------------------------------------------------------------------
(* TunnelPeers: no two lookups are under way at once, so an answer that is *)
(* stored is never older than the set it replaces, and every pod that was  *)
(* listed and has run ever since is in it.                                 *)

TunnelInv ==
  /\ thread \in [Threads -> [at : {"off", "ask", "answered", "noted"}, answer : SUBSET Ips]]
  /\ \A s, t \in Threads : thread[s].at # "off" /\ thread[t].at # "off" => s = t
  /\ live \subseteq Ips /\ steady \subseteq live /\ steady \subseteq ips
  /\ \A t \in Threads : thread[t].at \in {"answered", "noted"} => steady \subseteq thread[t].answer

LEMMA TunnelStart == Tunnel!Init => TunnelInv
BY DEF Tunnel!Init, Tunnel!Off, Tunnel!Rest, TunnelInv

LEMMA TunnelStep == TunnelInv /\ [Tunnel!Next]_(Tunnel!vars) => TunnelInv'
<1> SUFFICES ASSUME TunnelInv, [Tunnel!Next]_(Tunnel!vars) PROVE TunnelInv'
  OBVIOUS
<1> USE DEF TunnelInv, Tunnel!cache, Tunnel!Off, Tunnel!Rest
<1>1. CASE Tunnel!Move
  BY <1>1 DEF Tunnel!Move
<1>2. CASE Tunnel!Tick
  BY <1>2 DEF Tunnel!Tick
<1>3. CASE Tunnel!Decide
  BY <1>3 DEF Tunnel!Decide
<1>4. ASSUME NEW t \in Threads, Tunnel!Asked(t) PROVE TunnelInv'
  BY <1>4 DEF Tunnel!Asked
<1>5. ASSUME NEW t \in Threads, Tunnel!Failed(t) PROVE TunnelInv'
  BY <1>5 DEF Tunnel!Failed
<1>6. ASSUME NEW t \in Threads, Tunnel!Noted(t) PROVE TunnelInv'
  BY <1>6 DEF Tunnel!Noted
<1>7. ASSUME NEW t \in Threads, Tunnel!Stored(t) PROVE TunnelInv'
  BY <1>7 DEF Tunnel!Stored
<1>8. ASSUME NEW h \in Ips, Tunnel!Peek(h) PROVE TunnelInv'
  <2>1. thread' = thread \/ \E t \in Threads :
          /\ \A s \in Threads : thread[s].at = "off"
          /\ thread' = [thread EXCEPT ![t] = [Tunnel!Off EXCEPT !.at = "ask"]]
    BY <1>8 DEF Tunnel!Peek, Tunnel!Kicked, Tunnel!MayStart, Tunnel!Alive
  <2>2. UNCHANGED <<live, ips, steady>>
    BY <1>8 DEF Tunnel!Peek
  <2>3. CASE thread' = thread
    BY <2>2, <2>3
  <2>4. ASSUME NEW t \in Threads, \A s \in Threads : thread[s].at = "off",
               thread' = [thread EXCEPT ![t] = [Tunnel!Off EXCEPT !.at = "ask"]]
        PROVE  TunnelInv'
    BY <2>2, <2>4
  <2> QED BY <2>1, <2>3, <2>4
<1>9. CASE UNCHANGED Tunnel!vars
  BY <1>9 DEF Tunnel!vars
<1> QED BY <1>1, <1>2, <1>3, <1>4, <1>5, <1>6, <1>7, <1>8, <1>9 DEF Tunnel!Next

LEMMA TunnelGive == TunnelInv => PodIsNoClient
BY DEF TunnelInv, PodIsNoClient, Tunnel!PodIsNoClient

\* A cloudflared pod that was listed and has run ever since is never taken for a client that
\* could be banned (_is_tunnel_peer and client_ip of rate_limit.py).
THEOREM PodIsNeverClient == Tunnel!Spec => []PodIsNoClient
BY TunnelGive, TunnelStart, TunnelStep, PTL DEF Tunnel!Spec

-----------------------------------------------------------------------------
(* Schema: a boot that has come past a column's step finds it in the file, *)
(* whoever added it, and past a backfill no row has a NULL there; columns  *)
(* with a DEFAULT never have one.                                          *)

Columns == Declared \cup Filled \cup Nullable
Values == {"null", "default", "chosen"}
Database == [table : BOOLEAN, strict : BOOLEAN, columns : SUBSET Columns,
             rows : [Tables!Names -> {Tables!NoRow} \cup [Columns -> Values]]]

\* No row of d has a NULL in the columns of S.
Given(d, S) ==
  \A n \in Tables!Names : d.rows[n] # Tables!NoRow => \A c \in S : d.rows[n][c] # "null"

Empty(d) == \A n \in Tables!Names : d.rows[n] = Tables!NoRow

TableTypes ==
  /\ app \in {"down", "adding", "filling", "seeding", "serving", "old"}
  /\ todo \subseteq Columns
  /\ disk \in Database /\ work \in Database

TablesInv ==
  /\ TableTypes
  /\ Given(disk, Declared) /\ Given(work, Declared)
  /\ ~disk.table => Empty(disk)
  /\ app # "filling" => work = disk
  /\ app = "adding" /\ disk.table => Columns \ todo \subseteq disk.columns
  /\ app = "filling" => /\ work.table = disk.table /\ (~work.table => Empty(work))
                        /\ work.table => work.columns = Columns
                        /\ Given(work, Filled \ todo)
  /\ app \in {"seeding", "serving"} =>
       disk.table /\ disk.columns = Columns /\ Given(disk, Filled)
  /\ app = "old" => disk.table

LEMMA TablesStart == Tables!Init => TablesInv
<1> SUFFICES ASSUME Tables!Init PROVE TablesInv
  OBVIOUS
<1>1. disk.rows = [n \in Tables!Names |-> Tables!NoRow] /\ disk.table = FALSE
  BY DEF Tables!Init
<1>2. disk \in Database
  BY DEF Tables!Init, Database
<1> QED BY <1>1, <1>2 DEF Tables!Init, TablesInv, TableTypes, Given, Empty

LEMMA NewRow ==
  ASSUME NEW given \in SUBSET Columns
  PROVE  /\ Tables!Row(given) \in [Columns -> Values]
         /\ \A c \in Declared \cup given : Tables!Row(given)[c] # "null"
BY DEF Tables!Row, Tables!Default, Tables!Columns, Columns, Values

LEMMA TablesStep == TablesInv /\ [Tables!Next]_(Tables!vars) => TablesInv'
<1> SUFFICES ASSUME TablesInv, [Tables!Next]_(Tables!vars) PROVE TablesInv'
  OBVIOUS
<1> USE DEF TablesInv, TableTypes
<1>0. Tables!Columns = Columns
  BY DEF Tables!Columns, Columns
<1>1. CASE Tables!Boot
  BY <1>0, <1>1 DEF Tables!Boot, Given, Empty
<1>2. CASE Tables!Added
  <2>1. /\ app = "adding" /\ todo = {} /\ app' = "filling" /\ todo' = Filled
        /\ disk' = disk /\ work' = work /\ work = disk
    BY <1>2 DEF Tables!Added, Tables!ToFill
  <2>2. disk.table => disk.columns = Columns
    BY <2>1 DEF Database
  <2>3. todo' \subseteq Columns
    BY <2>1 DEF Columns
  <2>4. Given(work', Filled \ todo')
    BY <2>1 DEF Given
  <2> QED BY <2>1, <2>2, <2>3, <2>4 DEF Given, Empty
<1>3. CASE Tables!CreateAll
  <2>1. CASE work.table
    BY <1>3, <2>1 DEF Tables!CreateAll, Tables!Write, Given, Empty
  <2>2. CASE ~work.table
    <3>1. disk' = [work EXCEPT !.table = TRUE, !.strict = TRUE, !.columns = Columns]
          /\ work' = disk' /\ app = "filling" /\ app' = "seeding" /\ todo' = todo
      BY <1>0, <1>3, <2>2 DEF Tables!CreateAll, Tables!Write
    <3>2. disk' \in Database
      BY <3>1 DEF Database
    <3>3. disk'.table = TRUE /\ disk'.columns = Columns /\ disk'.rows = work.rows
      BY <3>1 DEF Database
    <3> QED BY <2>2, <3>1, <3>2, <3>3 DEF Given, Empty
  <2> QED BY <2>1, <2>2
<1>4. CASE Tables!Seed
  <2>1. CASE Tables!Exists("builtin")
    BY <1>4, <2>1 DEF Tables!Seed, Given, Empty
  <2>2. CASE ~Tables!Exists("builtin")
    <3>1. disk' = [disk EXCEPT !.rows["builtin"] = Tables!Row(Columns)]
          /\ work' = disk' /\ app = "seeding" /\ app' = "serving" /\ todo' = todo
      BY <1>0, <1>4, <2>2 DEF Tables!Seed, Tables!Write
    <3>2. disk'.rows = [disk.rows EXCEPT !["builtin"] = Tables!Row(Columns)]
          /\ disk'.table = disk.table /\ disk'.columns = disk.columns
      BY <3>1 DEF Database
    <3>3. disk' \in Database
      BY <3>1, <3>2, NewRow DEF Database
    <3>4. Declared \cup Filled \subseteq Columns
      BY DEF Columns
    <3>5. Given(disk', Declared) /\ Given(disk', Filled)
      BY <3>1, <3>2, <3>4, NewRow DEF Given, Database
    <3> QED BY <3>1, <3>2, <3>3, <3>5
  <2> QED BY <2>1, <2>2
<1>5. CASE Tables!Stop
  BY <1>5 DEF Tables!Stop, Given, Empty
<1>6. CASE Tables!Downgrade
  <2>1. CASE disk.table
    BY <1>6, <2>1 DEF Tables!Downgrade, Given, Empty
  <2>2. CASE ~disk.table
    <3>1. disk' = [disk EXCEPT !.table = TRUE] /\ work' = disk' /\ app' = "old" /\ todo' = todo
      BY <1>6, <2>2 DEF Tables!Downgrade, Tables!Write
    <3>2. disk' \in Database /\ disk'.table = TRUE /\ disk'.rows = disk.rows
      BY <3>1 DEF Database
    <3> QED BY <3>1, <3>2 DEF Given, Empty
  <2> QED BY <2>1, <2>2
<1>7. ASSUME NEW c \in Columns, Tables!Add(c) PROVE TablesInv'
  <2>1. CASE ~(disk.table /\ c \notin disk.columns)
    BY <1>7, <2>1 DEF Tables!Add, Given, Empty
  <2>2. CASE disk.table /\ c \notin disk.columns
    <3>1. disk' = [disk EXCEPT !.columns = @ \cup {c},
                     !.rows = [n \in Tables!Names |->
                                 IF @[n] = Tables!NoRow THEN Tables!NoRow
                                 ELSE [@[n] EXCEPT ![c] = Tables!Default(c)]]]
          /\ work' = disk' /\ app = "adding" /\ app' = app /\ todo' = todo \ {c}
      BY <1>7, <2>2 DEF Tables!Add, Tables!Write
    <3>2. disk'.rows = [n \in Tables!Names |->
                          IF disk.rows[n] = Tables!NoRow THEN Tables!NoRow
                          ELSE [disk.rows[n] EXCEPT ![c] = Tables!Default(c)]]
          /\ disk'.table = disk.table /\ disk'.columns = disk.columns \cup {c}
      BY <3>1 DEF Database
    <3>3. Tables!Default(c) \in Values /\ (c \in Declared => Tables!Default(c) # "null")
      BY DEF Tables!Default, Values
    <3>4. disk' \in Database
      BY <3>1, <3>2, <3>3 DEF Database
    <3>5. Given(disk', Declared)
      BY <3>2, <3>3 DEF Given, Database, Columns
    <3> QED BY <2>2, <3>1, <3>2, <3>4, <3>5
  <2> QED BY <2>1, <2>2
<1>8. ASSUME NEW c \in Columns, Tables!Fill(c) PROVE TablesInv'
  <2>1. work' = [work EXCEPT !.rows = [n \in Tables!Names |-> Tables!FillRow(@[n], c)]]
        /\ disk' = disk /\ app = "filling" /\ app' = app /\ todo' = todo \ {c}
    BY <1>8 DEF Tables!Fill
  <2>2. work'.rows = [n \in Tables!Names |-> Tables!FillRow(work.rows[n], c)]
        /\ work'.table = work.table /\ work'.columns = work.columns
    BY <2>1 DEF Database
  <2>3. ASSUME NEW r \in [Columns -> Values]
        PROVE  /\ Tables!FillRow(r, c) \in [Columns -> Values]
               /\ r # Tables!NoRow => Tables!FillRow(r, c)[c] # "null"
               /\ \A d \in Columns : r[d] # "null" => Tables!FillRow(r, c)[d] # "null"
    BY DEF Tables!FillRow, Values
  <2>4. Tables!FillRow(Tables!NoRow, c) = Tables!NoRow
    BY DEF Tables!FillRow
  <2>5. work' \in Database
    BY <2>1, <2>2, <2>3, <2>4 DEF Database
  <2>6. Given(work', Declared) /\ Given(work', Filled \ todo')
    <3> SUFFICES ASSUME NEW n \in Tables!Names, work'.rows[n] # Tables!NoRow
                 PROVE  \A d \in Declared \cup (Filled \ todo') : work'.rows[n][d] # "null"
      BY DEF Given
    <3>1. work'.rows[n] = Tables!FillRow(work.rows[n], c)
      BY <2>2
    <3>2. work.rows[n] # Tables!NoRow /\ work.rows[n] \in [Columns -> Values]
      BY <2>4, <3>1 DEF Database
    <3>3. \A d \in Declared \cup (Filled \ todo) : d \in Columns /\ work.rows[n][d] # "null"
      BY <2>1, <3>2 DEF Given, Columns
    <3> QED BY <2>1, <2>3, <3>1, <3>2, <3>3
  <2>7. ~work'.table => Empty(work')
    BY <2>1, <2>2, <2>4 DEF Empty
  <2> QED BY <2>1, <2>2, <2>5, <2>6, <2>7
<1>9. ASSUME NEW n \in Tables!Names, NEW c \in Columns, Tables!Edit(n, c) PROVE TablesInv'
  <2>1. disk' = [disk EXCEPT !.rows[n][c] = "chosen"] /\ work' = disk'
        /\ app = "serving" /\ app' = app /\ todo' = todo /\ disk.rows[n] # Tables!NoRow
    BY <1>9 DEF Tables!Edit, Tables!Write, Tables!Exists
  <2>2. disk'.rows = [disk.rows EXCEPT ![n] = [disk.rows[n] EXCEPT ![c] = "chosen"]]
        /\ disk'.table = disk.table /\ disk'.columns = disk.columns
    BY <2>1 DEF Database
  <2>3. disk.rows[n] \in [Columns -> Values]
    BY <2>1 DEF Database
  <2>4. disk' \in Database
    BY <2>1, <2>2, <2>3 DEF Database, Values
  <2>5. Given(disk', Declared) /\ Given(disk', Filled)
    BY <2>1, <2>2, <2>3 DEF Given, Database, Columns
  <2> QED BY <2>1, <2>2, <2>4, <2>5
<1>10. ASSUME NEW n \in Tables!Names, Tables!Insert(n) PROVE TablesInv'
  <2> DEFINE given == IF app = "serving" THEN Declared \cup Filled ELSE {}
  <2>1. disk' = [disk EXCEPT !.rows[n] = Tables!Row(given)] /\ work' = disk'
        /\ app \in {"serving", "old"} /\ app' = app /\ todo' = todo
    BY <1>10 DEF Tables!Insert, Tables!Write, Tables!Serves
  <2>2. disk'.rows = [disk.rows EXCEPT ![n] = Tables!Row(given)]
        /\ disk'.table = disk.table /\ disk'.columns = disk.columns
    BY <2>1 DEF Database
  <2>3. given \subseteq Columns
    BY DEF Columns
  <2>4. Tables!Row(given) \in [Columns -> Values]
        /\ \A c \in Declared \cup given : Tables!Row(given)[c] # "null"
    BY <2>3, NewRow
  <2> HIDE DEF given
  <2>5. disk' \in Database
    BY <2>1, <2>2, <2>4 DEF Database
  <2>6. Given(disk', Declared) /\ (app = "serving" => Given(disk', Filled))
    BY <2>1, <2>2, <2>4 DEF Given, Database, given
  <2> QED BY <2>1, <2>2, <2>5, <2>6
<1>11. ASSUME NEW n \in Tables!Names, Tables!Delete(n) PROVE TablesInv'
  <2>1. disk' = [disk EXCEPT !.rows[n] = Tables!NoRow] /\ work' = disk'
        /\ app \in {"serving", "old"} /\ app' = app /\ todo' = todo
    BY <1>11 DEF Tables!Delete, Tables!Write, Tables!Serves
  <2>2. disk'.rows = [disk.rows EXCEPT ![n] = Tables!NoRow]
        /\ disk'.table = disk.table /\ disk'.columns = disk.columns
    BY <2>1 DEF Database
  <2>3. disk' \in Database
    BY <2>1, <2>2 DEF Database
  <2>4. Given(disk', Declared) /\ (app = "serving" => Given(disk', Filled))
    BY <2>1, <2>2 DEF Given, Database
  <2> QED BY <2>1, <2>2, <2>3, <2>4
<1>12. CASE UNCHANGED Tables!vars
  BY <1>12 DEF Tables!vars, Given, Empty
<1> QED
  BY <1>0, <1>1, <1>2, <1>3, <1>4, <1>5, <1>6, <1>7, <1>8, <1>9, <1>10, <1>11, <1>12
  DEF Tables!Next

LEMMA TablesGive == TablesInv => RowsAreWhole
BY DEF TablesInv, RowsAreWhole, Tables!RowsAreWhole, Given, Columns, Tables!Columns,
   Tables!Exists

\* A portal that serves finds every column, and a value in each its models do not allow to be
\* NULL, after crashed boots and older portals on the same file (init_db of database.py).
THEOREM TablesAreMigrated == Tables!Spec => []RowsAreWhole
BY TablesGive, TablesStart, TablesStep, PTL DEF Tables!Spec

-----------------------------------------------------------------------------
(* AppShell: between the loads of its page the shell moves its frame only, *)
(* by what it read of the services and the cookie, and that stays true     *)
(* while they are left alone; the way from the notice of an ended session  *)
(* to the login page and back carries the place it ended at.               *)

DoorApps == PathApps \cup FocusApps
DoorPages == {"/", "page", "login"}
Named(l) ==
  (l.k = "shell" => l.app \in DoorApps) /\ (l.k = "open" => l.app \in FocusApps)
Locs(Backs) ==
  {l \in [k : {"root", "slug", "shell", "open", "exit"}, app : DoorApps \cup {NoApp},
          page : DoorPages, back : Backs] : Named(l)}
Spots == Locs({NoApp})
Stops == Locs(Spots \cup {NoApp})
Navs == [in : {"top", "frame"}, loc : Stops, cross : BOOLEAN]
DocKinds ==
  {"none", "home", "login", "form", "change", "shell", "note", "app", "expired", "refused"}
Documents ==
  [doc : DocKinds,
   app : DoorApps \cup {NoApp}, page : DoorPages, back : Spots \cup {NoApp}]

DoorTypes ==
  /\ doors \in [DoorApps -> [on : BOOLEAN, may : BOOLEAN, frame : BOOLEAN, id : Nat]]
  /\ focus \in [app : FocusApps, id : Nat] \cup {NoApp}
  /\ focus # NoApp => focus.id <= doors[focus.app].id
  /\ session \in BOOLEAN /\ forced \in BOOLEAN
  /\ lost # NoApp => lost \in [app : DoorApps, page : DoorPages, astray : BOOLEAN]
  /\ top \in Documents /\ (top.doc = "shell" => top.app \in DoorApps)
  /\ frame \in Documents /\ (frame.doc = "expired" => frame.app \in DoorApps)
  /\ shell \in [inner : DoorPages, tile : {"unread", "here", "gone"},
                slug : DoorApps \cup {NoApp, "unread", "refused"}]
  /\ go \in Navs \cup {NoApp}

LEMMA DoorNone ==
  /\ NoApp \notin DoorApps /\ {"unread", "refused"} \cap (DoorApps \cup {NoApp}) = {}
  /\ PathApps \cap FocusApps = {}
  /\ NoApp \notin [app : FocusApps, id : Nat] /\ NoApp \notin Navs /\ NoApp \notin Spots
<1>1. NoApp \notin Navs
  BY NoAppAssumption DEF Navs, Stops, Spots, Locs, DoorApps, DoorPages
<1>2. NoApp \notin Spots
  BY NoAppAssumption DEF Spots, Locs, DoorApps, DoorPages
<1> QED BY <1>1, <1>2, NoAppAssumption DEF DoorApps

LEMMA LocIsStop ==
  ASSUME NEW k \in {"root", "slug", "shell", "open", "exit"}, NEW a \in DoorApps \cup {NoApp},
         NEW p \in DoorPages, k = "shell" => a \in DoorApps, k = "open" => a \in FocusApps
  PROVE  Door!Loc(k, a, p) \in Spots /\ Door!Loc(k, a, p) \in Stops
BY DEF Door!Loc, Spots, Stops, Locs, Named

LEMMA StopChanges ==
  ASSUME NEW l \in Stops
  PROVE  /\ [l EXCEPT !.back = NoApp] \in Spots
         /\ [l EXCEPT !.k = "root"] \in Stops
         /\ Door!ViaExit(l) \in Stops
         /\ \A p \in DoorPages : [l EXCEPT !.page = p] \in Stops
BY DEF Door!ViaExit, Spots, Stops, Locs, Named

LEMMA SpotIsStop == Spots \subseteq Stops
BY DEF Spots, Stops, Locs, Named

LEMMA LoginIsStop ==
  ASSUME NEW b \in Spots \cup {NoApp} PROVE Door!Login(b) \in Stops /\ Door!ViaExit(Door!Login(b)) \in Stops
<1>1. Door!Login(b) \in Stops
  BY DEF Door!Login, Door!Loc, Stops, Locs, Named, DoorPages
<1> QED BY <1>1, StopChanges

LEMMA RedirectIsStop ==
  ASSUME NEW l \in Stops, NEW a \in DoorApps, NEW framed \in BOOLEAN
  PROVE  Door!LoginRedirect(a, l, framed) \in Stops
<1>1. Door!PageOf(l, a) \in DoorPages
  BY DEF Door!PageOf, Stops, Locs, DoorPages
<1> DEFINE to == IF framed THEN Door!ShellLoc(a, Door!PageOf(l, a)) ELSE [l EXCEPT !.back = NoApp]
<1>2. to \in Spots
  BY <1>1, LocIsStop, StopChanges DEF Door!ShellLoc
<1>3. Door!SafeOrNone(to) \in Spots \cup {NoApp}
  BY <1>2 DEF Door!SafeOrNone
<1> HIDE DEF to
<1>4. Door!Login(Door!SafeOrNone(to)) \in Stops /\ Door!ViaExit(Door!Login(Door!SafeOrNone(to))) \in Stops
  BY <1>3, LoginIsStop
<1> QED BY <1>4 DEF Door!LoginRedirect, to

LEMMA ServedIsApp == ASSUME DoorTypes, NEW l \in Stops PROVE Door!Serves(l) \in DoorApps \cup {NoApp}
BY DEF DoorTypes, Door!Serves, Door!Focused, Stops, Locs, DoorApps

LEMMA DocIsDocument ==
  ASSUME NEW d \in DocKinds,
         NEW a \in DoorApps \cup {NoApp}, NEW p \in DoorPages
  PROVE  Door!Doc(d, a, p) \in Documents
BY DEF Door!Doc, Documents, DocKinds

LEMMA LoadTypes ==
  ASSUME DoorTypes, NEW d \in Documents, d.doc = "shell" => d.app \in DoorApps, Door!Load(d)
  PROVE  /\ top' \in Documents /\ (top'.doc = "shell" => top'.app \in DoorApps)
         /\ frame' \in Documents /\ frame'.doc = "none" /\ go' = NoApp
         /\ shell' \in [inner : DoorPages, tile : {"unread", "here", "gone"},
                        slug : DoorApps \cup {NoApp, "unread", "refused"}]
<1>1. Door!NoFrame \in Documents /\ Door!NoFrame.doc = "none"
  BY DocIsDocument DEF Door!NoFrame, DoorPages, Door!Doc, DocKinds
<1>2. d.page \in DoorPages
  BY DEF Documents
<1> QED BY <1>1, <1>2 DEF Door!Load, Door!Unread

LEMMA ShowTypes ==
  ASSUME DoorTypes, go # NoApp, NEW d \in Documents, NEW l, l = go.loc, Door!Show(d, l)
  PROVE  /\ top' \in Documents /\ (top'.doc = "shell" => top'.app \in DoorApps)
         /\ frame' = d /\ go' \in Navs \cup {NoApp} /\ shell' = shell
<1>1. d.page \in DoorPages
  BY DEF Documents
<1>2. l \in Stops
  BY DEF DoorTypes, Navs
<1>3. [l EXCEPT !.page = d.page] \in Stops
  BY <1>1, <1>2, StopChanges
<1>4. [in |-> "top", loc |-> [l EXCEPT !.page = d.page], cross |-> FALSE] \in Navs
  BY <1>3 DEF Navs
<1>5. [top EXCEPT !.page = d.page] \in Documents /\ [top EXCEPT !.page = d.page].doc = top.doc
      /\ [top EXCEPT !.page = d.page].app = top.app
  BY <1>1 DEF DoorTypes, Documents
<1> QED BY <1>4, <1>5 DEF Door!Show, DoorTypes

LEMMA GoTypes ==
  ASSUME NEW i \in {"top", "frame"}, NEW l \in Stops, NEW c \in BOOLEAN
  PROVE  /\ [in |-> i, loc |-> l, cross |-> c] \in Navs
         /\ [in |-> i, loc |-> l, cross |-> c] # NoApp
BY DoorNone DEF Navs

LEMMA RedirectTypes ==
  ASSUME DoorTypes, go # NoApp, NEW l \in Stops, Door!Redirect(l)
  PROVE  go' \in Navs /\ go' = [in |-> go.in, loc |-> l, cross |-> go.cross]
BY DEF DoorTypes, Navs, Door!Redirect

\* Where each step of the tab may lead is a location.
LEMMA GoIsNav ==
  ASSUME DoorTypes, go # NoApp
  PROVE  /\ go \in Navs /\ go.loc \in Stops /\ go.loc.page \in DoorPages
         /\ go.loc.app \in DoorApps \cup {NoApp} /\ go.in \in {"top", "frame"}
BY DEF DoorTypes, Navs, Stops, Locs

LEMMA ExitGoes == ASSUME DoorTypes, Door!ExitService PROVE go' \in Navs /\ go'.in = go.in
<1>1. [go.loc EXCEPT !.k = "root"] \in Stops
  BY GoIsNav, StopChanges DEF Door!ExitService
<1> QED BY <1>1, RedirectTypes DEF Door!ExitService

LEMMA OpenStops ==
  ASSUME DoorTypes, Door!OpenService, NEW p, p = IF go.loc.page = "login" THEN "/" ELSE go.loc.page
  PROVE  /\ go.loc.app \in FocusApps /\ go.loc.app \in DoorApps /\ p \in DoorPages
         /\ Door!ViaExit(Door!Login(NoApp)) \in Stops
         /\ Door!ShellLoc(go.loc.app, p) \in Stops /\ Door!Loc("root", NoApp, p) \in Stops
<1>1. go.loc.app \in FocusApps /\ go.loc.app \in DoorApps /\ p \in DoorPages
  BY GoIsNav DEF Door!OpenService, DoorApps, DoorPages, Stops, Locs, Named
<1>2. Door!ViaExit(Door!Login(NoApp)) \in Stops
  BY LoginIsStop
<1> QED BY <1>1, <1>2, LocIsStop DEF Door!ShellLoc

LEMMA CheckStops ==
  ASSUME DoorTypes, Door!AuthCheck, NEW a, a = Door!Serves(go.loc), NEW p, p = Door!PageOf(go.loc, a)
  PROVE  /\ a \in DoorApps /\ p \in DoorPages /\ Door!Landing(a, p) \in DoorPages
         /\ Door!LoginRedirect(a, go.loc, FALSE) \in Stops /\ Door!ShellLoc(a, p) \in Stops
<1>1. a \in DoorApps
  BY GoIsNav, ServedIsApp DEF Door!AuthCheck
<1>2. p \in DoorPages /\ Door!Landing(a, p) \in DoorPages
  BY GoIsNav DEF Door!AuthCheck, Door!PageOf, Door!Landing, DoorPages
<1> QED BY <1>1, <1>2, GoIsNav, RedirectIsStop, LocIsStop DEF Door!ShellLoc, Door!AuthCheck

LEMMA ExpelledGoes ==
  ASSUME DoorTypes, Door!Expelled, top.doc = "shell" PROVE go' \in Navs /\ go'.in = "top"
<1>1. Door!ShellLoc(top.app, top.page) \in Spots
  BY LocIsStop DEF Door!ShellLoc, DoorTypes, Documents
<1>2. Door!ViaExit(Door!Login(Door!SafeOrNone(Door!ShellLoc(top.app, top.page)))) \in Stops
  BY <1>1, LoginIsStop DEF Door!SafeOrNone
<1> QED BY <1>2, GoTypes DEF Door!Expelled, Door!Go

LEMMA RefocusGoes == ASSUME DoorTypes, Door!Refocus PROVE go' \in Navs /\ go'.in = "top"
<1>1. top.app \in FocusApps /\ shell.inner \in DoorPages
  BY DEF Door!Refocus, Door!InShell, Door!Refocuses, Door!InFocus, DoorTypes, DoorApps
<1>2. Door!Loc("open", top.app, shell.inner) \in Stops
  BY <1>1, LocIsStop DEF DoorApps
<1> QED BY <1>2, GoTypes DEF Door!Refocus, Door!Go

LEMMA MountGoes == ASSUME DoorTypes, Door!Mount PROVE go' \in Navs /\ go'.in = "frame"
<1>1. Door!FrameSrc(top.app, shell.inner) \in Stops
  BY LocIsStop DEF Door!Mount, Door!InShell, Door!FrameSrc, DoorTypes, DoorPages, DoorApps
<1> QED BY <1>1, GoTypes DEF Door!Mount, Door!Go

LEMMA OnwardGoes ==
  ASSUME DoorTypes, Door!Onward(top.back), top.back # NoApp
  PROVE  go' \in Navs /\ go'.in = "top" /\ UNCHANGED top
<1>1. top.back \in Stops
  BY SpotIsStop DEF DoorTypes, Documents
<1>2. go' = [in |-> "top", loc |-> top.back, cross |-> FALSE] /\ UNCHANGED top
  BY DEF Door!Onward, Door!Go
<1> QED BY <1>1, <1>2, GoTypes

LEMMA HomeIsDocument ==
  /\ Door!HomePage \in Documents /\ Door!HomePage.doc = "home"
  /\ \A d \in DocKinds : /\ Door!Doc(d, NoApp, "/") \in Documents
                        /\ Door!Doc(d, NoApp, "/").doc = d
<1>1. \A d \in DocKinds : /\ Door!Doc(d, NoApp, "/") \in Documents
                        /\ Door!Doc(d, NoApp, "/").doc = d
  BY DocIsDocument DEF DoorPages, Door!Doc, DocKinds
<1> QED BY <1>1 DEF Door!HomePage, DocKinds

\* What a page of the portal makes of the tab, when it goes nowhere.
LEMMA OnwardStays ==
  ASSUME DoorTypes, Door!Onward(top.back), top.back = NoApp
  PROVE  top' = Door!HomePage /\ UNCHANGED go
BY DEF Door!Onward

LEMMA SsoGoes == ASSUME DoorTypes, Door!Sso PROVE go' \in Navs /\ go'.in = "top"
<1>1. Door!Loc("root", NoApp, "/") \in Stops /\ Door!Login(NoApp) \in Stops
  BY LocIsStop, LoginIsStop DEF DoorPages
<1>2. PICK l \in Stops : go' = [in |-> "top", loc |-> l, cross |-> TRUE]
  BY <1>1 DEF Door!Sso
<1>3. [in |-> "top", loc |-> l, cross |-> TRUE] \in Navs
  BY GoTypes
<1> QED BY <1>2, <1>3

\* A way left is a way left.
LEMMA AstrayTypes ==
  ASSUME DoorTypes, lost' = Door!Astray
  PROVE  /\ lost' # NoApp => lost' \in [app : DoorApps, page : DoorPages, astray : BOOLEAN]
         /\ lost' # NoApp => lost'.astray
BY DEF Door!Astray, DoorTypes

LEMMA VisitGoes == ASSUME DoorTypes, Door!Visit PROVE go' \in Navs /\ go'.in = "top"
<1> DEFINE Anywhere ==
             {Door!Loc("shell", a, p) : a \in Door!Apps, p \in Door!Pages}
             \cup {Door!ViaExit(Door!Loc("root", NoApp, "/"))}
           Elsewhere ==
             {Door!Loc("root", NoApp, p) : p \in {"/", "page"}}
             \cup {Door!Loc("slug", a, p) : a \in PathApps, p \in {"/", "page"}}
             \cup {Door!Loc("open", a, "/") : a \in FocusApps}
<1>1. Anywhere \subseteq Stops
  <2>1. Door!ViaExit(Door!Loc("root", NoApp, "/")) \in Stops
    BY LocIsStop, StopChanges DEF DoorPages
  <2>2. ASSUME NEW a \in Door!Apps, NEW p \in Door!Pages PROVE Door!Loc("shell", a, p) \in Stops
    BY LocIsStop DEF Door!Apps, Door!Pages, DoorApps, DoorPages
  <2> QED BY <2>1, <2>2
<1>2. Elsewhere \subseteq Stops
  <2>1. \A p \in {"/", "page"} : Door!Loc("root", NoApp, p) \in Stops
    BY LocIsStop DEF DoorPages
  <2>2. \A a \in PathApps, p \in {"/", "page"} : Door!Loc("slug", a, p) \in Stops
    BY LocIsStop DEF DoorPages, DoorApps
  <2>3. \A a \in FocusApps : Door!Loc("open", a, "/") \in Stops
    BY LocIsStop DEF DoorPages, DoorApps
  <2> QED BY <2>1, <2>2, <2>3
<1>3. \/ \E l \in Anywhere : go' = [in |-> "top", loc |-> l, cross |-> FALSE]
      \/ \E l \in Elsewhere : \E c \in BOOLEAN : go' = [in |-> "top", loc |-> l, cross |-> c]
  <2>1. \/ \E l \in Anywhere : Door!Go("top", l)
        \/ \E l \in Elsewhere :
             \E cross \in BOOLEAN : go' = [in |-> "top", loc |-> l, cross |-> cross]
    BY DEF Door!Visit
  <2> HIDE DEF Anywhere, Elsewhere
  <2> QED BY <2>1 DEF Door!Go
<1> HIDE DEF Anywhere, Elsewhere
<1>4. go' \in Navs /\ go'.in = "top"
  <2>1. ASSUME NEW l \in Stops, NEW c \in BOOLEAN, go' = [in |-> "top", loc |-> l, cross |-> c]
        PROVE  go' \in Navs /\ go'.in = "top"
    BY <2>1, GoTypes
  <2> QED BY <1>1, <1>2, <1>3, <2>1
<1> QED BY <1>4

LEMMA ClickGoes == ASSUME DoorTypes, Door!FrameClick PROVE go' \in Navs /\ go'.in = "frame"
<1>1. PICK p \in DoorPages :
        go' = [in |-> "frame",
               loc |-> IF top.app \in PathApps THEN Door!Loc("slug", top.app, p)
                       ELSE Door!Loc("root", NoApp, p),
               cross |-> FALSE]
  BY DEF Door!FrameClick, Door!Go, Door!Pages, DoorPages
<1>2. Door!Loc("slug", top.app, p) \in Stops /\ Door!Loc("root", NoApp, p) \in Stops
  BY LocIsStop DEF Door!FrameClick, Door!InShell, DoorTypes
<1> QED BY <1>1, <1>2, GoTypes

LEMMA LinkGoes == ASSUME DoorTypes, Door!SignInLink PROVE go' \in Navs /\ go'.in = "top"
<1> DEFINE a == frame.app
           l == IF a \in PathApps THEN Door!Loc("slug", a, frame.page)
                ELSE Door!Loc("root", NoApp, frame.page)
<1>1. l \in Stops
  BY LocIsStop DEF DoorTypes, Documents, DoorApps
<1>2. Door!LoginRedirect(a, l, TRUE) \in Stops
  BY <1>1, RedirectIsStop DEF Door!SignInLink, DoorTypes
<1> QED BY <1>2, GoTypes DEF Door!SignInLink, Door!Go

LEMMA RefuseTypes ==
  ASSUME Door!Refuse
  PROVE  frame' \in Documents /\ frame'.doc = "refused" /\ go' = NoApp /\ UNCHANGED <<top, shell>>
BY HomeIsDocument DEF Door!Refuse, DocKinds

LEMMA DoorTypesStep == DoorTypes /\ [Door!Next]_(Door!vars) => DoorTypes'
<1> SUFFICES ASSUME DoorTypes, [Door!Next]_(Door!vars) PROVE DoorTypes'
  OBVIOUS
<1>0. go # NoApp => go.loc \in Stops /\ go.loc.page \in DoorPages
                    /\ go.loc.app \in DoorApps \cup {NoApp}
  BY GoIsNav
<1>1. CASE Door!ExitService
  BY <1>1, ExitGoes DEF Door!ExitService, DoorTypes
<1>2. CASE Door!OpenService
  <2> DEFINE a == go.loc.app
             p == IF go.loc.page = "login" THEN "/" ELSE go.loc.page
  <2>1. /\ a \in FocusApps /\ a \in DoorApps /\ p \in DoorPages
        /\ Door!ViaExit(Door!Login(NoApp)) \in Stops
        /\ Door!ShellLoc(a, p) \in Stops /\ Door!Loc("root", NoApp, p) \in Stops
    BY <1>2, OpenStops
  <2> HIDE DEF a, p
  <2>2. Door!Doc("note", a, "/") \in Documents /\ Door!Doc("note", a, "/").doc # "shell"
    BY <2>1, DocIsDocument DEF DoorPages, Door!Doc, DocKinds
  <2>5. doors[a].id \in Nat
    BY <2>1 DEF DoorTypes
  <2>6. \/ Door!Load(Door!Doc("note", a, "/")) /\ UNCHANGED focus
        \/ Door!Redirect(Door!ViaExit(Door!Login(NoApp))) /\ UNCHANGED <<focus, top, shell, frame>>
        \/ /\ focus' = [app |-> a, id |-> doors[a].id]
           /\ \/ Door!Redirect(Door!ShellLoc(a, p))
              \/ Door!Redirect(Door!Loc("root", NoApp, p))
           /\ UNCHANGED <<top, shell, frame>>
    BY <1>2 DEF Door!OpenService, a, p
  <2>7. go # NoApp /\ UNCHANGED <<doors, session, forced, lost>>
    BY <1>2 DEF Door!OpenService
  <2>8. CASE Door!Load(Door!Doc("note", a, "/")) /\ UNCHANGED focus
    BY <2>2, <2>7, <2>8, LoadTypes DEF DoorTypes
  <2>9. CASE Door!Redirect(Door!ViaExit(Door!Login(NoApp))) /\ UNCHANGED <<focus, top, shell, frame>>
    BY <2>1, <2>7, <2>9, RedirectTypes DEF DoorTypes
  <2>10. ASSUME focus' = [app |-> a, id |-> doors[a].id], UNCHANGED <<top, shell, frame>>,
                NEW l \in Stops, Door!Redirect(l)
         PROVE  DoorTypes'
    BY <2>1, <2>5, <2>7, <2>10, RedirectTypes DEF DoorTypes
  <2> QED BY <2>1, <2>6, <2>8, <2>9, <2>10
<1>3. CASE Door!ShellPage
  <2>1. Door!Doc("shell", go.loc.app, go.loc.page) \in Documents
        /\ Door!Doc("shell", go.loc.app, go.loc.page).app \in DoorApps
    BY <1>0, <1>3, DocIsDocument DEF Door!ShellPage, Door!Doc, Stops, Locs, Named, DocKinds
  <2>2. CASE Door!Refuse
    BY <1>3, <2>2, RefuseTypes DEF Door!ShellPage, DoorTypes
  <2>3. CASE Door!Load(Door!Doc("shell", go.loc.app, go.loc.page))
    BY <1>3, <2>1, <2>3, LoadTypes DEF Door!ShellPage, DoorTypes
  <2> QED BY <1>3, <2>2, <2>3 DEF Door!ShellPage
<1>4. CASE Door!PortalPage
  <2>1. CASE Door!Refuse
    BY <1>4, <2>1, RefuseTypes DEF Door!PortalPage, DoorTypes
  <2>2. [Door!Doc("login", NoApp, "/") EXCEPT !.back = go.loc.back] \in Documents
        /\ [Door!Doc("login", NoApp, "/") EXCEPT !.back = go.loc.back].doc = "login"
    BY <1>0, <1>4 DEF Door!PortalPage, Door!Doc, Documents, DocKinds, DoorPages, Stops, Locs
  <2>3. CASE Door!Load([Door!Doc("login", NoApp, "/") EXCEPT !.back = go.loc.back])
    BY <1>4, <2>2, <2>3, LoadTypes DEF Door!PortalPage, DoorTypes
  <2>4. Door!Doc("home", NoApp, "/") \in Documents /\ Door!Doc("home", NoApp, "/").doc = "home"
    BY DocIsDocument DEF Door!Doc, DoorPages, DocKinds
  <2>5. CASE Door!Load(Door!Doc("home", NoApp, "/"))
    BY <1>4, <2>4, <2>5, LoadTypes DEF Door!PortalPage, DoorTypes
  <2> QED BY <1>4, <2>1, <2>3, <2>5 DEF Door!PortalPage
<1>5. CASE Door!AuthCheck
  <2> DEFINE l == go.loc
             a == Door!Serves(l)
             p == Door!PageOf(l, a)
  <2>0. /\ go # NoApp /\ UNCHANGED <<doors, focus, session, forced>>
        /\ lost' \in {lost, NoApp, [app |-> a, page |-> p, astray |-> FALSE]}
    BY <1>5 DEF Door!AuthCheck
  <2>2. /\ a \in DoorApps /\ p \in DoorPages /\ Door!Landing(a, p) \in DoorPages
        /\ Door!LoginRedirect(a, l, FALSE) \in Stops /\ Door!ShellLoc(a, p) \in Stops
    BY <1>5, CheckStops
  <2>3. \/ Door!Show(Door!Doc("expired", a, p), l)
        \/ Door!Redirect(Door!LoginRedirect(a, l, FALSE)) /\ UNCHANGED <<top, shell, frame>>
        \/ Door!Answer(Door!Doc("note", a, p), l)
        \/ Door!Redirect(Door!ShellLoc(a, p)) /\ UNCHANGED <<top, shell, frame>>
        \/ Door!Answer(Door!Doc("app", a, Door!Landing(a, p)), l)
    BY <1>5 DEF Door!AuthCheck
  <2> HIDE DEF a, p
  <2>1. /\ go # NoApp /\ UNCHANGED <<doors, focus, session, forced>>
        /\ lost' # NoApp => lost' \in [app : DoorApps, page : DoorPages, astray : BOOLEAN]
    <3>1. lost # NoApp => lost \in [app : DoorApps, page : DoorPages, astray : BOOLEAN]
      BY DEF DoorTypes
    <3>2. [app |-> a, page |-> p, astray |-> FALSE] \in [app : DoorApps, page : DoorPages, astray : BOOLEAN]
      BY <2>2
    <3> QED BY <2>0, <3>1, <3>2
  <2>4. ASSUME NEW d \in Documents, d.doc # "shell", d.app \in DoorApps, Door!Show(d, l) \/ Door!Load(d)
        PROVE  DoorTypes'
    BY <2>1, <2>4, LoadTypes, ShowTypes DEF DoorTypes
  <2>5. ASSUME NEW m \in Stops, Door!Redirect(m), UNCHANGED <<top, shell, frame>> PROVE DoorTypes'
    BY <2>1, <2>5, RedirectTypes DEF DoorTypes
  <2>6. ASSUME NEW d \in {"expired", "note", "app"}, NEW q \in DoorPages
        PROVE  Door!Doc(d, a, q) \in Documents /\ Door!Doc(d, a, q).doc # "shell"
               /\ Door!Doc(d, a, q).app \in DoorApps
    BY <2>2, DocIsDocument DEF Door!Doc, DocKinds
  <2> HIDE DEF l
  <2> QED BY <2>2, <2>3, <2>4, <2>5, <2>6 DEF Door!Answer
<1>6. CASE Door!ReadTiles \/ Door!ReadFocus
  <2>1. ASSUME Door!Expelled, top.doc = "shell" PROVE DoorTypes'
    BY <2>1, ExpelledGoes DEF Door!Expelled, DoorTypes
  <2>2. Door!Focused \in DoorApps \cup {NoApp}
    BY DEF Door!Focused, DoorTypes, DoorApps
  <2>3. Door!NoFrame \in Documents /\ Door!NoFrame.doc = "none"
    BY DocIsDocument DEF Door!NoFrame, DoorPages, Door!Doc, DocKinds
  <2> QED BY <1>6, <2>1, <2>2, <2>3 DEF Door!ReadTiles, Door!ReadFocus, Door!InShell, DoorTypes
<1>7. CASE Door!Refocus
  <2>1. lost' # NoApp => lost' \in [app : DoorApps, page : DoorPages, astray : BOOLEAN]
    BY <1>7, AstrayTypes DEF Door!Refocus, DoorTypes
  <2> QED BY <1>7, <2>1, RefocusGoes DEF Door!Refocus, DoorTypes
<1>8. CASE Door!Mount
  BY <1>8, MountGoes DEF Door!Mount, DoorTypes
<1>9. CASE Door!Follows \/ Door!SentToLogin \/ Door!SentToChange \/ Door!ChangePassword
  <2>1. UNCHANGED <<doors, session, focus, shell, frame, lost>> /\ forced' \in BOOLEAN
    BY <1>9 DEF Door!Follows, Door!SentToLogin, Door!SentToChange, Door!ChangePassword, DoorTypes
  <2>2. top' \in Documents /\ top'.doc # "shell" /\ go' \in Navs \cup {NoApp}
    <3>1. CASE Door!Follows /\ Door!Onward(top.back)
      BY <3>1, OnwardGoes, OnwardStays, HomeIsDocument DEF Door!Follows, DoorTypes
    <3>2. CASE top' = [top EXCEPT !.doc = "form"] /\ UNCHANGED go
      BY <3>2 DEF DoorTypes, Documents, DocKinds
    <3>3. CASE UNCHANGED go /\ (top' = Door!HomePage \/ \E d \in {"login", "change"} : top' = Door!Doc(d, NoApp, "/"))
      BY <3>3, HomeIsDocument DEF DoorTypes, DocKinds
    <3> QED BY <1>9, <3>1, <3>2, <3>3
        DEF Door!Follows, Door!SentToLogin, Door!SentToChange, Door!ChangePassword
  <2> QED BY <2>1, <2>2 DEF DoorTypes
<1>10. CASE Door!Visit
  BY <1>10, VisitGoes DEF Door!Visit, DoorTypes
<1>11. CASE Door!FrameClick
  BY <1>11, ClickGoes DEF Door!FrameClick, DoorTypes
<1>12. CASE Door!SignInLink
  <2>1. lost' # NoApp => lost' \in [app : DoorApps, page : DoorPages, astray : BOOLEAN]
    BY <1>12, AstrayTypes DEF Door!SignInLink, DoorTypes
  <2> QED BY <1>12, <2>1, LinkGoes DEF Door!SignInLink, DoorTypes
<1>13. CASE Door!SignIn \/ Door!Sso \/ Door!Dismiss
  <2>1. /\ UNCHANGED <<doors, forced, focus, shell, frame>> /\ session' \in BOOLEAN
        /\ lost' # NoApp => lost' \in [app : DoorApps, page : DoorPages, astray : BOOLEAN]
    BY <1>13, AstrayTypes DEF Door!SignIn, Door!Sso, Door!Dismiss, DoorTypes
  <2>2. top' \in Documents /\ (top'.doc = "shell" => top'.app \in DoorApps) /\ go' \in Navs \cup {NoApp}
    <3>1. CASE Door!SignIn /\ Door!Onward(top.back)
      BY <3>1, OnwardGoes, OnwardStays, HomeIsDocument DEF Door!SignIn, DoorTypes
    <3>2. CASE UNCHANGED go /\ (top' = Door!HomePage \/ top' = Door!Doc("change", NoApp, "/"))
      BY <3>2, HomeIsDocument DEF DoorTypes, DocKinds
    <3>3. CASE UNCHANGED go /\ top' = [top EXCEPT !.back = NoApp]
      BY <3>3 DEF DoorTypes, Documents
    <3>4. CASE Door!Sso
      BY <3>4, SsoGoes DEF Door!Sso, DoorTypes
    <3> QED BY <1>13, <3>1, <3>2, <3>3, <3>4 DEF Door!SignIn, Door!Dismiss
  <2> QED BY <2>1, <2>2 DEF DoorTypes
<1>14. CASE Door!OtherTab
  <2>1. /\ UNCHANGED <<doors, session, forced, top, shell, frame, go>> /\ lost' \in {lost, NoApp}
        /\ \/ focus' = NoApp
           \/ \E a \in FocusApps : focus' = [app |-> a, id |-> doors[a].id]
    BY <1>14 DEF Door!OtherTab, Door!Changed
  <2>2. \A a \in FocusApps : doors[a].id \in Nat
    BY DEF DoorTypes, DoorApps
  <2> QED BY <2>1, <2>2 DEF DoorTypes
<1>17. CASE Door!Expire \/ Door!Refetch \/ Door!ForcePassword
  BY <1>17 DEF Door!Expire, Door!Refetch, Door!ForcePassword, Door!Changed, DoorTypes
<1>15. CASE Door!Edit
  <2>1. PICK a \in DoorApps :
          doors' \in {[doors EXCEPT ![a].on = ~@], [doors EXCEPT ![a].may = ~@],
                      [doors EXCEPT ![a].frame = ~@], [doors EXCEPT ![a].id = @ + 1]}
    BY <1>15 DEF Door!Edit, Door!Apps, DoorApps
  <2> DEFINE Row == [on : BOOLEAN, may : BOOLEAN, frame : BOOLEAN, id : Nat]
  <2>2. doors[a] \in Row
    BY DEF DoorTypes
  <2>3. \E r \in Row : doors' = [doors EXCEPT ![a] = r]
    <3> DEFINE r == doors[a]
    <3>0. r \in Row
      BY <2>2
    <3> HIDE DEF r
    <3>1. [r EXCEPT !.on = ~r.on] \in Row
      BY <3>0
    <3>2. [r EXCEPT !.may = ~r.may] \in Row
      BY <3>0
    <3>3. [r EXCEPT !.frame = ~r.frame] \in Row
      BY <3>0
    <3>4. [r EXCEPT !.id = r.id + 1] \in Row
      BY <3>0
    <3>5. doors' \in {[doors EXCEPT ![a] = [r EXCEPT !.on = ~r.on]],
                      [doors EXCEPT ![a] = [r EXCEPT !.may = ~r.may]],
                      [doors EXCEPT ![a] = [r EXCEPT !.frame = ~r.frame]],
                      [doors EXCEPT ![a] = [r EXCEPT !.id = r.id + 1]]}
      BY <2>1 DEF r
    <3> HIDE DEF Row
    <3> QED BY <3>1, <3>2, <3>3, <3>4, <3>5
  <2>4. doors' \in [DoorApps -> Row]
    BY <2>3 DEF DoorTypes
  <2>5. focus # NoApp => focus.id <= doors'[focus.app].id
    <3> SUFFICES ASSUME focus # NoApp PROVE focus.id <= doors'[focus.app].id
      OBVIOUS
    <3>1. doors[focus.app].id \in Nat /\ focus.id \in Nat /\ focus.id <= doors[focus.app].id
          /\ focus.app \in DoorApps
      BY DEF DoorTypes, DoorApps
    <3>2. doors'[focus.app].id \in {doors[focus.app].id, doors[focus.app].id + 1}
      BY <2>1, <3>1 DEF DoorTypes
    <3> QED BY <3>1, <3>2
  <2> QED BY <1>15, <2>4, <2>5 DEF Door!Edit, Door!Changed, DoorTypes
<1>16. CASE UNCHANGED Door!vars
  BY <1>16 DEF Door!vars, DoorTypes
<1> QED
  BY <1>1, <1>2, <1>3, <1>4, <1>5, <1>6, <1>7, <1>8, <1>9, <1>10, <1>11, <1>12, <1>13, <1>14,
     <1>15, <1>16, <1>17 DEF Door!Next, Door!Browser

Framing == go # NoApp /\ go.in = "frame"
Here == doors[top.app].on /\ doors[top.app].may

\* What the shell holds to while the services and the cookie are as it found them.
Quiet ==
  /\ shell.tile = "here" \/ frame # Door!NoFrame \/ Framing => Here
  /\ shell.slug \notin {"unread", "refused"} => shell.slug = Door!Focused
  /\ shell.slug = "refused" => forced
  /\ forced => shell.tile # "here" /\ frame = Door!NoFrame /\ ~Framing
  /\ top.app \notin PathApps /\ (frame # Door!NoFrame \/ Framing) => Door!Focused = top.app
  /\ frame.doc # "refused"
  /\ frame.doc = "app" => frame.app = top.app /\ frame.page = top.page

FrameInv ==
  /\ Framing =>
       /\ top.doc = "shell" /\ ~go.cross
       /\ go.loc = IF top.app \in PathApps THEN Door!Loc("slug", top.app, go.loc.page)
                   ELSE Door!Loc("root", NoApp, go.loc.page)
  /\ Door!InShell /\ ~moved => Quiet

LEMMA TopKeeps ==
  ASSUME go' # NoApp, go'.in = "top" PROVE FrameInv'
BY DEF FrameInv, Framing, Door!InShell, Door!Leaving

LEMMA LoadKeeps ==
  ASSUME NEW d, Door!Load(d) PROVE FrameInv'
BY DEF Door!Load, FrameInv, Framing, Quiet, Door!Unread, Door!NoFrame, Door!Doc

\* What the frame asks for is answered by the shell's own app.
LEMMA FrameIsServed ==
  ASSUME DoorTypes, FrameInv, Framing, ~moved
  PROVE  /\ Quiet /\ Here /\ Door!Serves(go.loc) = top.app /\ top.app \in DoorApps
         /\ Door!PageOf(go.loc, top.app) = go.loc.page
<1>1. Door!InShell
  BY DEF FrameInv, Framing, Door!InShell, Door!Leaving
<1>2. Quiet /\ Here /\ top.app \in DoorApps
  BY <1>1 DEF FrameInv, Quiet, DoorTypes, Door!InShell
<1>3. CASE top.app \in PathApps
  BY <1>2, <1>3 DEF FrameInv, Here, Door!Loc, Door!Serves, Door!PageOf
<1>4. CASE top.app \notin PathApps
  <2>1. Door!Focused = top.app /\ top.app # NoApp
    BY <1>2, <1>4, DoorNone DEF Quiet
  <2> QED BY <1>2, <1>4, <2>1 DEF FrameInv, Here, Door!Loc, Door!Serves, Door!PageOf
<1> QED BY <1>2, <1>3, <1>4

LEMMA FrameShows ==
  ASSUME DoorTypes, FrameInv, Framing, UNCHANGED <<doors, forced, focus>>,
         NEW d \in Documents, d.doc # "refused", d.doc = "app" /\ ~moved => d.app = top.app,
         d # Door!NoFrame, Door!Show(d, go.loc)
  PROVE  FrameInv'
<1>1. CASE go' # NoApp /\ go'.in = "top"
  BY <1>1, TopKeeps
<1>2. CASE frame' = d /\ go' = NoApp /\ top' = [top EXCEPT !.page = d.page] /\ UNCHANGED <<shell, moved>>
  <2>1. top'.app = top.app /\ top'.doc = top.doc /\ top'.page = d.page
    BY <1>2 DEF DoorTypes, Documents
  <2>2. ASSUME ~moved PROVE Quiet'
    <3>1. Quiet /\ Here
      BY <2>2, FrameIsServed
    <3>2. Door!Focused' = Door!Focused /\ Here'
      BY <1>2, <2>1, <3>1 DEF Door!Focused, Here
    <3> QED BY <1>2, <2>1, <2>2, <3>1, <3>2 DEF Quiet, Framing
  <2> QED BY <1>2, <2>2 DEF FrameInv, Framing
<1>3. go' = NoApp \/ (go' # NoApp /\ go'.in = "top")
  <2>1. go.loc \in Stops /\ d.page \in DoorPages
    BY DEF DoorTypes, Framing, Navs, Documents
  <2>2. [in |-> "top", loc |-> [go.loc EXCEPT !.page = d.page], cross |-> FALSE] # NoApp
    BY <2>1, StopChanges, GoTypes
  <2> QED BY <2>2 DEF Door!Show
<1>4. go' = NoApp => frame' = d /\ top' = [top EXCEPT !.page = d.page] /\ UNCHANGED <<shell, moved>>
  <2>1. go.loc \in Stops /\ d.page \in DoorPages
    BY DEF DoorTypes, Framing, Navs, Documents
  <2>2. [in |-> "top", loc |-> [go.loc EXCEPT !.page = d.page], cross |-> FALSE] # NoApp
    BY <2>1, StopChanges, GoTypes
  <2> QED BY <2>2 DEF Door!Show
<1> QED BY <1>1, <1>2, <1>3, <1>4

LEMMA FrameStep == DoorTypes /\ FrameInv /\ [Door!Next]_(Door!vars) => FrameInv'
<1> SUFFICES ASSUME DoorTypes, FrameInv, [Door!Next]_(Door!vars) PROVE FrameInv'
  OBVIOUS
<1>a. Framing => go.loc.k \in {"slug", "root"}
  BY DEF FrameInv, Door!Loc
<1>b. ASSUME go' \in Navs, go'.in = "top" PROVE FrameInv'
  BY <1>b, DoorNone, TopKeeps
<1>c. ASSUME go # NoApp, ~Framing, NEW l \in Stops, Door!Redirect(l) PROVE FrameInv'
  BY <1>b, <1>c, RedirectTypes, GoIsNav DEF Framing
<1>d. ASSUME Door!InShell PROVE top.app \in DoorApps /\ (go # NoApp => Framing) /\ (~moved => Quiet)
  BY <1>d, GoIsNav DEF Door!InShell, Door!Leaving, Framing, DoorTypes, FrameInv
<1>1. CASE Door!ExitService
  BY <1>1, <1>a, <1>b, ExitGoes, GoIsNav DEF Door!ExitService, Framing
<1>2. CASE Door!OpenService
  <2> DEFINE p == IF go.loc.page = "login" THEN "/" ELSE go.loc.page
  <2>1. \/ Door!Load(Door!Doc("note", go.loc.app, "/"))
        \/ Door!Redirect(Door!ViaExit(Door!Login(NoApp)))
        \/ Door!Redirect(Door!ShellLoc(go.loc.app, p))
        \/ Door!Redirect(Door!Loc("root", NoApp, p))
    BY <1>2 DEF Door!OpenService
  <2>2. go # NoApp /\ ~Framing
    BY <1>2, <1>a DEF Door!OpenService
  <2>3. /\ Door!ViaExit(Door!Login(NoApp)) \in Stops
        /\ Door!ShellLoc(go.loc.app, p) \in Stops /\ Door!Loc("root", NoApp, p) \in Stops
    BY <1>2, OpenStops
  <2> QED BY <1>c, <2>1, <2>2, <2>3, LoadKeeps
<1>3. CASE Door!ShellPage
  BY <1>3, <1>a, LoadKeeps DEF Door!ShellPage, Framing, Door!Framed
<1>4. CASE Door!PortalPage
  <2>1. CASE Framing
    <3>1. moved
      BY <1>4, <2>1, FrameIsServed, DoorNone DEF Door!PortalPage
    <3> QED BY <1>4, <2>1, <3>1 DEF Door!PortalPage, Door!Framed, Framing, Door!Refuse, FrameInv
  <2>2. CASE ~Framing
    <3>1. ~Door!Framed
      BY <1>4, <2>2 DEF Door!PortalPage, Door!Framed, Framing
    <3> QED BY <1>4, <3>1, LoadKeeps DEF Door!PortalPage
  <2> QED BY <2>1, <2>2
<1>5. CASE Door!AuthCheck
  <2> DEFINE a == Door!Serves(go.loc)
             p == Door!PageOf(go.loc, a)
  <2>1. go # NoApp /\ UNCHANGED <<doors, forced, focus>> /\ (Door!Framed <=> Framing)
    BY <1>5 DEF Door!AuthCheck, Door!Framed, Framing
  <2>2. /\ a \in DoorApps /\ p \in DoorPages /\ Door!Landing(a, p) \in DoorPages
        /\ Door!LoginRedirect(a, go.loc, FALSE) \in Stops /\ Door!ShellLoc(a, p) \in Stops
    BY <1>5, CheckStops
  <2>3. \/ Framing /\ Door!Show(Door!Doc("expired", a, p), go.loc)
        \/ ~Framing /\ Door!Redirect(Door!LoginRedirect(a, go.loc, FALSE))
        \/ Door!Answer(Door!Doc("note", a, p), go.loc)
        \/ ~Framing /\ Door!Redirect(Door!ShellLoc(a, p))
        \/ Door!Answer(Door!Doc("app", a, Door!Landing(a, p)), go.loc)
    BY <1>5, <2>1 DEF Door!AuthCheck
  <2>4. ~moved /\ Framing => a = top.app
    BY FrameIsServed
  <2> HIDE DEF a, p
  <2>5. ASSUME NEW d \in {"expired", "note", "app"}, NEW q \in DoorPages
        PROVE  /\ Door!Doc(d, a, q) \in Documents /\ Door!Doc(d, a, q) # Door!NoFrame
               /\ Door!Doc(d, a, q).doc # "refused" /\ Door!Doc(d, a, q).app = a
    BY <2>2, DocIsDocument DEF Door!Doc, Door!NoFrame, DocKinds
  <2>6. ASSUME NEW d \in {"expired", "note", "app"}, NEW q \in DoorPages, Framing,
               Door!Show(Door!Doc(d, a, q), go.loc)
        PROVE  FrameInv'
    BY <2>1, <2>4, <2>5, <2>6, FrameShows
  <2> QED BY <1>c, <2>1, <2>2, <2>3, <2>6, LoadKeeps DEF Door!Answer
<1>6. CASE Door!ReadTiles \/ Door!ReadFocus
  <2>1. Door!InShell
    BY <1>6 DEF Door!ReadTiles, Door!ReadFocus
  <2>2. CASE Door!Expelled
    BY <1>b, <2>1, <2>2, ExpelledGoes DEF Door!InShell
  <2>3. CASE Door!ReadTiles /\ ~Door!Expelled
    <3> DEFINE there == IF forced THEN frame # Door!NoFrame \/ go # NoApp ELSE Here
    <3>1. /\ shell' = [shell EXCEPT !.tile = IF there THEN "here" ELSE "gone"]
          /\ frame' = (IF there THEN frame ELSE Door!NoFrame) /\ go' = (IF there THEN go ELSE NoApp)
          /\ UNCHANGED <<doors, forced, focus, top, moved>>
      BY <2>3 DEF Door!ReadTiles, Here
    <3>2. ~moved /\ there => Here /\ ~forced
      BY <1>d, <2>1 DEF Quiet
    <3> HIDE DEF there
    <3>3. /\ shell'.slug = shell.slug /\ (~there => shell'.tile = "gone")
          /\ Door!Focused' = Door!Focused /\ Here' = Here
      BY <3>1 DEF DoorTypes, Door!Focused, Here
    <3>4. CASE there
      BY <1>d, <2>1, <3>1, <3>2, <3>3, <3>4 DEF FrameInv, Quiet, Framing
    <3>5. CASE ~there
      BY <1>d, <2>1, <3>1, <3>3, <3>5 DEF FrameInv, Quiet, Framing, Door!NoFrame, Door!Doc
    <3> QED BY <3>4, <3>5
  <2>4. CASE Door!ReadFocus /\ ~Door!Expelled
    <3>1. /\ shell' = [shell EXCEPT !.slug = IF forced THEN "refused" ELSE Door!Focused]
          /\ UNCHANGED <<doors, forced, focus, top, moved, frame, go>>
      BY <2>4 DEF Door!ReadFocus
    <3>2. /\ shell'.slug = (IF forced THEN "refused" ELSE Door!Focused)
          /\ shell'.tile = shell.tile /\ Door!Focused # "refused"
      BY <3>1, DoorNone DEF DoorTypes, Door!Focused, DoorApps
    <3>3. Door!Focused' = Door!Focused /\ Here' = Here /\ Framing' = Framing
      BY <3>1 DEF Door!Focused, Here, Framing
    <3> QED BY <1>d, <2>1, <3>1, <3>2, <3>3 DEF FrameInv, Quiet
  <2> QED BY <1>6, <2>2, <2>3, <2>4
<1>7. CASE Door!Refocus
  BY <1>7, <1>b, RefocusGoes
<1>8. CASE Door!Mount
  <2>1. go' \in Navs /\ go'.in = "frame" /\ go' # NoApp
    BY <1>8, MountGoes, DoorNone
  <2>2. /\ go' = [in |-> "frame", loc |-> Door!FrameSrc(top.app, shell.inner), cross |-> FALSE]
        /\ UNCHANGED <<doors, forced, focus, top, shell, frame, moved>>
        /\ Door!InShell /\ shell.tile = "here" /\ Door!InFocus
    BY <1>8 DEF Door!Mount, Door!Go, Door!Mounts
  <2>3. /\ top.doc = "shell" /\ ~go'.cross
        /\ go'.loc = IF top.app \in PathApps THEN Door!Loc("slug", top.app, go'.loc.page)
                     ELSE Door!Loc("root", NoApp, go'.loc.page)
    BY <2>2 DEF Door!InShell, Door!FrameSrc, Door!Loc
  <2>4. ASSUME ~moved PROVE Quiet'
    <3>1. Quiet /\ top.app \in DoorApps
      BY <1>d, <2>2, <2>4
    <3>4. Here /\ ~forced
      BY <2>2, <3>1 DEF Quiet
    <3>2. Here /\ (top.app \notin PathApps => Door!Focused = top.app)
      BY <2>2, <3>1, <3>4, DoorNone DEF Quiet, Door!InFocus
    <3>3. Door!Focused' = Door!Focused /\ Here' = Here
      BY <2>2 DEF Door!Focused, Here
    <3> QED BY <2>2, <3>1, <3>2, <3>3, <3>4 DEF Quiet
  <2> QED BY <2>2, <2>3, <2>4 DEF FrameInv
<1>e. ASSUME go' = go, go = NoApp, top'.doc # "shell" PROVE FrameInv'
  BY <1>e DEF FrameInv, Framing, Door!InShell
<1>f. ASSUME Door!Onward(top.back), go = NoApp PROVE FrameInv'
  BY <1>b, <1>e, <1>f, OnwardGoes, OnwardStays, HomeIsDocument
<1>9. CASE Door!Follows \/ Door!SentToLogin \/ Door!SentToChange \/ Door!ChangePassword
  <2>1. CASE top' = [top EXCEPT !.doc = "form"] /\ go' = go /\ go = NoApp
    BY <1>e, <2>1 DEF DoorTypes, Documents
  <2>2. CASE go' = go /\ go = NoApp
             /\ (top' = Door!HomePage \/ \E d \in {"login", "change"} : top' = Door!Doc(d, NoApp, "/"))
    BY <1>e, <2>2, HomeIsDocument DEF DocKinds
  <2> QED BY <1>9, <1>f, <2>1, <2>2
      DEF Door!Follows, Door!SentToLogin, Door!SentToChange, Door!ChangePassword
<1>10. CASE Door!Visit
  BY <1>10, <1>b, VisitGoes
<1>11. CASE Door!FrameClick
  <2>1. PICK p : go' = [in |-> "frame",
                        loc |-> IF top.app \in PathApps THEN Door!Loc("slug", top.app, p)
                                ELSE Door!Loc("root", NoApp, p),
                        cross |-> FALSE]
    BY <1>11 DEF Door!FrameClick, Door!Go
  <2>2. Door!InShell /\ frame.doc = "app" /\ UNCHANGED <<doors, forced, focus, top, shell, frame, moved>>
    BY <1>11 DEF Door!FrameClick
  <2>3. /\ top.doc = "shell" /\ ~go'.cross
        /\ go'.loc = IF top.app \in PathApps THEN Door!Loc("slug", top.app, go'.loc.page)
                     ELSE Door!Loc("root", NoApp, go'.loc.page)
    BY <2>1, <2>2 DEF Door!InShell, Door!Loc
  <2>4. ASSUME ~moved PROVE Quiet'
    <3>1. Quiet
      BY <1>d, <2>2, <2>4
    <3>2. Here /\ ~forced /\ (top.app \notin PathApps => Door!Focused = top.app)
      BY <2>2, <3>1 DEF Quiet, Door!NoFrame, Door!Doc
    <3>3. Door!Focused' = Door!Focused /\ Here' = Here
      BY <2>2 DEF Door!Focused, Here
    <3> QED BY <2>2, <3>1, <3>2, <3>3 DEF Quiet
  <2> QED BY <2>2, <2>3, <2>4 DEF FrameInv
<1>12. CASE Door!SignInLink
  BY <1>12, <1>b, LinkGoes
<1>13. ASSUME UNCHANGED <<doors, forced, focus, top, frame, go, moved>>, shell' = shell PROVE FrameInv'
  <2>1. Door!Focused' = Door!Focused /\ Here' = Here /\ Framing' = Framing /\ Door!InShell' = Door!InShell
    BY <1>13 DEF Door!Focused, Here, Framing, Door!InShell, Door!Leaving
  <2> QED BY <1>13, <2>1 DEF FrameInv, Quiet
<1>14. CASE Door!Refetch
  <2>1. shell'.tile = "unread" /\ shell'.slug = "unread" /\ UNCHANGED <<doors, forced, focus, top, frame, go, moved>>
    BY <1>14 DEF Door!Refetch, DoorTypes
  <2>2. Door!Focused' = Door!Focused /\ Here' = Here /\ Framing' = Framing /\ Door!InShell' = Door!InShell
    BY <2>1 DEF Door!Focused, Here, Framing, Door!InShell, Door!Leaving
  <2> QED BY <2>1, <2>2 DEF FrameInv, Quiet
<1>15. CASE Door!OtherTab \/ Door!ForcePassword \/ Door!Edit
  <2>1. moved' /\ UNCHANGED <<top, go>>
    BY <1>15 DEF Door!OtherTab, Door!ForcePassword, Door!Edit, Door!Changed
  <2> QED BY <2>1 DEF FrameInv, Framing
<1>16. CASE Door!SignIn \/ Door!Sso \/ Door!Dismiss
  <2>1. go = NoApp /\ top.doc # "shell"
    BY <1>16 DEF Door!SignIn, Door!Sso, Door!Dismiss, Door!AtForm
  <2>2. CASE Door!Sso
    BY <1>b, <2>2, SsoGoes
  <2>3. CASE top' = [top EXCEPT !.back = NoApp] /\ go' = go
    BY <1>e, <2>1, <2>3 DEF DoorTypes, Documents
  <2>4. CASE go' = go /\ (top' = Door!HomePage \/ top' = Door!Doc("change", NoApp, "/"))
    BY <1>e, <2>1, <2>4, HomeIsDocument DEF DocKinds
  <2> QED BY <1>16, <1>f, <2>1, <2>2, <2>3, <2>4 DEF Door!SignIn, Door!Dismiss
<1> QED
  BY <1>1, <1>2, <1>3, <1>4, <1>5, <1>6, <1>7, <1>8, <1>9, <1>10, <1>11, <1>12, <1>13, <1>14,
     <1>15, <1>16 DEF Door!Next, Door!Browser, Door!vars, Door!Expire

\* The way back from the end of the session: where the tab may be on it.
Same == {lost.page, Door!Landing(lost.app, lost.page)}
Bound(l) == go # NoApp /\ go.in = "top" /\ ~go.cross /\ go.loc = l
LoginPage == Door!Login(Door!ShellLoc(lost.app, lost.page))
IsOpen == lost.app \in FocusApps /\ doors[lost.app].on /\ doors[lost.app].may

AtNotice ==
  /\ ~session /\ go = NoApp
  /\ top.doc = "shell" /\ top.app = lost.app /\ top.page = lost.page
  /\ frame.doc = "expired" /\ frame.app = lost.app /\ frame.page = lost.page
ToExit == ~session /\ Bound(Door!ViaExit(LoginPage))
ToLogin == ~session /\ Bound(LoginPage) /\ Door!Focused = NoApp
AtLogin == ~session /\ go = NoApp /\ top.doc = "login" /\ top.back = Door!ShellLoc(lost.app, lost.page)
ToShell == Door!Accepts /\ \E p \in Same : Bound(Door!ShellLoc(lost.app, p))
InTheShell ==
  /\ Door!Accepts /\ ~moved /\ Door!InShell
  /\ top.app = lost.app /\ top.page \in Same /\ shell.inner \in Same
  /\ frame.doc # "expired"
  /\ Framing => go.loc.page \in Same
ToOpen == Door!Accepts /\ IsOpen /\ \E p \in Same : Bound(Door!Loc("open", lost.app, p))
ToApp ==
  Door!Accepts /\ IsOpen /\ Door!Focused = lost.app /\ \E p \in Same : Bound(Door!Loc("root", NoApp, p))
InApp == Door!Accepts /\ go = NoApp /\ top.doc = "app" /\ top.app = lost.app /\ top.page \in Same

OnTheWay ==
  AtNotice \/ ToExit \/ ToLogin \/ AtLogin \/ ToShell \/ InTheShell \/ ToOpen \/ ToApp \/ InApp

ReturnInv ==
  lost # NoApp /\ ~lost.astray =>
    lost.app \in DoorApps /\ lost.page \in DoorPages /\ lost.page # "login" /\ OnTheWay

\* What the tab does by itself, and what its user does at a notice or a form.
Walks ==
  \/ Door!Browser \/ Door!SignInLink \/ Door!SignIn \/ Door!Sso \/ Door!Dismiss
  \/ Door!ChangePassword \/ Door!Refetch

DoorInv == DoorTypes /\ FrameInv /\ ReturnInv

LEMMA SamePages ==
  ASSUME NEW P, P # "login", NEW A, NEW p \in {P, Door!Landing(A, P)}
  PROVE  /\ Door!Landing(A, p) \in {P, Door!Landing(A, P)}
         /\ (IF p = "login" THEN "/" ELSE p) \in {P, Door!Landing(A, P)}
BY DEF Door!Landing

\* The session ends under the frame's request.
LEMMA Loses ==
  ASSUME DoorTypes, FrameInv, Door!AuthCheck, ~Door!Signed, Framing, lost' # NoApp
  PROVE  lost'.app \in DoorApps /\ lost'.page \in DoorPages /\ lost'.page # "login" /\ AtNotice'
<1> DEFINE a == Door!Serves(go.loc)
           p == Door!PageOf(go.loc, a)
<1>1. /\ Door!Show(Door!Doc("expired", a, p), go.loc)
      /\ lost' = IF ~session /\ a = top.app /\ Door!Safe(Door!ShellLoc(a, p))
                 THEN [app |-> a, page |-> p, astray |-> FALSE] ELSE NoApp
      /\ UNCHANGED <<doors, focus, session>>
  BY DEF Door!AuthCheck, Framing, Door!Framed
<1>2. a \in DoorApps /\ p \in DoorPages
  BY CheckStops
<1> HIDE DEF a, p
<1>3. /\ ~session /\ a = top.app /\ Door!Safe(Door!ShellLoc(a, p))
      /\ lost' = [app |-> a, page |-> p, astray |-> FALSE]
  BY <1>1
<1>4. lost'.app = a /\ lost'.page = p
  BY <1>3
<1>5. p # "login"
  BY <1>3 DEF Door!Safe, Door!ShellLoc, Door!Loc
<1>6. top.doc = "shell" /\ ~go.cross
      /\ (a \in PathApps => go.loc.k = "slug" /\ go.loc.app = a)
  BY <1>3 DEF FrameInv, Door!Loc
<1>8. frame' = Door!Doc("expired", a, p) /\ go' = NoApp /\ top' = [top EXCEPT !.page = p]
      /\ UNCHANGED <<shell, moved>>
  BY <1>1, <1>3, <1>5, <1>6 DEF Door!Show, Door!Doc
<1>9. top'.doc = "shell" /\ top'.app = a /\ top'.page = p
  BY <1>3, <1>6, <1>8 DEF DoorTypes, Documents
<1> QED BY <1>1, <1>2, <1>3, <1>4, <1>5, <1>8, <1>9 DEF AtNotice, Door!Doc

LEMMA LeavesNotice ==
  ASSUME DoorTypes, lost # NoApp, ~lost.astray, lost.app \in DoorApps, lost.page # "login",
         lost' = lost, AtNotice, Walks
  PROVE  AtNotice' \/ ToExit' \/ ToLogin'
<1>0. lost' # Door!Astray
  BY AstrayTypes
<1>1. CASE Door!Expelled
  <2>1. go' \in Navs /\ go' # NoApp
    BY <1>1, ExpelledGoes, DoorNone DEF AtNotice
  <2>2. Door!SafeOrNone(Door!ShellLoc(top.app, top.page)) = Door!ShellLoc(lost.app, lost.page)
    BY DEF AtNotice, Door!SafeOrNone, Door!Safe, Door!ShellLoc, Door!Loc
  <2>3. go' = [in |-> "top", loc |-> Door!ViaExit(LoginPage), cross |-> FALSE] /\ ~session'
    BY <1>1, <2>2 DEF Door!Expelled, Door!Go, LoginPage, AtNotice
  <2>4. LoginPage' = LoginPage
    BY DEF LoginPage
  <2>5. Bound(Door!ViaExit(LoginPage))'
    BY <2>1, <2>3, <2>4 DEF Bound
  <2> QED BY <2>3, <2>5 DEF ToExit
<1>2. CASE Door!SignInLink
  <2> DEFINE A == lost.app
             l == IF A \in PathApps THEN Door!Loc("slug", A, lost.page)
                  ELSE Door!Loc("root", NoApp, lost.page)
  <2>1. go' \in Navs /\ go' # NoApp
    BY <1>2, LinkGoes, DoorNone
  <2>2. go' = [in |-> "top", loc |-> Door!LoginRedirect(A, l, TRUE), cross |-> FALSE]
        /\ UNCHANGED <<doors, session, focus>> /\ (A \in PathApps => Door!Focused = NoApp)
    BY <1>0, <1>2 DEF Door!SignInLink, Door!Go, AtNotice
  <2>3. Door!PageOf(l, A) = lost.page
    BY DEF Door!PageOf, Door!Loc
  <2>4. Door!SafeOrNone(Door!ShellLoc(A, lost.page)) = Door!ShellLoc(A, lost.page)
    BY DEF Door!SafeOrNone, Door!Safe, Door!ShellLoc, Door!Loc
  <2>5. Door!LoginRedirect(A, l, TRUE)
          = IF A \in FocusApps THEN Door!ViaExit(LoginPage) ELSE LoginPage
    BY <2>3, <2>4 DEF Door!LoginRedirect, LoginPage
  <2>6. LoginPage' = LoginPage /\ Door!Focused' = Door!Focused
    BY <2>2 DEF LoginPage, Door!Focused
  <2>7. CASE A \in FocusApps
    BY <2>1, <2>2, <2>5, <2>6, <2>7 DEF ToExit, Bound, AtNotice
  <2>8. CASE A \in PathApps /\ A \notin FocusApps
    BY <2>1, <2>2, <2>5, <2>6, <2>8 DEF ToLogin, Bound, AtNotice
  <2> QED BY <2>7, <2>8 DEF DoorApps
<1>3. CASE Door!Refetch
  BY <1>3 DEF Door!Refetch, AtNotice, Door!Focused
<1>4. ~Door!Refocus
  BY <1>0 DEF Door!Refocus, AtNotice
<1>5. ~Door!Mount
  BY DEF Door!Mount, Door!Mounts, AtNotice, Door!NoFrame, Door!Doc
<1>6. /\ ~Door!ExitService /\ ~Door!OpenService /\ ~Door!ShellPage /\ ~Door!PortalPage
      /\ ~Door!AuthCheck /\ ~Door!Follows /\ ~Door!SentToLogin /\ ~Door!SentToChange
      /\ ~Door!SignIn /\ ~Door!Sso /\ ~Door!Dismiss /\ ~Door!ChangePassword
  BY DEF Door!ExitService, Door!OpenService, Door!ShellPage, Door!PortalPage, Door!AuthCheck,
         Door!Follows, Door!SentToLogin, Door!SentToChange, Door!SignIn, Door!Sso, Door!Dismiss,
         Door!ChangePassword, Door!AtForm, AtNotice
<1>7. Door!ReadTiles \/ Door!ReadFocus => Door!Expelled
  BY DEF Door!ReadTiles, Door!ReadFocus, AtNotice
<1> QED BY <1>1, <1>2, <1>3, <1>4, <1>5, <1>6, <1>7 DEF Walks, Door!Browser

\* Neither at rest in the shell nor at a page that goes on by itself.
LEMMA OnlyRequests ==
  ASSUME go # NoApp, ~Framing, DoorTypes,
         Walks
  PROVE  Door!ExitService \/ Door!OpenService \/ Door!ShellPage \/ Door!PortalPage \/ Door!AuthCheck
<1>1. Door!Leaving
  BY GoIsNav DEF Door!Leaving, Framing
<1> QED
  BY <1>1 DEF Door!Browser, Door!ReadTiles, Door!ReadFocus, Door!Refocus, Door!Mount,
     Door!InShell, Door!Follows, Door!SentToLogin, Door!SentToChange, Door!SignInLink, Door!SignIn,
     Door!Sso, Door!Dismiss, Door!ChangePassword, Door!AtForm, Door!Refetch, Walks

LEMMA LoginPageIs ==
  /\ LoginPage.k = "root" /\ LoginPage.page = "login"
  /\ LoginPage.back = Door!ShellLoc(lost.app, lost.page)
  /\ Door!ViaExit(LoginPage).k = "exit" /\ [Door!ViaExit(LoginPage) EXCEPT !.k = "root"] = LoginPage
<1> DEFINE X == Door!ShellLoc(lost.app, lost.page)
<1> HIDE DEF X
<1>1. LoginPage = [k |-> "root", app |-> NoApp, page |-> "login", back |-> X]
  BY DEF LoginPage, Door!Login, Door!Loc, X
<1>2. Door!ViaExit(LoginPage) = [k |-> "exit", app |-> NoApp, page |-> "login", back |-> X]
  BY <1>1 DEF Door!ViaExit
<1>3. [Door!ViaExit(LoginPage) EXCEPT !.k = "root"] = LoginPage
  BY <1>1, <1>2
<1> QED BY <1>1, <1>2, <1>3 DEF X

LEMMA LeavesForLogin ==
  ASSUME DoorTypes, lost' = lost, ToExit \/ ToLogin,
         Walks
  PROVE  ToLogin' \/ AtLogin'
<1>0. go # NoApp /\ ~Framing /\ LoginPage' = LoginPage
  BY DEF ToExit, ToLogin, Bound, Framing, LoginPage
<1>1. CASE ToExit
  <2>1. Door!ExitService
    BY <1>0, <1>1, OnlyRequests, LoginPageIs
    DEF ToExit, Bound, Door!OpenService, Door!ShellPage, Door!PortalPage, Door!AuthCheck
  <2>2. go' \in Navs /\ go' # NoApp
    BY <2>1, ExitGoes, DoorNone
  <2>3. go' = [go EXCEPT !.loc = LoginPage] /\ focus' = NoApp /\ UNCHANGED session
    BY <1>1, <2>1, LoginPageIs DEF Door!ExitService, Door!Redirect, ToExit, Bound
  <2>4. go'.in = "top" /\ ~go'.cross /\ go'.loc = LoginPage
    BY <1>0, <1>1, <2>3, GoIsNav DEF Navs, ToExit, Bound
  <2> QED BY <1>0, <1>1, <2>2, <2>3, <2>4 DEF ToLogin, ToExit, Bound, Door!Focused
<1>2. CASE ToLogin
  <2>1. Door!Serves(go.loc) = NoApp
    BY <1>2, LoginPageIs DEF ToLogin, Bound, Door!Serves
  <2>2. Door!PortalPage
    BY <1>0, <1>2, <2>1, OnlyRequests, LoginPageIs
    DEF ToLogin, Bound, Door!OpenService, Door!ShellPage, Door!ExitService, Door!AuthCheck
  <2>3. Door!Load([Door!Doc("login", NoApp, "/") EXCEPT !.back = go.loc.back])
    BY <1>0, <1>2, <2>2, LoginPageIs DEF Door!PortalPage, Door!Framed, Framing, ToLogin, Bound
  <2>4. top'.doc = "login" /\ top'.back = go.loc.back /\ go' = NoApp /\ UNCHANGED session
    BY <2>2, <2>3 DEF Door!Load, Door!Doc, Door!PortalPage
  <2> QED BY <1>2, <2>4, LoginPageIs DEF AtLogin, ToLogin, Bound
<1> QED BY <1>1, <1>2

LEMMA LeavesLogin ==
  ASSUME DoorTypes, lost # NoApp, ~lost.astray, lost.app \in DoorApps, lost.page \in DoorPages,
         lost' = lost, AtLogin, Walks
  PROVE  ToShell'
<1>0. lost' # Door!Astray
  BY AstrayTypes
<1>1. Door!SignIn /\ ~forced /\ Door!Onward(top.back)
  BY <1>0 DEF AtLogin, Walks, Door!Browser, Door!ExitService, Door!OpenService, Door!ShellPage,
     Door!PortalPage, Door!AuthCheck, Door!ReadTiles, Door!ReadFocus, Door!Refocus, Door!Mount,
     Door!InShell, Door!Follows, Door!SentToLogin, Door!SentToChange, Door!SignInLink, Door!Refetch,
     Door!SignIn, Door!Sso, Door!Dismiss, Door!ChangePassword
<1>2. top.back # NoApp
  BY LocIsStop, DoorNone DEF AtLogin, Door!ShellLoc
<1>3. go' \in Navs /\ go' # NoApp
  BY <1>1, <1>2, OnwardGoes, DoorNone
<1>4. /\ go' = [in |-> "top", loc |-> Door!ShellLoc(lost.app, lost.page), cross |-> FALSE]
      /\ Door!Accepts'
  BY <1>1, <1>2 DEF Door!SignIn, Door!Onward, Door!Go, AtLogin, Door!Accepts
<1>5. Bound(Door!ShellLoc(lost.app, lost.page))'
  BY <1>3, <1>4 DEF Bound
<1> QED BY <1>4, <1>5 DEF ToShell, Same

\* What another tab, an admin or the end of the session does to one who is signed out.
LEMMA WaitsOut ==
  ASSUME DoorTypes, ~session, lost # NoApp, lost' = lost, OnTheWay,
         Door!OtherTab \/ Door!ForcePassword \/ Door!Edit
  PROVE  OnTheWay'
<1>1. session' \in {session, FALSE} /\ UNCHANGED <<top, frame, go>>
  BY DEF Door!OtherTab, Door!ForcePassword, Door!Edit
<1>2. LoginPage' = LoginPage
  BY DEF LoginPage
<1>3. AtNotice \/ ToExit \/ ToLogin \/ AtLogin
  BY DEF OnTheWay, ToShell, InTheShell, ToOpen, ToApp, InApp, Door!Accepts
<1>4. ASSUME Door!Focused = NoApp PROVE Door!Focused' = NoApp
  <2>1. CASE Door!OtherTab
    BY <2>1 DEF Door!OtherTab, Door!Accepts, Door!Focused
  <2>2. CASE Door!ForcePassword
    BY <1>4, <2>2 DEF Door!ForcePassword, Door!Focused
  <2>3. CASE Door!Edit
    <3>1. UNCHANGED focus
      BY <2>3 DEF Door!Edit
    <3>2. CASE focus = NoApp
      BY <3>1, <3>2 DEF Door!Focused
    <3>3. CASE focus # NoApp
      <4>1. /\ focus.app \in DoorApps /\ focus.app # NoApp
            /\ focus.id \in Nat /\ doors[focus.app].id \in Nat
            /\ focus.id <= doors[focus.app].id
        BY <3>3, DoorNone DEF DoorTypes, DoorApps
      <4>2. focus.id < doors[focus.app].id
        BY <1>4, <3>3, <4>1 DEF Door!Focused
      <4>3. doors'[focus.app].id \in {doors[focus.app].id, doors[focus.app].id + 1}
        <5>1. PICK a \in DoorApps :
                doors' \in {[doors EXCEPT ![a].on = ~@], [doors EXCEPT ![a].may = ~@],
                            [doors EXCEPT ![a].frame = ~@], [doors EXCEPT ![a].id = @ + 1]}
          BY <2>3 DEF Door!Edit, Door!Apps, DoorApps
        <5> QED BY <4>1, <5>1 DEF DoorTypes
      <4>4. focus.id # doors'[focus.app].id
        BY <4>1, <4>2, <4>3
      <4> QED BY <3>1, <4>4 DEF Door!Focused
    <3> QED BY <3>2, <3>3
  <2> QED BY <2>1, <2>2, <2>3
<1> QED BY <1>1, <1>2, <1>3, <1>4 DEF OnTheWay, AtNotice, ToExit, ToLogin, AtLogin, Bound

LEMMA LeavesForShell ==
  ASSUME DoorTypes, lost' = lost, ToShell,
         Walks
  PROVE  InTheShell'
<1>1. PICK p \in Same : Bound(Door!ShellLoc(lost.app, p))
  BY DEF ToShell
<1>2. go # NoApp /\ ~Framing /\ go.loc.k = "shell" /\ go.loc.app = lost.app /\ go.loc.page = p
  BY <1>1 DEF Bound, Framing, Door!ShellLoc, Door!Loc
<1>3. Door!ShellPage
  BY <1>2, OnlyRequests DEF Door!ExitService, Door!OpenService, Door!PortalPage, Door!AuthCheck
<1>4. Door!Load(Door!Doc("shell", lost.app, p)) /\ Door!Accepts'
  BY <1>2, <1>3 DEF Door!ShellPage, Door!Framed, Framing, ToShell, Door!Accepts
<1>5. /\ go' = NoApp /\ ~moved' /\ frame'.doc = "none" /\ shell'.inner = p
      /\ top'.doc = "shell" /\ top'.app = lost.app /\ top'.page = p
  BY <1>4 DEF Door!Load, Door!Doc, Door!NoFrame, Door!Unread
<1> QED BY <1>4, <1>5 DEF InTheShell, Door!InShell, Door!Leaving, Framing, Same

LEMMA LeavesForOpen ==
  ASSUME DoorTypes, lost.page # "login", lost' = lost, ToOpen,
         Walks
  PROVE  ToShell' \/ ToApp'
<1> DEFINE A == lost.app
<1>1. PICK q \in Same : Bound(Door!Loc("open", A, q))
  BY DEF ToOpen
<1>2. go # NoApp /\ ~Framing /\ go.loc.k = "open" /\ go.loc.app = A /\ go.loc.page = q /\ ~go.cross
  BY <1>1 DEF Bound, Framing, Door!Loc
<1>3. Door!OpenService
  BY <1>2, OnlyRequests DEF Door!ExitService, Door!ShellPage, Door!PortalPage, Door!AuthCheck
<1> DEFINE p == IF q = "login" THEN "/" ELSE q
<1>4. p \in Same /\ UNCHANGED Same
  BY SamePages DEF Same
<1>5. /\ focus' = [app |-> A, id |-> doors[A].id] /\ UNCHANGED <<doors, session, forced>>
      /\ Door!Redirect(IF doors[A].frame THEN Door!ShellLoc(A, p) ELSE Door!Loc("root", NoApp, p))
  BY <1>2, <1>3 DEF Door!OpenService, ToOpen, IsOpen, Door!Signed, Door!Accepts
<1>6. Door!ShellLoc(A, p) \in Stops /\ Door!Loc("root", NoApp, p) \in Stops
      /\ A \in FocusApps /\ A \in DoorApps
  BY <1>2, <1>3, OpenStops
<1>7. focus' # NoApp /\ Door!Focused' = A
  <2>1. focus' \in [app : FocusApps, id : Nat]
    BY <1>5, <1>6 DEF DoorTypes
  <2> QED BY <1>5, <2>1, DoorNone DEF Door!Focused
<1>8. Door!Accepts' /\ IsOpen'
  BY <1>5 DEF ToOpen, IsOpen, Door!Accepts
<1> HIDE DEF p
<1>9. ASSUME NEW l \in Stops, Door!Redirect(l) PROVE Bound(l)'
  BY <1>2, <1>9, RedirectTypes, DoorNone, GoIsNav DEF Bound, Framing
<1> QED BY <1>4, <1>5, <1>6, <1>7, <1>8, <1>9 DEF ToShell, ToApp

LEMMA LeavesForApp ==
  ASSUME DoorTypes, lost.page # "login", lost' = lost, ToApp,
         Walks
  PROVE  ToShell' \/ InApp'
<1> DEFINE A == lost.app
<1>1. PICK p \in Same : Bound(Door!Loc("root", NoApp, p))
  BY DEF ToApp
<1>2. go # NoApp /\ ~Framing /\ go.loc.k = "root" /\ go.loc.page = p /\ ~go.cross
  BY <1>1 DEF Bound, Framing, Door!Loc
<1>3. Door!Serves(go.loc) = A /\ A # NoApp /\ Door!PageOf(go.loc, A) = p
  BY <1>2, DoorNone DEF Door!Serves, ToApp, IsOpen, DoorApps, Door!PageOf
<1>4. Door!AuthCheck
  BY <1>2, <1>3, OnlyRequests DEF Door!ExitService, Door!OpenService, Door!ShellPage, Door!PortalPage
<1>5. Door!Landing(A, p) \in Same /\ UNCHANGED Same
  BY SamePages DEF Same
<1>6. \/ Door!Redirect(Door!ShellLoc(A, p)) /\ UNCHANGED <<session, forced>>
      \/ Door!Load(Door!Doc("app", A, Door!Landing(A, p))) /\ UNCHANGED <<session, forced>>
  BY <1>2, <1>3, <1>4 DEF Door!AuthCheck, Door!Signed, Door!Framed, Framing, Door!Answer, ToApp, IsOpen
<1>7. Door!ShellLoc(A, p) \in Stops
  BY <1>3, <1>4, CheckStops
<1>8. CASE Door!Redirect(Door!ShellLoc(A, p)) /\ UNCHANGED <<session, forced>>
  <2>1. Bound(Door!ShellLoc(A, p))'
    BY <1>2, <1>7, <1>8, RedirectTypes, DoorNone, GoIsNav DEF Bound, Framing
  <2> QED BY <1>5, <1>8, <2>1 DEF ToShell, ToApp, Door!Accepts
<1>9. CASE Door!Load(Door!Doc("app", A, Door!Landing(A, p))) /\ UNCHANGED <<session, forced>>
  BY <1>5, <1>9 DEF Door!Load, Door!Doc, InApp, ToApp, Door!Accepts
<1> QED BY <1>6, <1>8, <1>9

LEMMA StaysInApp ==
  ASSUME InApp, Walks
  PROVE  FALSE
BY DEF InApp, Walks, Door!Browser, Door!ExitService, Door!OpenService, Door!ShellPage,
   Door!PortalPage, Door!AuthCheck, Door!ReadTiles, Door!ReadFocus, Door!Refocus, Door!Mount,
   Door!InShell, Door!SentToLogin, Door!SentToChange, Door!Follows, Door!SignIn, Door!Sso,
   Door!Dismiss, Door!ChangePassword, Door!AtForm, Door!SignInLink, Door!Refetch

LEMMA MovesInShell ==
  ASSUME DoorTypes, FrameInv, lost.app \in DoorApps, lost.page # "login", lost' = lost, InTheShell,
         Walks
  PROVE  InTheShell' \/ ToOpen' \/ ToApp'
<1> DEFINE A == lost.app
<1>0. /\ Quiet /\ (go # NoApp => Framing) /\ UNCHANGED Same /\ top.app = A
      /\ top.doc = "shell" /\ session /\ ~forced /\ ~moved
  BY GoIsNav DEF InTheShell, FrameInv, Door!InShell, Door!Leaving, Framing, Same, Door!Accepts
<1>1. CASE Door!AuthCheck
  <2> DEFINE p == Door!PageOf(go.loc, A)
  <2>1. Framing /\ Door!Serves(go.loc) = A /\ p = go.loc.page /\ Here /\ go # NoApp
    BY <1>0, <1>1, FrameIsServed DEF Door!AuthCheck, Framing
  <2>2. p \in DoorPages /\ Door!Landing(A, p) \in DoorPages
    BY <1>1, <2>1, CheckStops
  <2>3. p \in Same /\ Door!Landing(A, p) \in Same
    BY <1>0, <2>1, SamePages DEF InTheShell, Same
  <2>4. /\ go.loc = IF A \in PathApps THEN Door!Loc("slug", A, p) ELSE Door!Loc("root", NoApp, p)
        /\ ~go.cross
    BY <1>0, <2>1 DEF FrameInv
  <2>5. Door!Show(Door!Doc("app", A, Door!Landing(A, p)), go.loc) /\ UNCHANGED <<doors, session, forced, focus>>
    BY <1>0, <1>1, <2>1, <2>4
    DEF Door!AuthCheck, Door!Signed, Door!Accepts, Door!Framed, Framing, Here, Door!Answer
  <2> DEFINE q == Door!Landing(A, p)
  <2>6. CASE A \in PathApps \/ q # "login"
    <3>1. /\ frame' = Door!Doc("app", A, q) /\ go' = NoApp /\ top' = [top EXCEPT !.page = q]
          /\ UNCHANGED <<shell, moved>>
      BY <1>0, <2>4, <2>5, <2>6 DEF Door!Show, Door!Doc, Door!Loc
    <3>2. top'.doc = "shell" /\ top'.app = A /\ top'.page = q
      BY <1>0, <3>1 DEF DoorTypes, Documents
    <3> QED BY <1>0, <2>3, <2>5, <3>1, <3>2
        DEF InTheShell, Door!InShell, Door!Leaving, Framing, Door!Doc, Door!Accepts
  <2>7. CASE A \notin PathApps /\ q = "login"
    <3>0. PICK r : r = q
      OBVIOUS
    <3>1. [go.loc EXCEPT !.page = q] = Door!Loc("root", NoApp, r)
      BY <2>4, <2>7, <3>0 DEF Door!Loc
    <3>2. go' = [in |-> "top", loc |-> Door!Loc("root", NoApp, r), cross |-> FALSE]
      BY <1>0, <2>5, <2>7, <3>1 DEF Door!Show, Door!Doc
    <3>3. Door!Loc("root", NoApp, r) \in Stops
      BY <2>2, <3>0, LocIsStop
    <3>4. Bound(Door!Loc("root", NoApp, r))'
      BY <3>2, <3>3, GoTypes DEF Bound
    <3>5. IsOpen' /\ Door!Focused' = A
      BY <1>0, <2>1, <2>5, <2>7 DEF IsOpen, Here, Quiet, Door!Focused, DoorApps
    <3> QED BY <1>0, <2>3, <2>5, <3>0, <3>4, <3>5 DEF ToApp, Door!Accepts
  <2> QED BY <2>6, <2>7
<1>2. CASE Door!Refocus
  <2>1. go' \in Navs /\ go' # NoApp
    BY <1>2, RefocusGoes, DoorNone
  <2>0. PICK r \in Same : r = shell.inner
    BY DEF InTheShell
  <2>2. go' = [in |-> "top", loc |-> Door!Loc("open", A, r), cross |-> FALSE]
        /\ UNCHANGED <<doors, session, forced>>
    BY <1>0, <1>2, <2>0 DEF Door!Refocus, Door!Go
  <2>3. Bound(Door!Loc("open", A, r))'
    BY <2>1, <2>2 DEF Bound
  <2>4. IsOpen'
    BY <1>0, <1>2, <2>2 DEF IsOpen, Quiet, Here, Door!Refocus, Door!Refocuses, Door!InFocus, DoorApps
  <2> QED BY <1>0, <2>0, <2>2, <2>3, <2>4 DEF ToOpen, Door!Accepts
<1>3. CASE Door!Mount
  <2>1. go' \in Navs /\ go'.in = "frame"
    BY <1>3, MountGoes
  <2>2. go' = [in |-> "frame", loc |-> Door!FrameSrc(A, shell.inner), cross |-> FALSE]
        /\ UNCHANGED <<doors, session, forced, top, shell, frame, moved>>
    BY <1>0, <1>3 DEF Door!Mount, Door!Go
  <2>3. Door!FrameSrc(A, shell.inner).page \in Same
    BY SamePages DEF Door!FrameSrc, Door!Loc, InTheShell, Same
  <2> QED BY <1>0, <2>1, <2>2, <2>3 DEF InTheShell, Door!InShell, Door!Leaving, Framing, Door!Accepts
<1>4. CASE Door!ReadTiles
  <2>1. /\ shell' = [shell EXCEPT !.tile = IF Here THEN "here" ELSE "gone"]
        /\ frame' = (IF Here THEN frame ELSE Door!NoFrame) /\ go' = (IF Here THEN go ELSE NoApp)
        /\ UNCHANGED <<session, forced, top, moved>>
    BY <1>0, <1>4 DEF Door!ReadTiles, Here, Door!Expelled
  <2>2. shell'.inner = shell.inner
    BY <2>1 DEF DoorTypes
  <2> QED BY <1>0, <2>1, <2>2
      DEF InTheShell, Door!InShell, Door!Leaving, Framing, Door!NoFrame, Door!Doc, Door!Accepts
<1>5. CASE Door!ReadFocus \/ Door!Refetch
  <2>1. shell'.inner = shell.inner /\ UNCHANGED <<session, forced, top, frame, go, moved>>
    BY <1>0, <1>5 DEF Door!ReadFocus, Door!Refetch, Door!Expelled, DoorTypes
  <2> QED BY <1>0, <2>1 DEF InTheShell, Door!InShell, Door!Leaving, Framing, Door!Accepts
<1>6. ~Door!ExitService /\ ~Door!OpenService /\ ~Door!ShellPage
  <2>1. go # NoApp => go.loc.k \in {"slug", "root"}
    BY <1>0 DEF FrameInv, Door!Loc
  <2> QED BY <2>1 DEF Door!ExitService, Door!OpenService, Door!ShellPage
<1>7. ~Door!PortalPage
  BY <1>0, FrameIsServed, DoorNone DEF Door!PortalPage
<1>8. /\ ~Door!Follows /\ ~Door!SentToLogin /\ ~Door!SentToChange /\ ~Door!SignIn /\ ~Door!Sso
      /\ ~Door!Dismiss /\ ~Door!ChangePassword /\ ~Door!SignInLink
  BY <1>0 DEF Door!Follows, Door!SentToLogin, Door!SentToChange, Door!SignIn, Door!Sso,
     Door!Dismiss, Door!ChangePassword, Door!AtForm, Door!SignInLink, InTheShell
<1> QED BY <1>1, <1>2, <1>3, <1>4, <1>5, <1>6, <1>7, <1>8 DEF Walks, Door!Browser

LEMMA ReturnStep == DoorTypes /\ FrameInv /\ ReturnInv /\ [Door!Next]_(Door!vars) => ReturnInv'
<1> SUFFICES ASSUME DoorTypes, FrameInv, ReturnInv, [Door!Next]_(Door!vars),
                    lost' # NoApp, ~lost'.astray
             PROVE  /\ lost'.app \in DoorApps /\ lost'.page \in DoorPages /\ lost'.page # "login"
                    /\ OnTheWay'
  BY DEF ReturnInv
<1>1. CASE Door!AuthCheck /\ ~Door!Signed /\ Framing
  BY <1>1, Loses DEF OnTheWay
<1>2. CASE lost' = lost /\ Walks
  <2>1. lost.app \in DoorApps /\ lost.page \in DoorPages /\ lost.page # "login" /\ OnTheWay
    BY <1>2 DEF ReturnInv
  <2>2. OnTheWay'
    BY <1>2, <2>1, LeavesNotice, LeavesForLogin, LeavesLogin, LeavesForShell, MovesInShell,
       LeavesForOpen, LeavesForApp, StaysInApp DEF OnTheWay
  <2> QED BY <1>2, <2>1, <2>2
<1>3. CASE UNCHANGED Door!vars
  <2>1. lost.app \in DoorApps /\ lost.page \in DoorPages /\ lost.page # "login" /\ OnTheWay
    BY <1>3 DEF ReturnInv, Door!vars
  <2>2. /\ UNCHANGED <<Same, LoginPage, IsOpen, Framing>> /\ UNCHANGED Door!Focused
        /\ UNCHANGED Door!InShell
    BY <1>3 DEF Door!vars, Same, LoginPage, IsOpen, Framing, Door!Focused, Door!InShell, Door!Leaving
  <2>3. OnTheWay'
    BY <1>3, <2>1, <2>2
    DEF Door!vars, OnTheWay, AtNotice, ToExit, ToLogin, AtLogin, ToShell, InTheShell, ToOpen, ToApp,
        InApp, Bound, Door!Accepts
  <2> QED BY <1>3, <2>1, <2>3 DEF Door!vars
<1>4. CASE Door!OtherTab \/ Door!ForcePassword \/ Door!Edit
  <2>1. ~session /\ lost' = lost
    BY <1>4 DEF Door!OtherTab, Door!ForcePassword, Door!Edit, Door!Changed
  <2>2. lost.app \in DoorApps /\ lost.page \in DoorPages /\ lost.page # "login" /\ OnTheWay
    BY <2>1 DEF ReturnInv
  <2> QED BY <1>4, <2>1, <2>2, WaitsOut
<1>8. ~(Door!Visit \/ Door!FrameClick \/ Door!Expire)
  BY DEF Door!Visit, Door!FrameClick, Door!Expire
<1>5. Door!AuthCheck => (~Door!Signed /\ Framing) \/ lost' = lost
  BY DEF Door!AuthCheck, Framing, Door!Framed
<1>6. Door!Browser /\ ~Door!AuthCheck /\ ~Door!Refocus => lost' = lost
  BY DEF Door!Browser, Door!ExitService, Door!OpenService, Door!ShellPage, Door!PortalPage,
     Door!ReadTiles, Door!ReadFocus, Door!Expelled, Door!Refocus, Door!Mount, Door!Follows,
     Door!SentToLogin, Door!SentToChange
<1>7. /\ Door!Refocus \/ Door!SignInLink \/ Door!SignIn \/ Door!Sso \/ Door!Dismiss
           => lost' = lost \/ lost' = Door!Astray
      /\ Door!ChangePassword \/ Door!Refetch => lost' = lost
  BY DEF Door!Refocus, Door!SignInLink, Door!SignIn, Door!Sso, Door!Dismiss, Door!ChangePassword,
     Door!Refetch
<1>9. lost' # Door!Astray
  BY AstrayTypes
<1>10. Walks => lost' = lost \/ (Door!AuthCheck /\ ~Door!Signed /\ Framing)
  BY <1>5, <1>6, <1>7, <1>9 DEF Walks
<1> QED BY <1>1, <1>2, <1>3, <1>4, <1>8, <1>10 DEF Door!Next, Walks

LEMMA DoorStart == Door!Init => DoorInv
<1> SUFFICES ASSUME Door!Init PROVE DoorInv
  OBVIOUS
<1>1. /\ Door!Doc("home", NoApp, "/") \in Documents /\ Door!NoFrame \in Documents
      /\ Door!Doc("home", NoApp, "/").doc = "home" /\ Door!NoFrame.doc = "none"
  BY DocIsDocument DEF Door!NoFrame, Door!Doc, DoorPages, DocKinds
<1>2. doors \in [DoorApps -> [on : BOOLEAN, may : BOOLEAN, frame : BOOLEAN, id : Nat]]
  <2> DEFINE Fresh == {[on |-> TRUE, may |-> TRUE, frame |-> f, id |-> 0] : f \in BOOLEAN}
  <2>1. Fresh \subseteq [on : BOOLEAN, may : BOOLEAN, frame : BOOLEAN, id : Nat]
    <3>1. ASSUME NEW f \in BOOLEAN
          PROVE  [on |-> TRUE, may |-> TRUE, frame |-> f, id |-> 0]
                   \in [on : BOOLEAN, may : BOOLEAN, frame : BOOLEAN, id : Nat]
      OBVIOUS
    <3> QED BY <3>1
  <2>2. doors \in [DoorApps -> Fresh]
    BY DEF Door!Init, Door!Apps, DoorApps
  <2> HIDE DEF Fresh
  <2> QED BY <2>1, <2>2
<1>3. DoorTypes
  BY <1>1, <1>2 DEF Door!Init, DoorTypes, Door!Unread, DoorPages
<1>4. FrameInv /\ ReturnInv
  BY <1>1 DEF Door!Init, FrameInv, ReturnInv, Framing, Door!InShell
<1> QED BY <1>3, <1>4 DEF DoorInv

LEMMA DoorStep == DoorInv /\ [Door!Next]_(Door!vars) => DoorInv'
BY DoorTypesStep, FrameStep, ReturnStep DEF DoorInv

LEMMA DoorGive == DoorInv => ShellIsTrue
<1> SUFFICES ASSUME DoorInv PROVE Door!FrameIsNamed /\ Door!ReturnsThere
  BY DEF ShellIsTrue, Door!ShellIsTrue
<1>1. Door!FrameIsNamed
  BY DEF DoorInv, FrameInv, Quiet, Door!FrameIsNamed, Door!AtRest, Door!InShell, Door!Leaving
<1>2. Door!ReturnsThere
  <2> SUFFICES ASSUME Door!AtRest, lost # NoApp, session, ~lost.astray PROVE Door!IsBack
    BY DEF Door!ReturnsThere
  <2>1. OnTheWay /\ go = NoApp /\ top.doc # "login"
    BY DEF DoorInv, ReturnInv, Door!AtRest
  <2>2. InTheShell \/ InApp
    BY <2>1 DEF OnTheWay, AtNotice, ToExit, ToLogin, AtLogin, ToShell, ToOpen, ToApp, Bound
  <2> QED BY <2>2 DEF InTheShell, InApp, Same, Door!InShell, Door!IsBack
<1> QED BY <1>1, <1>2

\* At rest the shell frames what its address says, and who signs in again is back at the page of
\* the app the session ended at, but for the ways astray that ReturnsThere names
\* (login_redirect and _focus_response of services_auth.py, shell-app.tsx, LoginPage.tsx).
THEOREM ShellStaysTrue == Door!Spec => []ShellIsTrue
BY DoorGive, DoorStart, DoorStep, PTL DEF Door!Spec

-----------------------------------------------------------------------------
(* All of them                                                             *)

\* All of it holds of the composition that MCServices instantiates: one inductive invariant,
\* the conjunction of the parts', which a step of one part keeps of the others.
THEOREM ServicesAreSafe ==
  SpecAll =>
    [](/\ NetsAreKept /\ ReadyIsNew /\ ChosenStays /\ PodIsNoClient /\ RowsAreWhole
       /\ ShellIsTrue)
<1> DEFINE Inv == NetsInv /\ PodsInv /\ ChecksInv /\ TunnelInv /\ TablesInv /\ DoorInv
<1>1. InitAll => Inv
  BY NetsStart, PodsStart, ChecksStart, TunnelStart, TablesStart, DoorStart DEF InitAll
<1>2. [NextAll]_allVars =>
        /\ [Next]_vars /\ [Pods!Next]_(Pods!vars) /\ [Checks!Next]_(Checks!vars)
        /\ [Tunnel!Next]_(Tunnel!vars) /\ [Tables!Next]_(Tables!vars) /\ [Door!Next]_(Door!vars)
  BY DEF NextAll, allVars, podVars, checkVars, tunnelVars, tableVars, doorVars, Pods!vars, Checks!vars,
         Tunnel!vars, Tables!vars, Door!vars
<1>3. Inv /\ [NextAll]_allVars => Inv'
  BY <1>2, NetsStep, PodsStep, ChecksStep, TunnelStep, TablesStep, DoorStep
<1>4. Inv => NetsAreKept /\ ReadyIsNew /\ ChosenStays /\ PodIsNoClient /\ RowsAreWhole /\ ShellIsTrue
  BY NetsGive, PodsGive, ChecksGive, TunnelGive, TablesGive, DoorGive
<1> QED BY <1>1, <1>3, <1>4, PTL DEF SpecAll
=============================================================================
