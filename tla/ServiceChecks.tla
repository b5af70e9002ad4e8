--------------------------- MODULE ServiceChecks ---------------------------
(***************************************************************************)
(* What the portal finds out about a proxied service while admins change   *)
(* it: its health, pass by pass (services/service_health.py), and its icon *)
(* (services/service_favicon.py, routers/service_icons.py,                 *)
(* routers/services.py).  Both take seconds between the read of the row    *)
(* and the write of the result.  One service, whose upstream is a number   *)
(* that grows with every edit of it.                                       *)
(***************************************************************************)
EXTENDS Naturals

CONSTANTS
  Fetches,   \* bound: favicon tasks alive at once
  Forms,     \* bound: edits of the service under way at once
  MaxEdits,  \* bound: upstreams the service had
  MaxFlips   \* bound: times the upstream comes up or goes down

VARIABLES
  row,      \* [there, target, enabled, health, icon, custom]; icon is Preset, Own (an admin's
            \* image) or the upstream it was fetched from
  up,       \* does the current upstream answer?
  pass,     \* the health loop: [at: "sleep" or "checking", target]
  fetch,    \* per favicon task: [at: "off", "scheduled", "read", "got", target]
  manual,   \* refresh_icon: [at: "off" or "fetching", target, icon, custom], as it was loaded
  form,     \* per edit under way: the icon it has for the row, or none, whether it moves the
            \* upstream, and the row's icon as it was loaded; ghost clean: no refresh by hand ran
  choice,   \* ghost: the icon the admins chose last (ChosenStays says when it counts)
  flips

vars == <<row, up, pass, fetch, manual, form, choice, flips>>
Off == [at |-> "off", target |-> 0]
Asleep == [at |-> "sleep", target |-> 1]
Preset == 0
Own == MaxEdits + 1
NoIcon == MaxEdits + 2
NoRow == [there |-> FALSE, target |-> 1, enabled |-> TRUE, health |-> "unknown", icon |-> Preset,
          custom |-> FALSE]
NoForm == [at |-> "off", icon |-> Preset, custom |-> FALSE, pick |-> NoIcon, move |-> FALSE,
           clean |-> FALSE]

Init ==
  /\ row = NoRow
  /\ up \in BOOLEAN
  /\ pass = Asleep
  /\ fetch = [f \in Fetches |-> Off]
  /\ manual = [at |-> "off", target |-> 0, icon |-> Preset, custom |-> FALSE]
  /\ form = [e \in Forms |-> NoForm]
  /\ choice = NoIcon /\ flips = 0

Truth == IF up THEN "healthy" ELSE "unhealthy"

-----------------------------------------------------------------------------
(* The admins                                                              *)

\* schedule_favicon
Schedule == \E f \in Fetches :
  fetch[f].at = "off" /\ fetch' = [fetch EXCEPT ![f] = [Off EXCEPT !.at = "scheduled"]]

\* create_service: an emoji is a placeholder until the app's own icon is fetched.
Create(image) ==
  /\ ~row.there /\ row.target = 1
  /\ row' = [row EXCEPT !.there = TRUE, !.custom = image, !.icon = IF image THEN Own ELSE Preset]
  /\ IF image THEN choice' = Own /\ UNCHANGED fetch ELSE Schedule /\ UNCHANGED choice
  /\ UNCHANGED <<up, pass, manual, form, flips>>

\* update_service and set_icon load the row; groups and Docker are asked before they commit.
LoadForm(e, pick, move) ==
  /\ row.there /\ form[e].at = "off" /\ (move \/ pick # NoIcon)
  /\ form' = [form EXCEPT ![e] =
       [at |-> "loaded", icon |-> row.icon, custom |-> row.custom, pick |-> pick, move |-> move,
        clean |-> manual.at = "off"]]
  /\ UNCHANGED <<row, up, pass, fetch, manual, choice, flips>>

\* The ORM writes the columns that differ from the row as it was loaded: the icon shown then,
\* chosen again, is not among them.
WritesIcon(e) == form[e].pick \notin {NoIcon, form[e].icon}
WritesCustom(e) == form[e].pick # NoIcon /\ ~form[e].custom

Commit(e) ==
  /\ form[e].at = "loaded" /\ row.there
  /\ IF form[e].move THEN row.target < MaxEdits /\ up' \in BOOLEAN ELSE up' = up
  /\ row' = [row EXCEPT !.target = IF form[e].move THEN @ + 1 ELSE @,
                        !.icon = IF WritesIcon(e) THEN form[e].pick ELSE @,
                        !.custom = @ \/ WritesCustom(e)]
  /\ form' = [form EXCEPT ![e] = NoForm]
  /\ choice' = CASE form[e].pick = NoIcon -> choice
                 [] WritesIcon(e) \/ row.icon = form[e].icon ->
                      IF form[e].clean THEN form[e].pick ELSE NoIcon
                 [] OTHER -> NoIcon
  /\ UNCHANGED <<pass, fetch, manual, flips>>

\* An unknown group or container, a Docker API that is gone, a row that was deleted meanwhile
FormFails(e) ==
  /\ form[e].at = "loaded"
  /\ form' = [form EXCEPT ![e] = NoForm]
  /\ UNCHANGED <<row, up, pass, fetch, manual, choice, flips>>

SetEnabled ==
  /\ row.there
  /\ row' = [row EXCEPT !.enabled = ~@]
  /\ UNCHANGED <<up, pass, fetch, manual, form, choice, flips>>

Delete ==
  /\ row.there
  /\ row' = [NoRow EXCEPT !.target = MaxEdits]
  /\ choice' = NoIcon
  /\ UNCHANGED <<up, pass, fetch, manual, form, flips>>

\* A finished mount job asks for the icon again (service_mounts.py), unless it is custom.
MountDone ==
  /\ row.there /\ Schedule
  /\ UNCHANGED <<row, up, pass, manual, form, choice, flips>>

\* refresh_icon: the row is loaded, then the app is asked.
RefreshIcon ==
  /\ row.there /\ manual.at = "off"
  /\ manual' = [at |-> "fetching", target |-> row.target, icon |-> row.icon,
                custom |-> row.custom]
  /\ form' = [e \in Forms |-> [form[e] EXCEPT !.clean = FALSE]]
  /\ choice' = NoIcon
  /\ UNCHANGED <<row, up, pass, fetch, flips>>

\* The ORM writes what differs from the row it loaded: icon_custom only if it was set.
Refreshed(found) ==
  /\ manual.at = "fetching"
  /\ row' = IF found /\ row.there
            THEN [row EXCEPT !.icon = IF manual.icon # manual.target THEN manual.target ELSE @,
                             !.custom = IF manual.custom THEN FALSE ELSE @]
            ELSE row
  /\ manual' = [at |-> "off", target |-> 0, icon |-> Preset, custom |-> FALSE]
  /\ UNCHANGED <<up, pass, fetch, form, choice, flips>>

-----------------------------------------------------------------------------
(* fetch_and_store                                                         *)

FetchRead(f) ==
  /\ fetch[f].at = "scheduled"
  /\ fetch' = [fetch EXCEPT ![f] = IF row.there /\ ~row.custom
                                   THEN [at |-> "read", target |-> row.target] ELSE Off]
  /\ UNCHANGED <<row, up, pass, manual, form, choice, flips>>

FetchGot(f, found) ==
  /\ fetch[f].at = "read"
  /\ fetch' = [fetch EXCEPT ![f] = IF found THEN [@ EXCEPT !.at = "got"] ELSE Off]
  /\ UNCHANGED <<row, up, pass, manual, form, choice, flips>>

\* mutant: the UPDATE goes by the id alone
Stores_ById == row.there

\* UPDATE ... WHERE id = ? AND icon_custom IS FALSE
Stores == row.there /\ ~row.custom

FetchStore(f) ==
  /\ fetch[f].at = "got"
  /\ row' = IF Stores THEN [row EXCEPT !.icon = fetch[f].target] ELSE row
  /\ fetch' = [fetch EXCEPT ![f] = Off]
  /\ UNCHANGED <<up, pass, manual, form, choice, flips>>

-----------------------------------------------------------------------------
(* health_loop                                                             *)

\* The enabled rows are read and the transaction is ended.
PassBegin ==
  /\ pass.at = "sleep" /\ row.there /\ row.enabled
  /\ pass' = [at |-> "checking", target |-> row.target]
  /\ UNCHANGED <<row, up, fetch, manual, form, choice, flips>>

\* The upstream as it was read is checked; its status is written by the row's id.
PassStore ==
  /\ pass.at = "checking"
  /\ \E s \in IF pass.target = row.target THEN {Truth} ELSE {"healthy", "unhealthy"} :
       row' = IF row.there THEN [row EXCEPT !.health = s] ELSE row
  /\ pass' = Asleep
  /\ UNCHANGED <<up, fetch, manual, form, choice, flips>>

\* A locked database, a Docker API that is gone: the loop goes on.
PassFails ==
  /\ pass.at = "checking"
  /\ pass' = Asleep
  /\ UNCHANGED <<row, up, fetch, manual, form, choice, flips>>

Flip ==
  /\ flips < MaxFlips /\ flips' = flips + 1
  /\ up' = ~up
  /\ UNCHANGED <<row, pass, fetch, manual, form, choice>>

Next ==
  \/ \E image \in BOOLEAN : Create(image)
  \/ SetEnabled \/ Delete \/ MountDone \/ RefreshIcon
  \/ \E e \in Forms :
       \/ \E pick \in {Own, row.icon, NoIcon}, move \in BOOLEAN : LoadForm(e, pick, move)
       \/ Commit(e) \/ FormFails(e)
  \/ \E found \in BOOLEAN : Refreshed(found)
  \/ \E f \in Fetches :
       \/ FetchRead(f) \/ FetchStore(f)
       \/ \E found \in BOOLEAN : FetchGot(f, found)
  \/ PassBegin \/ PassStore \/ PassFails \/ Flip

\* The loop is scheduled, and not every one of its passes fails.
Fairness == WF_vars(PassBegin) /\ SF_vars(PassStore)

Spec == Init /\ [][Next]_vars /\ Fairness

-----------------------------------------------------------------------------
(* Properties                                                              *)

\* The icon an admin chose stays, whichever fetch of the app's own icon was under way when it was
\* chosen (service_favicon.py:199, "skipped if it became custom").  A choice counts unless a
\* refresh by hand ran while its edit was under way or came later, and unless it was the icon
\* shown, so that nothing was written, and another was stored meanwhile.
ChosenStays == row.there /\ choice # NoIcon => row.icon = choice /\ row.custom

\* The health shown of a service that stays as it is ends up right, whatever was written for the
\* upstream it had when a pass began, and whichever passes fail (service_health.py:160-168).
HealthConverges ==
  <>[](row.there /\ row.enabled) => <>[](row.there => row.health = Truth)

-----------------------------------------------------------------------------
(* Sentences of the code and its documents that the model refutes (README) *)

\* "a row ... (or edited) by an admin while the checks ran is skipped" (service_health.py:149): it
\* is not, an edited row gets the health of its old upstream.
HealthIsOfTarget ==
  [][pass.at = "checking" /\ pass.target # row.target => row'.health = row.health]_vars

\* A row says custom of the icon somebody chose, and only of that (models.py:423, "admin set the
\* icon by hand; auto-fetch never overwrites it").
IconIsWhole == row.there => (row.icon = Own => row.custom)

\* An edit that chose an icon, and that no refresh by hand ran beside, stores it.
PickIsStored ==
  [][\A e \in Forms : Commit(e) /\ form[e].clean /\ form[e].pick # NoIcon =>
                        row'.icon = form[e].pick /\ row'.custom]_vars
=============================================================================
