------------------------------ MODULE AppShell ------------------------------
(***************************************************************************)
(* A browser tab between the portal, the shell and the apps it frames      *)
(* (backend routers/services_auth.py, security/safe_next.py, the rules of  *)
(* services/service_routes.py, frontend shell/shell-app.tsx, shell/url.ts, *)
(* shell/use-frame-sync.ts, pages/LoginPage.tsx, api/client.ts).           *)
(*                                                                         *)
(* A path app lives under /<slug>.  A focus app takes / while the browser  *)
(* carries its cookie, and with it every address the portal has there,     *)
(* /login too.  The shell at /_styx/app/<slug>/ frames an app.  Sign-ins   *)
(* go through redirects that carry where to return to.                     *)
(*                                                                         *)
(* One pending navigation at a time, of the tab or of its frame.  A page   *)
(* is the app's first, its login, or any other.  Members only; services    *)
(* with sign-in; their rows reach Traefik at once (RouteFile has the lag). *)
(* Who signs in does it in this tab; another one opens and leaves apps.    *)
(***************************************************************************)
EXTENDS Naturals

CONSTANTS
  PathApps, FocusApps,  \* services by mount_mode
  OwnLogin,             \* apps whose own sign-in is at /login and asked for on their first page
  None,                 \* no app, no location
  MaxMoves              \* bound: what the user, other tabs, admins and the clock do

VARIABLES
  row,     \* per app: on (enabled), may (the user's groups), frame (frame_ok), id
  session, \* the refresh family is live
  forced,  \* must_change_pw: the portal's pages and /auth/refresh accept the session, the API
           \* answers 403, the apps' check refuses
  focus,   \* the styx_svc cookie: app and id of its row, or None
  top,     \* the tab's document: doc, app, page, back (?next= of the login page); "form" is
           \* the login page that stays, "change" the one for a new password
  shell,   \* of the shell: inner (frozen), tile and slug as read
  frame,   \* the framed document: doc, app, page
  go,      \* the navigation under way: in, loc, cross (no strict cookies), or None
  lost,    \* ghost: the framed app and page that met the end of the session, and whether the
           \* way back to it was left (see ReturnsThere)
  moved,   \* ghost: services, the cookie or forced changed under the document
  moves

vars == <<row, session, forced, focus, top, shell, frame, go, lost, moved, moves>>

Apps == PathApps \cup FocusApps
Pages == {"/", "page", "login"}

Loc(k, a, p) == [k |-> k, app |-> a, page |-> p, back |-> None]
Login(t) == [Loc("root", None, "login") EXCEPT !.back = t]
ViaExit(l) == [l EXCEPT !.k = "exit"]
Doc(d, a, p) == [doc |-> d, app |-> a, page |-> p, back |-> None]
NoFrame == Doc("none", None, "/")
Unread == [inner |-> "/", tile |-> "unread", slug |-> "unread"]

Init ==
  /\ row \in [Apps -> {[on |-> TRUE, may |-> TRUE, frame |-> f, id |-> 0] : f \in BOOLEAN}]
  /\ \A a \in PathApps : row[a].frame
  /\ session \in BOOLEAN /\ forced = FALSE /\ focus = None
  /\ top = Doc("home", None, "/") /\ shell = Unread /\ frame = NoFrame
  /\ go = None /\ lost = None /\ moved = FALSE /\ moves = 0

-----------------------------------------------------------------------------
(* Locations                                                               *)

\* safe_next: never to /login and its like; in the shell its inner path counts
Safe(l) == l.page # "login" \/ l.k = "slug"
SafeOrNone(l) == IF Safe(l) THEN l ELSE None

\* _shell_path, shellPathFor's inverse
ShellLoc(a, p) == Loc("shell", a, p)

\* the cookie of a row that is there
Focused == IF focus # None /\ focus.id = row[focus.app].id THEN focus.app ELSE None

\* The app a request reaches by Traefik's priorities, None for the portal.
Serves(l) ==
  IF l.k = "slug" /\ row[l.app].on THEN l.app
  ELSE IF l.k \in {"root", "slug"} /\ Focused # None /\ row[Focused].on THEN Focused
  ELSE None

\* the page of the app a request asks for; another app's path is one like any other
PageOf(l, a) == IF l.k = "slug" /\ l.app # a THEN "page" ELSE l.page

\* the app asks for its own sign-in
Landing(a, p) == IF a \in OwnLogin /\ p = "/" THEN "login" ELSE p

\* frameSrc
FrameSrc(a, p) ==
  IF a \in PathApps THEN Loc("slug", a, p)
  ELSE Loc("root", None, IF p = "login" THEN "/" ELSE p)

\* mutant: the cookie stays set on the way to /login
LoginRedirect_NoExit(a, l, framed) ==
  Login(SafeOrNone(IF framed THEN ShellLoc(a, PageOf(l, a)) ELSE [l EXCEPT !.back = None]))

\* login_redirect: back to the shell when framed; by way of the exit when /login is the app's
LoginRedirect(a, l, framed) ==
  LET to == IF framed THEN ShellLoc(a, PageOf(l, a)) ELSE [l EXCEPT !.back = None]
      login == Login(SafeOrNone(to))
  IN  IF a \in FocusApps THEN ViaExit(login) ELSE login

-----------------------------------------------------------------------------
(* Requests under way                                                      *)

\* proxy_user_or_none of the account and its session, and of the request's cookie
Accepts == session /\ ~forced
Signed == Accepts /\ ~go.cross

\* the way back to where the session ran out is left
Astray == IF lost = None THEN None ELSE [lost EXCEPT !.astray = TRUE]
Redirect(l) == go' = [go EXCEPT !.loc = l]
Framed == go.in = "frame"

\* a document replaces that of the tab
Load(d) ==
  /\ top' = d /\ go' = None /\ frame' = NoFrame /\ moved' = FALSE
  /\ shell' = [Unread EXCEPT !.inner = d.page]

\* one replaces that of the frame, and the shell's address follows it or the tab leaves with it
Show(d, l) ==
  LET a == top.app
      inside == IF a \in PathApps THEN l.k = "slug" /\ l.app = a ELSE d.page # "login"
  IN  /\ frame' = d
      /\ IF inside THEN go' = None /\ top' = [top EXCEPT !.page = d.page]
         ELSE go' = [in |-> "top", loc |-> [l EXCEPT !.page = d.page], cross |-> FALSE]
              /\ UNCHANGED top
      /\ UNCHANGED <<shell, moved>>

Answer(d, l) == IF Framed THEN Show(d, l) ELSE Load(d)
Refuse == frame' = Doc("refused", None, "/") /\ go' = None /\ UNCHANGED <<top, shell, moved>>

\* exit_service
ExitService ==
  /\ go # None /\ go.loc.k = "exit"
  /\ focus' = None /\ Redirect([go.loc EXCEPT !.k = "root"])
  /\ UNCHANGED <<row, session, forced, top, shell, frame, lost, moved, moves>>

\* open_service, _open_target, _focus_response
OpenService ==
  LET a == go.loc.app
      p == IF go.loc.page = "login" THEN "/" ELSE go.loc.page
  IN  /\ go # None /\ go.loc.k = "open"
      /\ \/ go.cross /\ Load(Doc("note", a, "/")) /\ UNCHANGED focus
         \/ /\ ~go.cross /\ ~Accepts
            /\ Redirect(ViaExit(Login(None))) /\ UNCHANGED <<focus, top, shell, frame, moved>>
         \/ /\ Signed /\ ~(row[a].on /\ row[a].may)
            /\ Load(Doc("note", a, "/")) /\ UNCHANGED focus
         \/ /\ Signed /\ row[a].on /\ row[a].may
            /\ focus' = [app |-> a, id |-> row[a].id]
            /\ Redirect(IF row[a].frame THEN ShellLoc(a, p) ELSE Loc("root", None, p))
            /\ UNCHANGED <<top, shell, frame, moved>>
      /\ UNCHANGED <<row, session, forced, lost, moves>>

\* styx-shell, priority 95
ShellPage ==
  /\ go # None /\ go.loc.k = "shell"
  /\ IF Framed THEN Refuse ELSE Load(Doc("shell", go.loc.app, go.loc.page))
  /\ UNCHANGED <<row, session, forced, focus, lost, moves>>

\* the frontend: its pages refuse to be framed
PortalPage ==
  LET l == go.loc
  IN  /\ go # None /\ l.k \in {"root", "slug"} /\ Serves(l) = None
      /\ IF Framed THEN Refuse
         ELSE IF l.k = "root" /\ l.page = "login" THEN Load([Doc("login", None, "/") EXCEPT !.back = l.back])
         ELSE Load(Doc("home", None, "/"))
      /\ UNCHANGED <<row, session, forced, focus, lost, moves>>

\* auth_check, and the app's answer
AuthCheck ==
  LET l == go.loc
      a == Serves(l)
      p == PageOf(l, a)
  IN  /\ go # None /\ l.k \in {"root", "slug"} /\ a # None
      /\ \/ /\ ~Signed /\ Framed
            /\ Show(Doc("expired", a, p), l)
            /\ lost' = IF ~session /\ a = top.app /\ Safe(ShellLoc(a, p))
                       THEN [app |-> a, page |-> p, astray |-> FALSE] ELSE None
         \/ /\ ~Signed /\ ~Framed
            /\ Redirect(LoginRedirect(a, l, FALSE)) /\ UNCHANGED <<top, shell, frame, moved, lost>>
         \/ Signed /\ ~row[a].may /\ Answer(Doc("note", a, p), l) /\ UNCHANGED lost
         \/ /\ Signed /\ row[a].may /\ ~Framed /\ a \in FocusApps /\ row[a].frame
            /\ Redirect(ShellLoc(a, p)) /\ UNCHANGED <<top, shell, frame, moved, lost>>
         \/ /\ Signed /\ row[a].may /\ ~(~Framed /\ a \in FocusApps /\ row[a].frame)
            /\ Answer(Doc("app", a, Landing(a, p)), l) /\ UNCHANGED lost
      /\ UNCHANGED <<row, session, forced, focus, moves>>

-----------------------------------------------------------------------------
(* The shell and the login page                                            *)

Go(in, l) == go' = [in |-> in, loc |-> l, cross |-> FALSE]
Leaving == go # None /\ go.in = "top"
InShell == top.doc = "shell" /\ ~Leaving

\* a query answered 401: expiredLoginUrl
Expelled ==
  /\ ~session /\ Go("top", ViaExit(Login(SafeOrNone(ShellLoc(top.app, top.page)))))
  /\ UNCHANGED <<row, session, forced, focus, top, shell, frame, lost, moved, moves>>

\* listServiceTiles; without the app's, or without an answer to go by, a card takes the frame's
\* place; a later refusal (403) leaves what was read
ReadTiles ==
  LET here == IF forced THEN frame # NoFrame \/ go # None ELSE row[top.app].on /\ row[top.app].may
  IN  /\ InShell /\ shell.tile = "unread"
      /\ \/ Expelled
         \/ /\ session /\ shell' = [shell EXCEPT !.tile = IF here THEN "here" ELSE "gone"]
            /\ frame' = IF here THEN frame ELSE NoFrame
            /\ go' = IF here THEN go ELSE None
            /\ UNCHANGED <<row, session, forced, focus, top, lost, moved, moves>>

\* serviceFocus; refused (403) it says nothing against what was read
ReadFocus ==
  /\ InShell /\ shell.slug = "unread"
  /\ \/ Expelled
     \/ /\ session /\ shell' = [shell EXCEPT !.slug = IF forced THEN "refused" ELSE Focused]
        /\ UNCHANGED <<row, session, forced, focus, top, frame, go, lost, moved, moves>>

\* mutant: the cookie is taken for granted
InFocus_Assumed == TRUE

InFocus == shell.slug \in {top.app, "refused"} \/ top.app \in PathApps
Refocuses == shell.tile = "here" /\ shell.slug # "unread" /\ ~InFocus
Mounts == shell.tile = "here" /\ InFocus /\ frame = NoFrame /\ go = None

\* a focus app framed without its cookie: open it and come back
Refocus ==
  /\ InShell /\ Refocuses
  /\ Go("top", Loc("open", top.app, shell.inner))
  /\ lost' = IF session THEN lost ELSE Astray
  /\ UNCHANGED <<row, session, forced, focus, top, shell, frame, moved, moves>>

Mount ==
  /\ InShell /\ Mounts
  /\ Go("frame", FrameSrc(top.app, shell.inner))
  /\ UNCHANGED <<row, session, forced, focus, top, shell, frame, lost, moved, moves>>

HomePage == Doc("home", None, "/")
Onward(back) ==
  IF back = None THEN top' = HomePage /\ UNCHANGED go ELSE Go("top", back) /\ UNCHANGED top

\* the login page of one who is signed in: refreshSession and on, or home; it stays when that
\* fails, or /auth/me did
Follows ==
  /\ top.doc = "login" /\ session /\ go = None
  /\ Onward(top.back) \/ (top' = [top EXCEPT !.doc = "form"] /\ UNCHANGED go)
  /\ UNCHANGED <<row, session, forced, focus, shell, frame, lost, moved, moves>>

\* the home page of one who is not
SentToLogin ==
  /\ top.doc = "home" /\ ~session /\ go = None
  /\ top' = Doc("login", None, "/")
  /\ UNCHANGED <<row, session, forced, focus, shell, frame, go, lost, moved, moves>>

\* or of one who must change the password
SentToChange ==
  /\ top.doc = "home" /\ session /\ forced /\ go = None
  /\ top' = Doc("change", None, "/")
  /\ UNCHANGED <<row, session, forced, focus, shell, frame, go, lost, moved, moves>>

Browser ==
  \/ ExitService \/ OpenService \/ ShellPage \/ PortalPage \/ AuthCheck
  \/ ReadTiles \/ ReadFocus \/ Refocus \/ Mount \/ Follows \/ SentToLogin \/ SentToChange

-----------------------------------------------------------------------------
(* The user, other tabs, admins, the clock                                 *)

Move == moves < MaxMoves /\ moves' = moves + 1

\* a tile, the dock, a bookmark, a reload; or a link on another site, which the shell and the
\* exit do not tell from these
Visit ==
  /\ Move /\ lost' = None
  /\ \/ \E l \in {Loc("shell", a, p) : a \in Apps, p \in Pages} \cup {ViaExit(Loc("root", None, "/"))} :
          Go("top", l)
     \/ \E l \in {Loc("root", None, p) : p \in {"/", "page"}}
                 \cup {Loc("slug", a, p) : a \in PathApps, p \in {"/", "page"}}
                 \cup {Loc("open", a, "/") : a \in FocusApps} :
          \E cross \in BOOLEAN : go' = [in |-> "top", loc |-> l, cross |-> cross]
  /\ UNCHANGED <<row, session, forced, focus, top, shell, frame, moved>>

FrameClick ==
  /\ Move /\ InShell /\ frame.doc = "app" /\ go = None /\ lost' = None
  /\ \E p \in Pages : Go("frame", IF top.app \in PathApps THEN Loc("slug", top.app, p)
                                  ELSE Loc("root", None, p))
  /\ UNCHANGED <<row, session, forced, focus, top, shell, frame, moved>>

\* the link of _expired_frame_page
SignInLink ==
  /\ InShell /\ frame.doc = "expired" /\ go = None
  /\ LET a == frame.app
         l == IF a \in PathApps THEN Loc("slug", a, frame.page) ELSE Loc("root", None, frame.page)
     IN  /\ Go("top", LoginRedirect(a, l, TRUE))
         /\ lost' = IF a \in PathApps /\ Focused # None THEN Astray ELSE lost
  /\ UNCHANGED <<row, session, forced, focus, top, shell, frame, moved, moves>>

AtForm == go = None /\ (top.doc = "form" \/ (top.doc = "login" /\ ~session))

\* finish, of a password or a card
SignIn ==
  /\ AtForm /\ session' = TRUE
  /\ \/ /\ ~forced /\ Onward(top.back) /\ UNCHANGED lost
     \/ forced /\ top' = Doc("change", None, "/") /\ UNCHANGED go /\ lost' = Astray
  /\ UNCHANGED <<row, forced, focus, shell, frame, moved, moves>>

\* the provider's callback comes from another site, and knows of no next=
Sso ==
  /\ AtForm /\ lost' = Astray
  /\ \/ session' = TRUE /\ go' = [in |-> "top", loc |-> Loc("root", None, "/"), cross |-> TRUE]
     \/ UNCHANGED session /\ go' = [in |-> "top", loc |-> Login(None), cross |-> TRUE]
  /\ UNCHANGED <<row, forced, focus, top, shell, frame, moved, moves>>

\* of an error shown at the form
Dismiss ==
  /\ AtForm /\ top.back # None /\ lost' = Astray
  /\ \/ top' = [top EXCEPT !.back = None]
     \/ session /\ top' = HomePage
  /\ UNCHANGED <<row, session, forced, focus, shell, frame, go, moved, moves>>

ChangePassword ==
  /\ top.doc = "change" /\ session /\ go = None
  /\ forced' = FALSE /\ top' = HomePage
  /\ UNCHANGED <<row, session, focus, shell, frame, go, lost, moved, moves>>

Expire ==
  /\ Move /\ session /\ session' = FALSE /\ lost' = None
  /\ UNCHANGED <<row, forced, focus, top, shell, frame, go, moved>>

\* refetchInterval, and the window that gets the focus
Refetch ==
  /\ Move /\ InShell /\ "unread" \notin {shell.tile, shell.slug} /\ ~Refocuses /\ ~Mounts
  /\ shell' = [shell EXCEPT !.tile = "unread", !.slug = "unread"]
  /\ UNCHANGED <<row, session, forced, focus, top, frame, go, lost, moved>>

\* what changes while the session lives, and a new round of lost; what changes after its end does
\* not close the way back
Changed == Move /\ moved' = TRUE /\ lost' = IF session THEN None ELSE lost

OtherTab ==
  /\ Changed
  /\ \/ focus' = None
     \/ \E a \in FocusApps : /\ Accepts /\ row[a].on /\ row[a].may
                             /\ focus' = [app |-> a, id |-> row[a].id]
  /\ UNCHANGED <<row, session, forced, top, shell, frame, go>>

\* force_password_change, and reset_password, which ends the session
ForcePassword ==
  /\ Changed /\ ~forced /\ forced' = TRUE /\ session' \in {session, FALSE}
  /\ UNCHANGED <<row, focus, top, shell, frame, go>>

Edit ==
  /\ Changed
  /\ \E a \in Apps :
       row' \in {[row EXCEPT ![a].on = ~@], [row EXCEPT ![a].may = ~@],
                 [row EXCEPT ![a].frame = ~@], [row EXCEPT ![a].id = @ + 1]}
  /\ UNCHANGED <<session, forced, focus, top, shell, frame, go>>

Next ==
  \/ Browser
  \/ Visit \/ FrameClick \/ SignInLink \/ SignIn \/ Sso \/ Dismiss \/ ChangePassword
  \/ Expire \/ Refetch \/ OtherTab \/ ForcePassword \/ Edit

Spec == Init /\ [][Next]_vars /\ WF_vars(Browser)

-----------------------------------------------------------------------------
(* Properties                                                              *)

AtRest ==
  /\ go = None
  /\ top.doc = "shell" => shell.tile # "unread" /\ shell.slug # "unread"
                          /\ ~Refocuses /\ ~Mounts
  /\ top.doc = "login" => ~session
  /\ top.doc = "home" => session

\* between /<slug>/, which refuses a forced password change, and /login, which follows next for it
GoesRound ==
  session /\ forced /\ top.doc = "login" /\ top.back # None /\ top.back.k = "slug"

\* Every navigation comes to rest: no two redirects, no shell and no frame send each other round
\* for ever, but for the one GoesRound names (services_auth.py:137-140, client.ts:254-256).
NavigationEnds == []<>(AtRest \/ GoesRound)

\* At rest the shell's frame shows the app and the page its address names, and never the portal,
\* unless the cookie or the services changed under it (shell-app.tsx:31-40).
FrameIsNamed ==
  AtRest /\ top.doc = "shell" /\ ~moved =>
    /\ frame.doc # "refused"
    /\ frame.doc = "app" => frame.app = top.app /\ frame.page = top.page

\* where it was, or where the app sends one from there
IsBack ==
  /\ top.doc \in {"shell", "app"} /\ top.app = lost.app
  /\ top.page \in {lost.page, Landing(lost.app, lost.page)}

\* Who signs in with a password or a card after the session ended in the frame is back at that
\* page of that app, whatever became of the cookie and the services meanwhile. Not so by a
\* provider, after Dismiss, or when the password must be changed first; nor by the link of a path
\* app's frame while the cookie of a focus app is set, nor from a shell that was about to open
\* its app again (services_auth.py:118-123, LoginPage.tsx:77-91).
ReturnsThere ==
  AtRest /\ lost # None /\ session => lost.astray \/ IsBack

ShellIsTrue == FrameIsNamed /\ ReturnsThere

-----------------------------------------------------------------------------
(* Sentences of the code and its documents that the model refutes (README) *)

\* "keep next: sign-in must return to where the session ran out" (LoginPage.tsx:72): not in the
\* cases ReturnsThere names.
ReturnsAlways == AtRest /\ lost # None /\ session => IsBack

\* "or the browser loops between the app and auth-check" (services_auth.py:137-138): it does, by
\* way of /login, for one who must change the password (LoginPage.tsx:38-45, deps.py:98-101).
AlwaysEnds == []<>AtRest

\* "comes back to the same page" (shell-app.tsx:33): to the page the shell was opened at.
SamePage == [][Refocus => shell.inner = top.page]_vars
=============================================================================
