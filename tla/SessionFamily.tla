--------------------------- MODULE SessionFamily ---------------------------
(***************************************************************************)
(* Sign-in sessions: families of refresh tokens that rotate, their end by  *)
(* logout, reuse, age, password change, reset and account deletion         *)
(* (backend/app/routers/auth.py, users.py, security/deps.py).              *)
(*                                                                         *)
(* Every issue mints a refresh, an access and a proxy token; one jti names *)
(* the three.  A handler reads the database, then writes: SQLite takes one *)
(* writer at a time and a reader sees no uncommitted row, so what a        *)
(* handler does from its first write to its commit is one step, and what   *)
(* it read before may be stale by then.  A handler that raises or dies     *)
(* before its commit writes nothing.  A request carries an access and a    *)
(* refresh cookie; nothing says that both are of one session.  Not here:   *)
(* token expiry (it only refuses more), lockout, must_change_pw, the       *)
(* admins' own sessions.                                                   *)
(***************************************************************************)
EXTENDS Naturals

CONSTANTS
  Users,     \* accounts
  Tokens,    \* jtis an issue may draw, each once
  SignedIn,  \* those already drawn at the start, one by each session there is then
  Requests,  \* requests, each handled once; any request may present any old cookie
  NoToken

ASSUME TokensAssumption == NoToken \notin Tokens /\ SignedIn \subseteq Tokens /\ Users # {}

VARIABLES
  family,    \* RefreshToken.family_id, or NoToken while the jti is unused
  owner,     \* RefreshToken.user_id
  card,      \* tokens with session_only set (card sign-ins)
  revoked,   \* tokens with revoked set
  tv,        \* token_version inside the access and the proxy token
  denied,    \* access tokens on the denylist
  aged,      \* families past SESSION_MAX_AGE, or past the card cap
  version,   \* User.token_version
  active,    \* users with is_active set
  present,   \* users whose row exists
  stage,     \* each request: "free", "loaded" or "end"
  req,       \* what a request presented and read
  ended,     \* history: what was ended on purpose: <<f, u>>, the part of user u in family f
  resets,    \* history: how often a user's password was reset by an admin
  epoch      \* history: the resets its owner had when a session's owner signed in

tokenVars == <<family, owner, card, tv, epoch>>
userVars  == <<version, active, present, resets>>
vars == <<tokenVars, revoked, denied, aged, userVars, stage, req, ended>>

Kinds == {"login", "refresh", "logout", "change", "reset", "demote", "disable", "delete"}

Issued  == {t \in Tokens : family[t] # NoToken}
Live    == Issued \ revoked
Kin(t)  == {s \in Issued : family[s] = family[t]}
Of(u)   == {t \in Issued : owner[t] = u}
Part(t) == <<family[t], owner[t]>>
Cookies == Issued \cup {NoToken}   \* NoToken: no cookie, or one that is no token
Working == active \cap present

\* get_current_user: an access token the API accepts
AccessValid(t) ==
  /\ t \in Issued \ denied
  /\ owner[t] \in Working
  /\ tv[t] = version[owner[t]]

\* proxy_user_or_none: a proxy token the forward-auth checks accept
ProxyValid(t) ==
  /\ t \in Issued /\ Kin(t) \cap Live \cap Of(owner[t]) # {}
  /\ family[t] \in card => family[t] \notin aged
  /\ owner[t] \in Working
  /\ tv[t] = version[owner[t]]

AnyUser == CHOOSE u \in Users : TRUE

\* Some users are signed in already, with a password or a card.
Init ==
  /\ family = [t \in Tokens |-> IF t \in SignedIn THEN t ELSE NoToken]
  /\ owner \in [Tokens -> Users]
  /\ \A t \in Tokens \ SignedIn : owner[t] = AnyUser
  /\ card \in SUBSET SignedIn
  /\ revoked = {} /\ denied = {} /\ aged = {}
  /\ tv = [t \in Tokens |-> 0]
  /\ version = [u \in Users |-> 0]
  /\ active = Users /\ present = Users
  /\ stage = [r \in Requests |-> "free"]
  /\ req = [r \in Requests |-> [kind |-> "login", user |-> AnyUser, tok |-> NoToken,
                                acc |-> NoToken, ver |-> 0, epoch |-> 0]]
  /\ ended = {}
  /\ resets = [u \in Users |-> 0]
  /\ epoch = [t \in Tokens |-> 0]

-----------------------------------------------------------------------------
(* What a handler reads before it writes                                   *)

\* t and a: the tokens of its refresh and of its access cookie
Load(r, kind, u, t, a, e) ==
  /\ stage[r] = "free"
  /\ stage' = [stage EXCEPT ![r] = "loaded"]
  /\ req' = [req EXCEPT ![r] = [kind |-> kind, user |-> u, tok |-> t, acc |-> a,
                                ver |-> version[u], epoch |-> e]]
  /\ UNCHANGED <<tokenVars, revoked, denied, aged, userVars, ended>>

\* login, login_matrix, the OAuth callback: the right password, card or identity
LoginLoad(r, u) == u \in Working /\ Load(r, "login", u, NoToken, NoToken, resets[u])

\* refresh: the row of the presented token; a row is never deleted, nor unrevoked
RefreshLoad(r, t) == t \in Issued /\ Load(r, "refresh", owner[t], t, NoToken, epoch[t])

\* logout: whose session it is matters to neither cookie
LogoutLoad(r, t, a) ==
  /\ t \in Cookies /\ a \in Cookies
  /\ Load(r, "logout", AnyUser, t, a, 0)

\* change_password: the user is that of the access cookie, the session to continue that
\* of the refresh cookie, whosever it is
ChangeLoad(r, t, a) ==
  /\ AccessValid(a) /\ t \in Cookies
  /\ Load(r, "change", owner[a], t, a, epoch[a])

\* reset_password, change_role, disable_user, delete_user by an admin
AdminLoad(r, u, kind) ==
  /\ kind \in {"reset", "demote", "disable", "delete"}
  /\ u \in present /\ Load(r, kind, u, NoToken, NoToken, resets[u])

-----------------------------------------------------------------------------
(* From a handler's first write to its commit                              *)

Writes(r, kind) ==
  /\ stage[r] = "loaded" /\ req[r].kind = kind
  /\ stage' = [stage EXCEPT ![r] = "end"]
  /\ UNCHANGED req

CardOf(t) == t \in card

FamilyOf(n, f) == IF f = NoToken THEN n ELSE f

\* _issue_session: a new row of family f (its own when f is NoToken), and tokens that
\* carry the version v
Issue(r, f, isCard, v) ==
  \E n \in Tokens \ Issued :
    /\ family' = [family EXCEPT ![n] = FamilyOf(n, f)]
    /\ owner' = [owner EXCEPT ![n] = req[r].user]
    /\ card' = IF isCard THEN card \cup {n} ELSE card
    /\ tv' = [tv EXCEPT ![n] = v]
    /\ epoch' = [epoch EXCEPT ![n] = req[r].epoch]

\* mutant: only the presented token is revoked
KinOf_Self(t) == {t}
KinOf(t) == Kin(t)

\* the whole family is revoked, whosever rows are in it
End(t) ==
  /\ revoked' = revoked \cup KinOf(t)
  /\ ended' = ended \cup ({family[t]} \X Users)

LoginWrite(r, isCard) ==
  /\ Writes(r, "login")
  /\ req[r].user \in present       \* last_login of a deleted user cannot be written
  /\ Issue(r, NoToken, isCard, req[r].ver)
  /\ UNCHANGED <<revoked, denied, aged, userVars, ended>>

\* mutant: no atomic claim; the loser of the race goes by what it read
Reused_Stale(r) == req[r].ver > version[req[r].user]
Reused(r) == req[r].tok \in revoked

\* a revoked token, or the race for it lost: the family ends
RefreshReused(r) ==
  /\ Writes(r, "refresh") /\ Reused(r)
  /\ End(req[r].tok)
  /\ UNCHANGED <<tokenVars, denied, aged, userVars>>

\* mutant: the claim is committed before the user is looked at
RefreshRefused_Claims(r) ==
  LET t == req[r].tok IN
  /\ Writes(r, "refresh") /\ ~Reused(r) /\ owner[t] \notin Working
  /\ revoked' = revoked \cup {t}
  /\ UNCHANGED <<tokenVars, denied, aged, userVars, ended>>

\* no such user, or disabled: 401, and the claim is rolled back
RefreshRefused(r) ==
  LET t == req[r].tok IN
  /\ Writes(r, "refresh") /\ ~Reused(r) /\ owner[t] \notin Working
  /\ UNCHANGED <<tokenVars, revoked, denied, aged, userVars, ended>>

RefreshTooOld(r) ==
  LET t == req[r].tok IN
  /\ Writes(r, "refresh") /\ ~Reused(r) /\ owner[t] \in Working
  /\ family[t] \in aged
  /\ End(t)
  /\ UNCHANGED <<tokenVars, denied, aged, userVars>>

\* claim and new row in one commit
RefreshRotates(r) ==
  LET t == req[r].tok IN
  /\ Writes(r, "refresh") /\ ~Reused(r) /\ owner[t] \in Working
  /\ family[t] \notin aged
  /\ revoked' = revoked \cup {t}
  /\ Issue(r, family[t], CardOf(t), version[owner[t]])
  /\ UNCHANGED <<denied, aged, userVars, ended>>

LogoutWrite(r) ==
  LET t == req[r].tok IN
  /\ Writes(r, "logout")
  /\ IF t = NoToken THEN UNCHANGED <<revoked, ended>> ELSE End(t)
  /\ denied' = denied \cup ({req[r].acc} \ {NoToken})
  /\ UNCHANGED <<tokenVars, aged, userVars>>

\* token_version is read before and written after: two bumps at once count as one
Bump(r) == version' = [version EXCEPT ![req[r].user] = req[r].ver + 1]

\* change_password: all rows of the user go.  The session of the refresh cookie gives
\* the new row its lifetime class and, if a card session, its family: also when it was
\* ended since the load (the request knew the password), and also when it is the
\* session of another user.  Without that cookie the class follows the user's card.
ChangeWrite(r) ==
  LET t == req[r].tok
      u == req[r].user
      kept == IF t \in card THEN family[t] ELSE NoToken
  IN /\ Writes(r, "change") /\ u \in present
     /\ Bump(r)
     /\ revoked' = revoked \cup Of(u)
     /\ \E isCard \in BOOLEAN :
          /\ t # NoToken => (isCard <=> t \in card)
          /\ Issue(r, kept, isCard, req[r].ver + 1)
     /\ ended' = (ended \cup {Part(s) : s \in Of(u)}) \ {<<kept, u>>}
     /\ UNCHANGED <<denied, aged, active, present, resets>>

ResetWrite(r) ==
  LET u == req[r].user IN
  /\ Writes(r, "reset") /\ u \in present
  /\ Bump(r)
  /\ revoked' = revoked \cup Of(u)
  /\ ended' = ended \cup {Part(s) : s \in Of(u)}
  /\ resets' = [resets EXCEPT ![u] = @ + 1]
  /\ UNCHANGED <<tokenVars, denied, aged, active, present>>

DemoteWrite(r) ==
  /\ Writes(r, "demote") /\ req[r].user \in present
  /\ Bump(r)
  /\ UNCHANGED <<tokenVars, revoked, denied, aged, active, present, resets, ended>>

DisableWrite(r) ==
  /\ Writes(r, "disable") /\ req[r].user \in present
  /\ Bump(r)
  /\ active' = active \ {req[r].user}
  /\ UNCHANGED <<tokenVars, revoked, denied, aged, present, resets, ended>>

DeleteWrite(r) ==
  LET u == req[r].user IN
  /\ Writes(r, "delete") /\ u \in present
  /\ present' = present \ {u}
  /\ revoked' = revoked \cup Of(u)
  /\ ended' = ended \cup {Part(s) : s \in Of(u)}
  /\ UNCHANGED <<tokenVars, denied, aged, version, active, resets>>

\* an error, a deleted user's row, or the backend dies: nothing is written
Rollback(r) ==
  /\ stage[r] = "loaded"
  /\ stage' = [stage EXCEPT ![r] = "end"]
  /\ UNCHANGED <<tokenVars, revoked, denied, aged, userVars, req, ended>>

\* time passes: a family reaches its age limit
Age(f) ==
  /\ f \in Issued \ aged
  /\ aged' = aged \cup {f}
  /\ UNCHANGED <<tokenVars, revoked, denied, userVars, stage, req, ended>>

Read(r) ==
  \/ \E u \in Users : LoginLoad(r, u) \/ (\E kind \in Kinds : AdminLoad(r, u, kind))
  \/ \E t \in Tokens : RefreshLoad(r, t)
  \/ \E t, a \in Cookies : LogoutLoad(r, t, a) \/ (a # NoToken /\ ChangeLoad(r, t, a))

Write(r) ==
  \/ \E isCard \in BOOLEAN : LoginWrite(r, isCard)
  \/ RefreshReused(r) \/ RefreshRefused(r) \/ RefreshTooOld(r) \/ RefreshRotates(r)
  \/ LogoutWrite(r) \/ ChangeWrite(r)
  \/ ResetWrite(r) \/ DemoteWrite(r) \/ DisableWrite(r) \/ DeleteWrite(r)
  \/ Rollback(r)

Next == (\E r \in Requests : Read(r) \/ Write(r)) \/ (\E f \in Tokens : Age(f))

Spec == Init /\ [][Next]_vars

-----------------------------------------------------------------------------
TypeOK ==
  /\ family \in [Tokens -> Tokens \cup {NoToken}]
  /\ owner \in [Tokens -> Users]
  /\ card \subseteq Issued /\ revoked \subseteq Issued /\ denied \subseteq Issued
  /\ tv \in [Tokens -> Nat]
  /\ aged \subseteq Tokens
  /\ version \in [Users -> Nat]
  /\ active \subseteq Users /\ present \subseteq Users
  /\ stage \in [Requests -> {"free", "loaded", "end"}]
  /\ req \in [Requests -> [kind : Kinds, user : Users, tok : Tokens \cup {NoToken},
                           acc : Tokens \cup {NoToken}, ver : Nat, epoch : Nat]]
  /\ ended \subseteq Tokens \X Users
  /\ resets \in [Users -> Nat]
  /\ epoch \in [Tokens -> Nat]

\* A refresh token is redeemed at most once, whatever tabs, retries and replays race
\* for it (auth.py:233): nobody's session forks into two live tokens of theirs.  A
\* family that a password change with two people's cookies made theirs together has
\* one of each (FamilyHasOneOwner below).
OneLiveToken == \A s, t \in Live : Part(s) = Part(t) => s = t

\* A session ended by logout, reuse, age, reset, deletion or a password change is
\* not brought back by a request that was under way (auth.py:305): no refresh token
\* of it can be redeemed, no proxy token of it opens an app.  The one exception is a
\* password change that presents a card session, which goes on in its family for the
\* user who changed (auth.py:392), and for nobody else.
EndedStaysDead ==
  \A t \in Issued : Part(t) \in ended => t \in revoked /\ ~ProxyValid(t)

\* Rotation never strands a session: one that nobody ended has a live token of its
\* owner at every commit, so its proxy cookie works while a refresh is under way, and
\* after a refresh that was refused or died half way.
SessionUnbroken ==
  \A t \in Issued : Part(t) \notin ended => Kin(t) \cap Live \cap Of(owner[t]) # {}

\* The age limits hold for the whole family: refresh reads session_only from the
\* presented row, the proxy check from the first one (deps.py:91).
FamilyHasOneClass == \A s, t \in Issued : family[s] = family[t] => (s \in card <=> t \in card)

-----------------------------------------------------------------------------
(* Sentences of the code and its documents that the model refutes (README) *)

\* users-groups-sso.md:20: a reset by an admin revokes the user's sessions; none
\* that was signed in before it can be used after it.
ResetEndsSessions ==
  \A t \in Live : owner[t] \in Working => epoch[t] = resets[owner[t]]

\* auth.py:382 and 392, "Keep the current session's lifetime class" and "A card session
\* keeps its family": the session of the user whose password is changed.  The refresh
\* cookie may be somebody else's, and the new row joins that family: one user's logout
\* or reuse then ends the other's session, whose age counts from the other's sign-in.
FamilyHasOneOwner == \A s, t \in Issued : family[s] = family[t] => owner[s] = owner[t]
=============================================================================
