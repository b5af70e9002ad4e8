----------------------------- MODULE Federation ----------------------------
(***************************************************************************)
(* Sign-in through an identity provider (services/federation.py,           *)
(* routers/oauth.py, link_callback, unlink_provider and accept_invite of   *)
(* routers/auth.py, disable, role and delete of routers/users.py): which   *)
(* account an identity signs in to, and when it gets one made.             *)
(*                                                                         *)
(* Every identity carries the same e-mail address, the case in which they  *)
(* meet; each is of a provider of its own.  A handler reads outside any    *)
(* transaction and writes in one that its first write opens, as in         *)
(* SingleUse.  SQLite does not check foreign keys here.                    *)
(***************************************************************************)
EXTENDS Naturals, FiniteSets

CONSTANTS
  Identities,    \* (provider, subject)
  Callers,       \* requests
  MaxAccounts    \* bound: accounts ever made

Accounts == 1..MaxAccounts
Nobody == 0
Local == "local part"     \* the username an account gets; "local-sub" is the identity itself

VARIABLES
  account,   \* per account: [state: "none", "live", "gone", open, password, name]; open: it is
             \* active and no admin's
  links,     \* <<identity, account>> rows of FederatedIdentity
  invite,    \* the invite for the address: "free", "used", and what it made
  call,      \* per request: [at, id, verified, who, claimed, name]; verified: the provider
             \* says that the address is
  lock,      \* who holds the write lock
  raced      \* accounts that unlinked two providers at once

fedVars == <<account, links, invite, call, lock, raced>>

NoCall == [at |-> "idle", id |-> Local, verified |-> FALSE, who |-> Nobody, claimed |-> FALSE,
           name |-> Local]
NoAccount == [state |-> "none", open |-> TRUE, password |-> FALSE, name |-> Local]

Init ==
  /\ account = [n \in Accounts |-> NoAccount]
  /\ links = {} /\ invite = [state |-> "free", made |-> {}]
  /\ call = [c \in Callers |-> NoCall] /\ lock = "none" /\ raced = {}

Live(n) == account[n].state = "live"
LinkOf(i) == {l \in links : l[1] = i}
RowsOf(n) == {l \in links : l[2] = n}
Matches == {n \in Accounts : Live(n)}
Names == {account[n].name : n \in Matches}
Unlocked(c) == lock \in {"none", c}

Goes(c, at) == call' = [call EXCEPT ![c].at = at]
Refused(c) == call' = [call EXCEPT ![c] = NoCall] /\ lock' = IF lock = c THEN "none" ELSE lock
Rest == UNCHANGED <<account, links, invite, raced>>

-----------------------------------------------------------------------------
(* callback, which resolves the identity the provider answered with        *)

\* What a provider answers: a subject, and an address of which it says that it is verified or not
Answers == [id : Identities, verified : BOOLEAN]

\* start sent the browser away; it came back with the state of its cookie.
Callback(c, answer) ==
  /\ call[c].at = "idle"
  /\ call' = [call EXCEPT ![c] = [NoCall EXCEPT !.at = "resolve", !.id = answer.id,
                                                !.verified = answer.verified]]
  /\ UNCHANGED lock /\ Rest

\* 1. a linked identity signs in to its account, or to none when that is disabled or gone
Resolve(c) ==
  /\ call[c].at = "resolve"
  /\ IF LinkOf(call[c].id) # {} THEN Refused(c) ELSE Goes(c, "match") /\ UNCHANGED lock
  /\ Rest

\* 2. one account with this address is linked, if the provider says that the address is verified
\* and the account is not disabled or an admin's.
Match(c) ==
  /\ call[c].at = "match"
  /\ \/ Matches = {} /\ Goes(c, "invite") /\ UNCHANGED lock
     \/ /\ call[c].verified
        /\ \E n \in Matches : /\ Matches = {n} /\ account[n].open
                             /\ call' = [call EXCEPT ![c].at = "link", ![c].who = n]
        /\ UNCHANGED lock
     \/ /\ Matches # {}
        /\ ~(call[c].verified /\ \E n \in Matches : Matches = {n} /\ account[n].open)
        /\ Refused(c)
  /\ Rest

\* FederatedIdentity is unique in provider and subject.
Linked(i, n) == IF LinkOf(i) = {} THEN links' = links \cup {<<i, n>>} ELSE UNCHANGED links

LinkCommit(c) ==
  /\ call[c].at = "link" /\ lock = "none"
  /\ Linked(call[c].id, call[c].who)
  /\ Refused(c)
  /\ UNCHANGED <<account, invite, raced>>

\* 3. an open invite for the verified address; 4. the provider's own signup, for the groups it
\* names: settings an admin may change at any time (update_provider)
LookInvite(c, signup) ==
  /\ call[c].at = "invite"
  /\ IF call[c].verified /\ invite.state = "free" THEN Goes(c, "claim") /\ UNCHANGED lock
     ELSE IF signup THEN Goes(c, "name") /\ UNCHANGED lock
     ELSE Refused(c)
  /\ Rest

Claims(c) == invite.state = "free"

\* single_use.claim
ClaimInvite(c) ==
  /\ call[c].at = "claim" /\ lock = "none"
  /\ IF Claims(c)
     THEN call' = [call EXCEPT ![c].at = "name", ![c].claimed = TRUE] /\ lock' = c
     ELSE Refused(c)
  /\ Rest

\* _provision: the local part of the address, or that and the subject
ChooseName(c) ==
  /\ call[c].at = "name"
  /\ call' = [call EXCEPT ![c].at = "insert",
                          ![c].name = IF Local \in Names THEN call[c].id ELSE Local]
  /\ UNCHANGED lock /\ Rest

Made(n, c, open, password) ==
  /\ account' = [account EXCEPT ![n] = [state |-> "live", open |-> open, password |-> password,
                                        name |-> call[c].name]]
  /\ invite' = IF call[c].claimed THEN [state |-> "used", made |-> invite.made \cup {n}]
               ELSE invite

Fresh(n) == account[n].state = "none" /\ \A k \in 1..n - 1 : account[k].state # "none"

\* The account and its link are committed together, or neither is (and the claim is undone).
Provision(c) ==
  /\ call[c].at = "insert" /\ call[c].id # Local /\ Unlocked(c)
  /\ IF call[c].name \in Names \/ LinkOf(call[c].id) # {} THEN UNCHANGED <<account, links, invite>>
     ELSE \E n \in Accounts, open \in BOOLEAN :
            /\ Fresh(n) /\ Made(n, c, open, FALSE)
            /\ Linked(call[c].id, n)
  /\ Refused(c)
  /\ UNCHANGED raced

-----------------------------------------------------------------------------
(* accept_invite of the same invite, with a password                       *)

Accept(c) ==
  /\ call[c].at = "idle" /\ invite.state = "free"
  /\ call' = [call EXCEPT ![c] = [NoCall EXCEPT !.at = "accept", !.name = "chosen"]]
  /\ UNCHANGED lock /\ Rest

AcceptCommit(c) ==
  /\ call[c].at = "accept" /\ lock = "none"
  /\ IF Claims(c)
     THEN \E n \in Accounts :
            /\ Fresh(n)
            /\ account' = [account EXCEPT ![n] = [NoAccount EXCEPT
                             !.state = "live", !.password = TRUE, !.name = "chosen"]]
            /\ invite' = [state |-> "used", made |-> invite.made \cup {n}]
     ELSE UNCHANGED <<account, invite>>
  /\ Refused(c)
  /\ UNCHANGED <<links, raced>>

-----------------------------------------------------------------------------
(* A signed-in account links and unlinks providers                         *)

\* link_callback: an identity of another account is refused, its own is linked already.
LinkOwn(c, i, n) ==
  /\ call[c].at = "idle" /\ Live(n) /\ LinkOf(i) = {}
  /\ call' = [call EXCEPT ![c] = [NoCall EXCEPT !.at = "link", !.id = i, !.who = n]]
  /\ UNCHANGED lock /\ Rest

\* mutant: the rows are counted with the one that goes
MayUnlink_Last(n) == account[n].password \/ Cardinality(RowsOf(n)) >= 1

MayUnlink(n) == account[n].password \/ Cardinality(RowsOf(n)) > 1

\* unlink_provider: the rows are read and counted,
Unlink(c, i, n) ==
  /\ call[c].at = "idle" /\ Live(n) /\ <<i, n>> \in links
  /\ MayUnlink(n)
  /\ call' = [call EXCEPT ![c] = [NoCall EXCEPT !.at = "unlink", !.id = i, !.who = n]]
  /\ raced' = IF \E d \in Callers : call[d].at = "unlink" /\ call[d].who = n
              THEN raced \cup {n} ELSE raced
  /\ UNCHANGED <<account, links, invite, lock>>

\* and the one is deleted.
UnlinkCommit(c) ==
  /\ call[c].at = "unlink" /\ lock = "none"
  /\ links' = links \ {<<call[c].id, call[c].who>>}
  /\ Refused(c)
  /\ UNCHANGED <<account, invite, raced>>

-----------------------------------------------------------------------------
(* The admins                                                              *)

\* disable, enable, change_role
ChangeUser(n) ==
  /\ Live(n) /\ lock = "none"
  /\ account' = [account EXCEPT ![n].open = ~@]
  /\ UNCHANGED <<links, invite, call, lock, raced>>

\* delete_user revokes the sign-ins, a write, before it reads the links: nothing comes between.
DeleteUser(n) ==
  /\ Live(n) /\ lock = "none"
  /\ account' = [account EXCEPT ![n].state = "gone"]
  /\ links' = links \ RowsOf(n)
  /\ UNCHANGED <<invite, call, lock, raced>>

Next ==
  \/ \E n \in Accounts : ChangeUser(n) \/ DeleteUser(n)
  \/ \E c \in Callers :
       \/ \E answer \in Answers : Callback(c, answer)
       \/ \E signup \in BOOLEAN : LookInvite(c, signup)
       \/ Resolve(c) \/ Match(c) \/ LinkCommit(c) \/ ClaimInvite(c)
       \/ ChooseName(c) \/ Provision(c) \/ Accept(c) \/ AcceptCommit(c)
       \/ UnlinkCommit(c)
       \/ \E n \in Accounts, i \in Identities : LinkOwn(c, i, n) \/ Unlink(c, i, n)

Spec == Init /\ [][Next]_fedVars

-----------------------------------------------------------------------------
(* Properties                                                              *)

\* An invite makes one account, whether it is redeemed with a password or by signing in, and by
\* however many requests at once (federation.py:158, auth.py:419); used is what made one.
InviteMakesOne == Cardinality(invite.made) = IF invite.state = "used" THEN 1 ELSE 0

\* "cannot unlink the only login method" (auth.py:503-505): a live account without a password keeps
\* a provider to sign in with, as long as it does not unlink two of them at once.
LoginStays == \A n \in Matches \ raced : account[n].password \/ RowsOf(n) # {}

\* An account is made for a reason and can be signed in to.
AccountsAreWhole == InviteMakesOne /\ LoginStays

-----------------------------------------------------------------------------
(* Sentences of the code and its documents that the model refutes (README) *)

\* The same without the proviso: two unlinks that count the rows together leave none.
LoginAlwaysStays == \A n \in Matches : account[n].password \/ RowsOf(n) # {}

\* A link leads to an account: one whose sign-in read the account before delete_user outlives it,
\* and its identity is refused as disabled from then on.
LinkHasAccount == \A l \in links : Live(l[2])
=============================================================================
