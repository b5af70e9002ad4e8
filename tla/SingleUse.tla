----------------------------- MODULE SingleUse -----------------------------
(***************************************************************************)
(* Rows that may be redeemed once (services/single_use.py): an invite      *)
(* makes a user (accept_invite of routers/auth.py), an enrollment token a  *)
(* workstation (register of routers/enroll.py); an admin mints and revokes *)
(* them (routers/users.py, routers/workstations.py).                       *)
(*                                                                         *)
(* A request reads outside any transaction (SQLite runs a SELECT by        *)
(* itself) and its first write takes the database's one write lock, which  *)
(* it keeps until it commits or rolls back.  Every request asks for the    *)
(* same name, the worst case.                                              *)
(***************************************************************************)
EXTENDS Naturals, FiniteSets

CONSTANTS
  Requests,   \* redeeming requests
  Invites,    \* invite rows
  Enrolls     \* enrollment token rows

Tokens == Invites \cup Enrolls
None == "none"

VARIABLES
  row,       \* per token: "none", "free" (used_at is NULL), "used" or "gone"
  late,      \* tokens past expires_at
  pc,        \* per request: "idle", "read", "claimed", "named"
  token,     \* the token a request presents
  name,      \* the name it will insert; 1 is the one asked for, 2 is "<name>-2"
  writer,    \* who holds the write lock
  made,      \* committed rows, as <<token, name>>
  revoking   \* tokens whose revocation has passed its check

vars == <<row, late, pc, token, name, writer, made, revoking>>

Init ==
  /\ row = [t \in Tokens |-> "none"] /\ late = {}
  /\ pc = [r \in Requests |-> "idle"] /\ token = [r \in Requests |-> None]
  /\ name = [r \in Requests |-> 1]
  /\ writer = None /\ made = {} /\ revoking = {}

-----------------------------------------------------------------------------
(* The admin                                                               *)

\* create_invite, mint_enroll_token
Mint(t) ==
  /\ row[t] = "none" /\ writer = None
  /\ row' = [row EXCEPT ![t] = "free"]
  /\ UNCHANGED <<late, pc, token, name, writer, made, revoking>>

Expire(t) ==
  /\ row[t] = "free"
  /\ late' = late \cup {t}
  /\ UNCHANGED <<row, pc, token, name, writer, made, revoking>>

\* revoke_enroll_token: the row is loaded and judged,
RevokeCheck(t) ==
  /\ t \in Enrolls /\ row[t] = "free"
  /\ revoking' = revoking \cup {t}
  /\ UNCHANGED <<row, late, pc, token, name, writer, made>>

\* and deleted by its id, whatever became of used_at.
RevokeDelete(t) ==
  /\ t \in revoking /\ writer = None
  /\ row' = [row EXCEPT ![t] = "gone"]
  /\ revoking' = revoking \ {t}
  /\ UNCHANGED <<late, pc, token, name, writer, made>>

-----------------------------------------------------------------------------
(* A redeemer                                                              *)

\* The names of the same table as the one t inserts into.
TakenFor(t) == {m[2] : m \in {n \in made : (n[1] \in Invites) <=> (t \in Invites)}}
FirstFree(t) == CHOOSE n \in 1..Cardinality(made) + 1 :
                   n \notin TakenFor(t) /\ \A k \in 1..n - 1 : k \in TakenFor(t)

\* The token's row is read; for an invite the username is looked up too.
Lookup(r, t) ==
  /\ pc[r] = "idle" /\ row[t] = "free" /\ t \notin late
  /\ t \in Invites => 1 \notin TakenFor(t)
  /\ pc' = [pc EXCEPT ![r] = "read"] /\ token' = [token EXCEPT ![r] = t]
  /\ name' = [name EXCEPT ![r] = 1]
  /\ UNCHANGED <<row, late, writer, made, revoking>>

\* UPDATE ... WHERE id = ? AND used_at IS NULL changed one row
Claimable(t) == row[t] = "free"

\* single_use.claim: the winner goes on holding the write lock.
Claim(r) ==
  /\ pc[r] = "read" /\ writer = None
  /\ IF Claimable(token[r])
     THEN pc' = [pc EXCEPT ![r] = "claimed"] /\ writer' = r
     ELSE pc' = [pc EXCEPT ![r] = "idle"] /\ UNCHANGED writer
  /\ UNCHANGED <<row, late, token, name, made, revoking>>

\* unique_subdomain of register; an invite's username was given
Name(r) ==
  /\ pc[r] = "claimed"
  /\ pc' = [pc EXCEPT ![r] = "named"]
  /\ name' = IF token[r] \in Enrolls THEN [name EXCEPT ![r] = FirstFree(token[r])] ELSE name
  /\ UNCHANGED <<row, late, token, writer, made, revoking>>

NameIsTaken(r) == name[r] \in TakenFor(token[r])

\* The commit; the unique index refuses a taken name and everything is rolled back.
Commit(r) ==
  /\ pc[r] = "named"
  /\ IF NameIsTaken(r) THEN UNCHANGED <<row, made>>
     ELSE /\ row' = [row EXCEPT ![token[r]] = "used"]
          /\ made' = made \cup {<<token[r], name[r]>>}
  /\ writer' = None /\ pc' = [pc EXCEPT ![r] = "idle"]
  /\ UNCHANGED <<late, token, name, revoking>>

\* An error, or the app's crash, after the claim: the rollback frees the row.
Rollback(r) ==
  /\ pc[r] \in {"claimed", "named"}
  /\ writer' = None /\ pc' = [pc EXCEPT ![r] = "idle"]
  /\ UNCHANGED <<row, late, token, name, made, revoking>>

Next ==
  \/ \E t \in Tokens : Mint(t) \/ Expire(t) \/ RevokeCheck(t) \/ RevokeDelete(t)
  \/ \E r \in Requests :
       \/ \E t \in Tokens : Lookup(r, t)
       \/ Claim(r) \/ Name(r) \/ Commit(r) \/ Rollback(r)

Spec == Init /\ [][Next]_vars

-----------------------------------------------------------------------------
(* Properties                                                              *)

\* A token makes at most one account or workstation, however many requests redeem it at once
\* (single_use.claim), and a token that reads as used made one: a failed redemption leaves it
\* usable.
OneEach ==
  \A t \in Tokens :
    /\ Cardinality({m \in made : m[1] = t}) <= 1
    /\ row[t] = "used" => \E m \in made : m[1] = t

\* A registration that holds its claim does not fail over its name: between unique_subdomain
\* and the commit nobody inserts the name it found (enroll.py:76-97).
NameIsFree == \A r \in Requests : pc[r] = "named" /\ token[r] \in Enrolls => ~NameIsTaken(r)

\* A redemption succeeds once, and then goes through.
RedeemedOnce == OneEach /\ NameIsFree

-----------------------------------------------------------------------------
(* Sentences of the code and its documents that the model refutes (README) *)

\* What revoke_enroll_token answers ("ok") is not true of every schedule: the token it revoked
\* may have enrolled a workstation meanwhile.
RevokedIsUnused == \A t \in Enrolls : row[t] = "gone" => \A m \in made : m[1] # t
=============================================================================
