----------------------------- MODULE FirstSetup ----------------------------
(***************************************************************************)
(* The first run (security/setup_token.py, security/setup_gate.py, setup   *)
(* of routers/auth.py, the boot of main.py): while there is no user, POST  *)
(* /setup with the code of the setup-token file makes the first admin.     *)
(* A request's path is cut where the handler awaits: the count of users,   *)
(* the lock, the second count, the commit.                                 *)
(***************************************************************************)
EXTENDS Naturals

CONSTANTS
  Requests,   \* setup requests
  MaxCodes    \* bound: codes the portal draws

VARIABLES
  pc,      \* "idle", "asked", "waiting", "locked", "inserting", "committed"
  shown,   \* the code a request presents
  admins,  \* users committed
  file,    \* the code in the setup-token file, 0 if there is none
  drawn,   \* codes drawn so far
  holder   \* who holds setup_lock

vars == <<pc, shown, admins, file, drawn, holder>>
None == "none"

Go(r, p) == pc' = [pc EXCEPT ![r] = p]
Free(r) == holder' = IF holder = r THEN None ELSE holder

\* current(): the code of the file, which is written when it is missing
Current == /\ file = 0 => drawn < MaxCodes
           /\ file' = (IF file = 0 THEN drawn + 1 ELSE file)
           /\ drawn' = (IF file = 0 THEN drawn + 1 ELSE drawn)

\* announce at boot
Init ==
  /\ pc = [r \in Requests |-> "idle"] /\ shown = [r \in Requests |-> 1]
  /\ admins = 0 /\ file = 1 /\ drawn = 1 /\ holder = None

\* users_exist reads no user; the request waits for its answer.
Ask(r, code) ==
  /\ pc[r] = "idle" /\ admins = 0
  /\ Go(r, "asked") /\ shown' = [shown EXCEPT ![r] = code]
  /\ UNCHANGED <<admins, file, drawn, holder>>

\* setup_token.verify: a wrong code is refused (403), a right one waits for the lock.
Verify(r) ==
  /\ pc[r] = "asked"
  /\ Current
  /\ Go(r, IF shown[r] = file' THEN "waiting" ELSE "idle")
  /\ UNCHANGED <<shown, admins, holder>>

Lock(r) ==
  /\ pc[r] = "waiting" /\ holder = None
  /\ holder' = r /\ Go(r, "locked")
  /\ UNCHANGED <<shown, admins, file, drawn>>

\* mutant: users are not counted again under the lock
Recheck_Skipped(r) ==
  /\ pc[r] = "locked" /\ Go(r, "inserting")
  /\ UNCHANGED <<shown, admins, file, drawn, holder>>

\* users_exist again, under the lock: whoever lost the race gets 404.
Recheck(r) ==
  /\ pc[r] = "locked"
  /\ IF admins > 0 THEN Go(r, "idle") /\ Free(r) ELSE Go(r, "inserting") /\ UNCHANGED holder
  /\ UNCHANGED <<shown, admins, file, drawn>>

Commit(r) ==
  /\ pc[r] = "inserting"
  /\ admins' = admins + 1 /\ Go(r, "committed")
  /\ UNCHANGED <<shown, file, drawn, holder>>

\* The insert or the commit fails: nothing is kept and the lock is left.
Fail(r) ==
  /\ pc[r] = "inserting"
  /\ Go(r, "idle") /\ Free(r)
  /\ UNCHANGED <<shown, admins, file, drawn>>

\* The lock is left and the code dropped, without an await between them.
Clear(r) ==
  /\ pc[r] = "committed"
  /\ file' = 0 /\ Go(r, "idle") /\ Free(r)
  /\ UNCHANGED <<shown, admins, drawn>>

\* The portal restarts; announce logs the code while setup is pending, else drops the file.
Restart ==
  /\ pc' = [r \in Requests |-> "idle"] /\ holder' = None
  /\ IF admins = 0 THEN Current ELSE file' = 0 /\ UNCHANGED drawn
  /\ UNCHANGED <<shown, admins>>

Next ==
  \/ \E r \in Requests :
       \/ \E code \in 1..MaxCodes : Ask(r, code)
       \/ Verify(r) \/ Lock(r) \/ Recheck(r) \/ Commit(r) \/ Fail(r) \/ Clear(r)
  \/ Restart

Spec == Init /\ [][Next]_vars

-----------------------------------------------------------------------------
(* Properties                                                              *)

\* Setup makes one account: requests that raced past the first look at the users, with the right
\* code each, cannot both create an admin (setup_token.py:18, auth.py:143-145).
OneAdmin == admins <= 1

-----------------------------------------------------------------------------
(* Sentences of the code and its documents that the model refutes (README) *)

\* "deleted once the first admin exists" (setup_token.py:5).  A request that looked before the
\* commit and verifies after the clear draws a new code, whose file stays until the next boot.
CodeIsGone == admins > 0 /\ (\A r \in Requests : pc[r] = "idle") => file = 0
=============================================================================
