------------------------------- MODULE SignIn -------------------------------
(***************************************************************************)
(* What failed sign-ins cost (LoginLockout of services/abuse.py,           *)
(* login_flow.py, login and change_password of routers/auth.py,            *)
(* routers/matrix.py, unlock and reset of routers/users.py): the lock of   *)
(* an account at an address, the brake on guesses from many addresses, the *)
(* budget of a trusted device, and the card asked after the password.      *)
(*                                                                         *)
(* One account.  A handler runs from its lockout check to the counters     *)
(* without awaiting, so an attempt is one action.  The code keeps times;   *)
(* here they are ages, which grow with Tick, so no clock has to be         *)
(* bounded, and an entry that left its window leaves the queue at once     *)
(* (the code drops it when it looks at the queue).                         *)
(***************************************************************************)
EXTENDS Naturals, Sequences, FiniteSets

CONSTANTS
  Addresses,        \* client addresses, as ip_key gives them
  Threshold,        \* LOCKOUT_THRESHOLD
  Duration,         \* LOCKOUT_DURATION, the window of the counters too
  GlobalThreshold,  \* LOGIN_GLOBAL_THRESHOLD
  Gap,              \* over it, one check per Gap (10 s)
  MaxFails,         \* bound: failures of the account in a window
  MaxCardGuesses    \* bound: wrong passwords at the card's handlers in a window

VARIABLES
  fails,        \* per address, the ages of the failures counted there
  lock,         \* per address, the time its lock still has; 0 is none
  brake,        \* ages of the account's failures from any address
  lastCheck,    \* age of the last check the brake let through, at most Gap
  deviceFails,  \* the same for the account's trusted device,
  deviceBlock,  \* and the time it still vouches for nothing
  card,         \* "off", "on", or "asked" when a challenge is pinned
  cookie,       \* does the styx_mfa cookie last given still carry the account's
                \* matrix_serial and token_version?  Both only grow.
  guesses,      \* ages of the strangers' wrong passwords that were checked at these doors,
  cardGuesses   \* and of those of a signed-in session that the card's handlers checked

counters == <<fails, lock, brake, lastCheck, deviceFails, deviceBlock>>
secrets == <<card, cookie>>
vars == <<counters, secrets, guesses, cardGuesses>>

Init ==
  /\ fails = [a \in Addresses |-> <<>>] /\ lock = [a \in Addresses |-> 0]
  /\ brake = <<>> /\ lastCheck = Gap
  /\ deviceFails = <<>> /\ deviceBlock = 0
  /\ card \in {"off", "on"} /\ cookie = FALSE
  /\ guesses = <<>> /\ cardGuesses = <<>>

-----------------------------------------------------------------------------
(* Time                                                                    *)

\* while q and q[0] <= now - window: q.popleft(): the oldest are in front
Past(q) == Cardinality({i \in 1..Len(q) : q[i] + 1 >= Duration})
Older(q) == [i \in 1..(Len(q) - Past(q)) |-> q[Past(q) + i] + 1]
Less(n) == IF n = 0 THEN 0 ELSE n - 1

Tick ==
  /\ fails' = [a \in Addresses |-> Older(fails[a])] /\ brake' = Older(brake)
  /\ deviceFails' = Older(deviceFails) /\ guesses' = Older(guesses)
  /\ cardGuesses' = Older(cardGuesses)
  /\ lock' = [a \in Addresses |-> Less(lock[a])] /\ deviceBlock' = Less(deviceBlock)
  /\ lastCheck' = IF lastCheck < Gap THEN lastCheck + 1 ELSE Gap
  /\ UNCHANGED secrets

\* MAX_TRACKED reached through other accounts: a counter goes, never a lock (_fail_deque)
Evict ==
  /\ \/ \E a \in Addresses : fails' = [fails EXCEPT ![a] = <<>>] /\ UNCHANGED deviceFails
     \/ deviceFails' = <<>> /\ UNCHANGED fails
  /\ UNCHANGED <<lock, brake, lastCheck, deviceBlock, secrets, guesses, cardGuesses>>

-----------------------------------------------------------------------------
(* May this attempt go on?                                                 *)

\* a valid device token that has not spent its budget (device_rnd, device_blocked)
Vouches(withDevice) == withDevice /\ deviceBlock = 0
IsLocked(a) == lock[a] > 0
OverBrake == Len(brake) >= GlobalThreshold

\* mutant: a check over the threshold does not start the gap again
Slot_Free == UNCHANGED lastCheck

\* throttled: over the threshold an allowed check spends the slot
Slot == lastCheck' = IF OverBrake THEN 0 ELSE lastCheck

\* blocked; the device skips lock and brake
Passes(a, withDevice) ==
  \/ Vouches(withDevice) /\ UNCHANGED lastCheck
  \/ ~Vouches(withDevice) /\ ~IsLocked(a) /\ (OverBrake => lastCheck >= Gap) /\ Slot

\* the budget of the device
DeviceFail ==
  LET own == Append(deviceFails, 0)
  IN  IF Len(own) >= Threshold THEN deviceFails' = <<>> /\ deviceBlock' = Duration
      ELSE deviceFails' = own /\ UNCHANGED deviceBlock

\* the brake of the account, and its lock at this address
RecordFail(a) ==
  LET here == Append(fails[a], 0)
  IN  /\ brake' = Append(brake, 0)
      /\ IF Len(here) >= Threshold
         THEN fails' = [fails EXCEPT ![a] = <<>>] /\ lock' = [lock EXCEPT ![a] = Duration]
         ELSE fails' = [fails EXCEPT ![a] = here] /\ UNCHANGED lock

\* record_failure
Failed(a, withDevice) ==
  /\ IF withDevice THEN DeviceFail ELSE UNCHANGED <<deviceFails, deviceBlock>>
  /\ RecordFail(a)

\* clear_lockout: this address and this device; the brake stays
Cleared(a, withDevice) ==
  /\ fails' = [fails EXCEPT ![a] = <<>>] /\ lock' = [lock EXCEPT ![a] = 0]
  /\ IF withDevice THEN deviceFails' = <<>> /\ deviceBlock' = 0
     ELSE UNCHANGED <<deviceFails, deviceBlock>>
  /\ UNCHANGED brake

-----------------------------------------------------------------------------
(* The handlers                                                            *)

\* login with a wrong password; change_password with a wrong old one is the same
\* without a device.
WrongPassword(a, withDevice) ==
  /\ Len(brake) < MaxFails
  /\ Passes(a, withDevice)
  /\ Failed(a, withDevice)
  /\ guesses' = IF Vouches(withDevice) THEN guesses ELSE Append(guesses, 0)
  /\ UNCHANGED <<secrets, cardGuesses>>

\* login with the right one: a session, or with a card the challenge (start_matrix)
StartMatrix == card' = "asked" /\ cookie' = TRUE

PasswordClears(a, withDevice) ==
  IF card = "off" THEN Cleared(a, withDevice)
  ELSE UNCHANGED <<fails, lock, brake, deviceFails, deviceBlock>>

RightPassword(a, withDevice) ==
  /\ Passes(a, withDevice)
  /\ PasswordClears(a, withDevice)
  /\ IF card = "off" THEN UNCHANGED card /\ cookie' = FALSE ELSE StartMatrix
  /\ UNCHANGED <<guesses, cardGuesses>>

\* change_password with the right old one
ChangePassword(a) ==
  /\ Passes(a, FALSE)
  /\ cookie' = FALSE
  /\ UNCHANGED <<fails, lock, brake, deviceFails, deviceBlock, card, guesses, cardGuesses>>

\* _pending_user, then login_matrix: the lock applies, the brake does not
Locked(a, withDevice) == ~Vouches(withDevice) /\ IsLocked(a)
MayAnswer(a, withDevice) == card = "asked" /\ cookie /\ ~Locked(a, withDevice)

WrongAnswer(a, withDevice) ==
  /\ MayAnswer(a, withDevice) /\ Len(brake) < MaxFails
  /\ Failed(a, withDevice)
  /\ UNCHANGED <<lastCheck, secrets, guesses, cardGuesses>>

RightAnswer(a, withDevice) ==
  /\ MayAnswer(a, withDevice)
  /\ card' = "on"
  /\ Cleared(a, withDevice)
  /\ UNCHANGED <<lastCheck, cookie, guesses, cardGuesses>>

\* matrix_activate of a pending card, matrix_remove with the right password
ChangeCard(to) ==
  /\ card' = to /\ cookie' = FALSE
  /\ UNCHANGED <<counters, guesses, cardGuesses>>

\* matrix_generate, matrix_remove with a wrong one: no lock or brake is asked and no failure
\* is counted (_check_password)
CardRefused ==
  /\ Len(cardGuesses) < MaxCardGuesses
  /\ cardGuesses' = Append(cardGuesses, 0)
  /\ UNCHANGED <<counters, secrets, guesses>>

\* clear_user
ClearUser ==
  /\ fails' = [a \in Addresses |-> <<>>] /\ lock' = [a \in Addresses |-> 0]
  /\ brake' = <<>> /\ lastCheck' = Gap

\* unlock_user; reset_password unlocks the same way and takes a new token_version
Unlock(reset) ==
  /\ ClearUser /\ guesses' = <<>>
  /\ cookie' = (cookie /\ ~reset)
  /\ UNCHANGED <<deviceFails, deviceBlock, card, cardGuesses>>

Next ==
  \/ Tick \/ Evict \/ CardRefused
  \/ \E to \in {"off", "on"} : ChangeCard(to)
  \/ \E reset \in BOOLEAN : Unlock(reset)
  \/ \E a \in Addresses :
       \/ ChangePassword(a)
       \/ \E withDevice \in BOOLEAN :
            \/ WrongPassword(a, withDevice) \/ RightPassword(a, withDevice)
            \/ WrongAnswer(a, withDevice) \/ RightAnswer(a, withDevice)

Spec == Init /\ [][Next]_vars

-----------------------------------------------------------------------------
(* Properties                                                              *)

Allowed == GlobalThreshold + (Duration + Gap - 1) \div Gap

\* "allow one password check per 10 s": whatever the number of addresses, strangers
\* have at most GlobalThreshold passwords of an account checked in vain in a window by
\* sign-in and password change, and then one per Gap, however failures, the owner's
\* successes, card answers and evictions interleave (abuse.py:185-203).
GuessesAreBounded == Len(guesses) <= Allowed

\* Refuted.  "A stolen session must not guess the password" (auth.py:363): whoever holds a
\* session has no more passwords checked by the card's handlers (matrix.py:41-43).
SessionsDoNotGuess == Len(cardGuesses) <= Allowed
=============================================================================
