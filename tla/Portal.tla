------------------------------- MODULE Portal -------------------------------
(***************************************************************************)
(* The portal at its doors: the routes, failed sign-ins, bans, invites and *)
(* enrollment, the first setup, identity providers.  Machines that share   *)
(* no state here, each on its own: a behaviour is one of one of them, and  *)
(* the variables of the others keep their initial values.                  *)
(***************************************************************************)
EXTENDS RouteFile

CONSTANTS
  Addresses, Threshold, Duration, GlobalThreshold, Gap, MaxFails, MaxCardGuesses,  \* SignIn
  BanAddresses, BanThreshold, BanWindow, BanDuration, CacheTtl, Checks,        \* BanCache
  Redeemers, Invites, Enrolls,                                                 \* SingleUse
  SetupRequests, MaxCodes,                                                     \* FirstSetup
  Identities, Callers, MaxAccounts                                             \* Federation

ASSUME BanTimesAssumption == CacheTtl \in Nat /\ BanDuration \in Nat

ASSUME LockoutAssumption ==
  Duration \in Nat \ {0} /\ GlobalThreshold \in Nat /\ Gap \in Nat \ {0}

\* Nobody's name is the one that says that a lock is free.
ASSUME NamesAssumption == "none" \notin Redeemers \cup SetupRequests \cup Callers

VARIABLES
  part,
  fails, locked, brake, lastCheck, deviceFails, deviceBlock, card, cookie, guesses, cardGuesses,
  hits, row, banning, snapshot, reading,
  slip, late, pc, token, name, writer, made, revoking,
  setup, shown, admins, codeFile, drawn, holder,
  account, links, invite, call, claimer, raced

SignIns == INSTANCE SignIn WITH lock <- locked
Bans == INSTANCE BanCache WITH cache <- snapshot
Slips == INSTANCE SingleUse WITH Requests <- Redeemers, row <- slip
Setup == INSTANCE FirstSetup WITH Requests <- SetupRequests, pc <- setup, file <- codeFile
Sso == INSTANCE Federation WITH lock <- claimer

signInVars == <<fails, locked, brake, lastCheck, deviceFails, deviceBlock, card, cookie, guesses,
                cardGuesses>>
banVars == <<hits, row, banning, snapshot, reading>>
slipVars == <<slip, late, pc, token, name, writer, made, revoking>>
setupVars == <<setup, shown, admins, codeFile, drawn, holder>>
ssoVars == <<account, links, invite, call, claimer, raced>>
allVars == <<vars, signInVars, banVars, slipVars, setupVars, ssoVars, part>>

InitAll ==
  /\ part \in {"routes", "sign-in", "bans", "slips", "setup", "sso"}
  /\ Init /\ SignIns!Init /\ Bans!Init /\ Slips!Init /\ Setup!Init /\ Sso!Init

NextAll ==
  /\ UNCHANGED part
  /\ \/ part = "routes" /\ Next
        /\ UNCHANGED <<signInVars, banVars, slipVars, setupVars, ssoVars>>
     \/ part = "sign-in" /\ SignIns!Next
        /\ UNCHANGED <<vars, banVars, slipVars, setupVars, ssoVars>>
     \/ part = "bans" /\ Bans!Next
        /\ UNCHANGED <<vars, signInVars, slipVars, setupVars, ssoVars>>
     \/ part = "slips" /\ Slips!Next
        /\ UNCHANGED <<vars, signInVars, banVars, setupVars, ssoVars>>
     \/ part = "setup" /\ Setup!Next
        /\ UNCHANGED <<vars, signInVars, banVars, slipVars, ssoVars>>
     \/ part = "sso" /\ Sso!Next
        /\ UNCHANGED <<vars, signInVars, banVars, slipVars, setupVars>>

SpecAll == InitAll /\ [][NextAll]_allVars

-----------------------------------------------------------------------------
(* The properties of the parts, each stated in its module                  *)

GuessesAreBounded == SignIns!GuessesAreBounded
SessionsDoNotGuess == SignIns!SessionsDoNotGuess
BanIsKnown == Bans!BanIsKnown

\* A code makes one thing once: an invite an account (invites.py), an enrollment code a
\* workstation (enroll.py), the setup code the first admin (auth.py:143-145); and a redemption that
\* holds its claim goes through.
MadeOnce == Slips!RedeemedOnce /\ Setup!OneAdmin

AccountsAreWhole == Sso!AccountsAreWhole
=============================================================================
