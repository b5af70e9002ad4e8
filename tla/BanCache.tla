------------------------------ MODULE BanCache ------------------------------
(***************************************************************************)
(* The ban of an address (IpFailTracker, BanCache and ban_ip of            *)
(* services/abuse.py, record_failure of login_flow.py, ban_check of        *)
(* routers/auth.py): failures are counted per address, the count that      *)
(* reaches the threshold writes a row, and the proxy asks for every        *)
(* request through a snapshot of the rows that lives CacheTtl.             *)
(*                                                                         *)
(* Writing a ban and reading the rows are split at their awaits; several   *)
(* requests may be reading at once.  Times are ages and remaining times.   *)
(***************************************************************************)
EXTENDS Naturals, Sequences

CONSTANTS
  BanAddresses,  \* client addresses, as ip_key gives them
  BanThreshold,  \* BAN_FAIL_THRESHOLD
  BanWindow,     \* BAN_FAIL_WINDOW
  BanDuration,   \* BAN_DURATION
  CacheTtl,      \* BAN_CACHE_TTL
  Checks         \* ban checks that may be waiting for the rows at once

VARIABLES
  hits,      \* per address, the ages of the failures counted
  row,       \* per address, the time its committed ban still has, and its age
  banning,   \* per address, the request that writes its ban
  cache,     \* the snapshot: the time each address is still banned, and its age
  reading    \* per check, the rows it read and when, while it waits for them

banVars == <<hits, row, banning, cache, reading>>

Idle == [age |-> 0, bans |-> <<>>]

Init ==
  /\ hits = [a \in BanAddresses |-> <<>>]
  /\ row = [a \in BanAddresses |-> [left |-> 0, age |-> 0]]
  /\ banning = [a \in BanAddresses |-> "no"]
  /\ cache = [bans |-> [a \in BanAddresses |-> 0], age |-> CacheTtl]
  /\ reading = [c \in Checks |-> Idle]

Less(n) == IF n = 0 THEN 0 ELSE n - 1
More(n, most) == IF n < most THEN n + 1 ELSE most
Pass(bans) == [a \in DOMAIN bans |-> Less(bans[a])]

Tick ==
  /\ hits' = [a \in BanAddresses |->
                SelectSeq([i \in DOMAIN hits[a] |-> hits[a][i] + 1], LAMBDA age : age < BanWindow)]
  /\ row' = [a \in BanAddresses |-> [left |-> Less(row[a].left),
                                     age |-> More(row[a].age, CacheTtl)]]
  /\ cache' = [bans |-> Pass(cache.bans), age |-> More(cache.age, CacheTtl)]
  /\ reading' = [c \in Checks |-> IF reading[c] = Idle THEN Idle
                                  ELSE [bans |-> Pass(reading[c].bans),
                                        age |-> More(reading[c].age, CacheTtl)]]
  /\ UNCHANGED banning

\* IpFailTracker.record: the count that trips starts over
Counted(a) == Append(hits[a], 0)
Trips(a) == Len(Counted(a)) >= BanThreshold

\* record_failure of a request from a: an address that was not resolved is counted
\* and never banned
Failure(a, resolved) ==
  /\ banning[a] = "no"
  /\ hits' = [hits EXCEPT ![a] = IF Trips(a) THEN <<>> ELSE Counted(a)]
  /\ banning' = [banning EXCEPT ![a] = IF Trips(a) /\ resolved THEN "read" ELSE "no"]
  /\ UNCHANGED <<row, cache, reading>>

\* ban_ip got the row; invalidate(); the commit follows the audit row
Invalidate(a) ==
  /\ banning[a] = "read"
  /\ banning' = [banning EXCEPT ![a] = "invalidated"]
  /\ cache' = [cache EXCEPT !.age = CacheTtl]
  /\ UNCHANGED <<hits, row, reading>>

Commit(a) ==
  /\ banning[a] = "invalidated"
  /\ banning' = [banning EXCEPT ![a] = "no"]
  /\ row' = [row EXCEPT ![a] = [left |-> BanDuration, age |-> 0]]
  /\ UNCHANGED <<hits, cache, reading>>

Stale == cache.age >= CacheTtl

\* is_banned with a stale snapshot: the time is taken and the rows are asked for ...
CheckReads(c) ==
  /\ Stale /\ reading[c] = Idle
  /\ reading' = [reading EXCEPT ![c] = [age |-> 0, bans |-> [a \in BanAddresses |-> row[a].left]]]
  /\ UNCHANGED <<hits, row, banning, cache>>

\* mutant: the snapshot is stamped with the time at which the rows came back
Loaded_Late(c) == [reading[c] EXCEPT !.age = 0]

Loaded(c) == reading[c]

\* ... they arrive, and the snapshot is stamped with that time.
CheckLoads(c) ==
  /\ reading[c] # Idle
  /\ cache' = Loaded(c)
  /\ reading' = [reading EXCEPT ![c] = Idle]
  /\ UNCHANGED <<hits, row, banning>>

Next ==
  \/ Tick
  \/ \E a \in BanAddresses :
       \/ Invalidate(a) \/ Commit(a)
       \/ \E resolved \in BOOLEAN : Failure(a, resolved)
  \/ \E c \in Checks : CheckReads(c) \/ CheckLoads(c)

Spec == Init /\ [][Next]_banVars

-----------------------------------------------------------------------------
(* Properties                                                              *)

\* What a check answers without reading the rows again
KnownBanned(a) == Stale \/ cache.bans[a] > 0

\* A committed ban is answered at the latest CacheTtl later, also when checks that read
\* the rows before it finish after it, in any order (abuse.py:250-261).
BanIsKnown == \A a \in BanAddresses : row[a].left > 0 /\ row[a].age >= CacheTtl => KnownBanned(a)

-----------------------------------------------------------------------------
(* Sentences of the code and its documents that the model refutes (README) *)

\* "used right after writing a ban so it takes effect immediately" (abuse.py:231-232)
BanTakesEffect == \A a \in BanAddresses : row[a].left > 0 => KnownBanned(a)
=============================================================================
