---------------------------- MODULE GatewayProofs ----------------------------
(***************************************************************************)
(* Proofs about Gateway, for any tabs, sockets, sizes and scales and any   *)
(* number of faults.                                                       *)
(*                                                                         *)
(* That somebody owns the seat while a controller is connected rests on    *)
(* the order of by_vid: a tab with a socket is never missing from it, and  *)
(* no tab is in it twice, so the one that is forgotten is really gone.     *)
(***************************************************************************)
EXTENDS Gateway, TLAPS

Phases == {"idle", "dialing", "open", "ending"}

\* The tabs that have a socket among socks, as Attached counts them
Holding(socks) == {TabOf[s] : s \in {t \in Socks : socks[t] \in {"open", "ending"}}}

Distinct(seq) == \A i, j \in 1..Len(seq) : seq[i] = seq[j] => i = j
Members(seq) == {seq[i] : i \in 1..Len(seq)}

\* What the order and the sockets are, and what the size's owner is to them
Ordered ==
  /\ order \in Seq(Vids) /\ Distinct(order)
  /\ sock \in [Socks -> Phases]
  /\ Holding(sock) \subseteq Members(order)

Owned ==
  /\ owner # None => owner \in Members(order) \ Shared
  /\ owner = None => Holding(sock) \subseteq Shared

GateInv == Ordered /\ Owned

-----------------------------------------------------------------------------
(* Sequences and sockets                                                   *)

LEMMA KnownAreMembers == Known = Members(order)
BY DEF Known, ToSet, Members

LEMMA AttachedHold == \A v \in Vids : Attached(v) # {} <=> v \in Holding(sock)
BY DEF Attached, Holding

LEMMA AppendMembers ==
  ASSUME NEW seq \in Seq(Vids), NEW v \in Vids, Distinct(seq), v \notin Members(seq)
  PROVE  /\ Append(seq, v) \in Seq(Vids) /\ Distinct(Append(seq, v))
         /\ Members(Append(seq, v)) = Members(seq) \cup {v}
<1>1. /\ Append(seq, v) \in Seq(Vids) /\ Len(Append(seq, v)) = Len(seq) + 1 /\ Len(seq) \in Nat
      /\ Append(seq, v)[Len(seq) + 1] = v
      /\ \A i \in 1..Len(seq) : Append(seq, v)[i] = seq[i]
  OBVIOUS
<1> DEFINE longer == Append(seq, v)
<1> HIDE DEF longer
<1>2. \A i \in 1..(Len(seq) + 1) : i \in 1..Len(seq) \/ i = Len(seq) + 1
  BY <1>1
<1>3. Distinct(longer)
  BY <1>1, <1>2 DEF Distinct, Members, longer
<1>4. Members(longer) = Members(seq) \cup {v}
  BY <1>1, <1>2 DEF Members, longer
<1> QED BY <1>1, <1>3, <1>4 DEF longer

\* Taking a tab out of a sequence without repetitions takes out that tab and no other.
LEMMA ShiftedMembers ==
  ASSUME NEW seq \in Seq(Vids), NEW p \in 1..Len(seq), Distinct(seq),
         NEW rest, rest = [i \in 1..(Len(seq) - 1) |->
                             IF \E j \in 1..i : seq[j] = seq[p] THEN seq[i + 1] ELSE seq[i]]
  PROVE  /\ rest \in Seq(Vids) /\ Distinct(rest)
         /\ Members(rest) = Members(seq) \ {seq[p]}
<1>1. Len(seq) \in Nat /\ Len(seq) >= 1 /\ \A i \in 1..Len(seq) : seq[i] \in Vids
  OBVIOUS
<1>2. rest = [i \in 1..(Len(seq) - 1) |-> IF p <= i THEN seq[i + 1] ELSE seq[i]]
  <2>1. \A i \in 1..(Len(seq) - 1) : (\E j \in 1..i : seq[j] = seq[p]) <=> p <= i
    BY <1>1 DEF Distinct
  <2> QED BY <2>1
<1>3. rest \in Seq(Vids) /\ Len(rest) = Len(seq) - 1
  <2>1. rest \in [1..(Len(seq) - 1) -> Vids] /\ Len(seq) - 1 \in Nat
    BY <1>1, <1>2
  <2> QED BY <2>1
<1>4. \A i \in 1..(Len(seq) - 1) : rest[i] = IF p <= i THEN seq[i + 1] ELSE seq[i]
  BY <1>2
<1>5. Distinct(rest)
  BY <1>1, <1>3, <1>4 DEF Distinct
<1>6. ASSUME NEW u \in Members(rest) PROVE u \in Members(seq) \ {seq[p]}
  BY <1>1, <1>3, <1>4, <1>6 DEF Members, Distinct
<1>7. ASSUME NEW k \in 1..Len(seq), seq[k] # seq[p] PROVE seq[k] \in Members(rest)
  <2>1. CASE k < p
    <3>1. k \in 1..Len(rest) /\ rest[k] = seq[k]
      BY <1>1, <1>3, <1>4, <2>1
    <3> QED BY <3>1 DEF Members
  <2>2. CASE k > p
    <3>1. k - 1 \in 1..Len(rest) /\ rest[k - 1] = seq[k]
      BY <1>1, <1>3, <1>4, <2>2
    <3> QED BY <3>1 DEF Members
  <2> QED BY <1>7, <2>1, <2>2
<1> QED BY <1>3, <1>5, <1>6, <1>7 DEF Members

LEMMA WithoutMembers ==
  ASSUME Ordered, NEW v \in Vids
  PROVE  /\ Without(v) \in Seq(Vids) /\ Distinct(Without(v))
         /\ Members(Without(v)) = Members(order) \ {v}
<1>1. CASE v \notin Members(order)
  BY <1>1, KnownAreMembers DEF Without, Ordered
<1>2. CASE v \in Members(order)
  <2>1. PICK p \in 1..Len(order) : order[p] = v
    BY <1>2 DEF Members
  <2>2. Without(v) = [i \in 1..(Len(order) - 1) |->
                        IF \E j \in 1..i : order[j] = order[p] THEN order[i + 1] ELSE order[i]]
    BY <1>2, <2>1, KnownAreMembers DEF Without
  <2> QED BY <2>1, <2>2, ShiftedMembers DEF Ordered
<1> QED BY <1>1, <1>2

LEMMA ConnectedMembers ==
  ASSUME Ordered, NEW v \in Vids
  PROVE  /\ Connected(v) \in Seq(Vids) /\ Distinct(Connected(v))
         /\ Members(Connected(v)) = Members(order) \cup {v}
<1>1. CASE v \in Known /\ Attached(v) # {}
  BY <1>1, KnownAreMembers DEF Connected, Ordered
<1>2. CASE ~(v \in Known /\ Attached(v) # {})
  <2>1. Connected(v) = Append(Without(v), v)
    BY <1>2 DEF Connected
  <2> QED BY <2>1, WithoutMembers, AppendMembers
<1> QED BY <1>1, <1>2

\* A socket that is cut is still there until its handler ends.
LEMMA HangupsHold ==
  ASSUME NEW socks \in [Socks -> Phases]
  PROVE  Hangups(socks) \in [Socks -> Phases] /\ Holding(Hangups(socks)) = Holding(socks)
BY DEF Hangups, Holding, Phases

LEMMA TakenHold ==
  ASSUME Ordered, NEW s \in Socks
  PROVE  Taken(s) \in [Socks -> Phases] /\ Holding(Taken(s)) = Holding(sock) \cup {TabOf[s]}
<1>1. Taken(s) \in [Socks -> Phases]
  BY DEF Taken, Ordered, Phases
<1>2. \A t \in Socks : Taken(s)[t] \in {"open", "ending"} <=> t = s \/ sock[t] \in {"open", "ending"}
  BY DEF Taken
<1> HIDE DEF Taken
<1> QED BY <1>1, <1>2 DEF Holding

\* A step that leaves the tabs that hold a socket as they are, or fewer
LEMMA FewerHold ==
  ASSUME Ordered, NEW s \in Socks, NEW to \in {"idle", "dialing"}
  PROVE  /\ [sock EXCEPT ![s] = to] \in [Socks -> Phases]
         /\ Holding([sock EXCEPT ![s] = to]) \subseteq Holding(sock)
BY DEF Ordered, Holding, Phases

LEMMA StillHolds ==
  ASSUME Ordered, NEW s \in Socks, sock[s] = "open"
  PROVE  /\ [sock EXCEPT ![s] = "ending"] \in [Socks -> Phases]
         /\ Holding([sock EXCEPT ![s] = "ending"]) = Holding(sock)
BY DEF Ordered, Holding, Phases

-----------------------------------------------------------------------------
(* What a handler does about the size                                      *)

LEMMA FireHolds ==
  ASSUME NEW socks \in [Socks -> Phases], NEW v, NEW z, NEW armed, NEW ripe,
         FireRefit(v, z, socks, armed, ripe)
  PROVE  sock' \in [Socks -> Phases] /\ Holding(sock') = Holding(socks)
<1>1. sock' = socks \/ sock' = Hangups(socks)
  BY DEF FireRefit, RequestRefit, NoRefit
<1> QED BY <1>1, HangupsHold

LEMMA SetOwnerHolds ==
  ASSUME NEW socks \in [Socks -> Phases], NEW v, NEW armed, SetOwner(v, socks, armed)
  PROVE  owner' = v /\ sock' \in [Socks -> Phases] /\ Holding(sock') = Holding(socks)
BY FireHolds DEF SetOwner

LEMMA KeepHolds ==
  ASSUME NEW socks, NEW armed, Keep(socks, armed)
  PROVE  owner' = owner /\ sock' = socks
BY DEF Keep, NoRefit

\* An heir is one of the sequence, drives, and has a socket; without one nobody does.
LEMMA HeirIsLive ==
  ASSUME NEW seq \in Seq(Vids), Members(seq) \subseteq Members(order), NEW v \in Newest(seq)
  PROVE  /\ v # None => v \in Members(seq) \ Shared /\ v \in Vids
         /\ v = None => Members(seq) \cap Holding(sock) \subseteq Shared
<1> DEFINE fit == {i \in DOMAIN seq : seq[i] \in LiveTabs \ Shared}
<1>1. DOMAIN seq = 1..Len(seq) /\ \A i \in 1..Len(seq) : seq[i] \in Vids /\ seq[i] # None
  BY NamesAssumption
<1>2. LiveTabs \cap Vids = Members(order) \cap Holding(sock) \cap Vids
  BY KnownAreMembers, AttachedHold DEF LiveTabs
<1>3. CASE fit = {}
  <2>1. v = None
    BY <1>3 DEF Newest
  <2>2. \A i \in 1..Len(seq) : seq[i] \in Holding(sock) => seq[i] \in Shared
    BY <1>1, <1>2, <1>3 DEF Members
  <2> QED BY <2>1, <2>2 DEF Members
<1>4. CASE fit # {}
  <2>1. PICK i \in fit : v = seq[i]
    BY <1>4 DEF Newest
  <2> QED BY <1>1, <2>1 DEF Members
<1> QED BY <1>3, <1>4

-----------------------------------------------------------------------------
(* The steps                                                               *)

LEMMA GateStart == Init => GateInv
<1> SUFFICES ASSUME Init PROVE GateInv
  OBVIOUS
<1>1. order = <<>> /\ owner = None /\ sock = [s \in Socks |-> "idle"]
  BY DEF Init
<1>2. Holding(sock) = {} /\ sock \in [Socks -> Phases]
  BY <1>1 DEF Holding, Phases
<1>3. order \in Seq(Vids) /\ Len(order) = 0
  BY <1>1
<1> QED BY <1>1, <1>2, <1>3 DEF GateInv, Ordered, Owned, Distinct, Members

\* The order and the owner stay, and no tab gets its first socket
LEMMA GateStays ==
  ASSUME GateInv, UNCHANGED <<order, owner>>, sock' \in [Socks -> Phases],
         Holding(sock') \subseteq Holding(sock)
  PROVE  GateInv'
BY DEF GateInv, Ordered, Owned

LEMMA GateAttaches == ASSUME GateInv, NEW s \in Socks, Attach(s) PROVE GateInv'
<1> DEFINE v == TabOf[s]
<1>1. v \in Vids /\ v # None
  BY NamesAssumption
<1>2. order' = Connected(v)
  BY DEF Attach
<1>3. /\ order' \in Seq(Vids) /\ Distinct(order')
      /\ Members(order') = Members(order) \cup {v}
  BY <1>1, <1>2, ConnectedMembers DEF GateInv
<1>4. Taken(s) \in [Socks -> Phases] /\ Holding(Taken(s)) = Holding(sock) \cup {v}
  BY TakenHold DEF GateInv
<1>5. CASE v \in Shared
  <2>1. owner' = owner /\ sock' = Taken(s)
    BY <1>5, KeepHolds DEF Attach
  <2> QED BY <1>3, <1>4, <1>5, <2>1 DEF GateInv, Ordered, Owned
<1>6. CASE v \notin Shared
  <2>1. owner' = v /\ sock' \in [Socks -> Phases] /\ Holding(sock') = Holding(Taken(s))
    <3>1. CASE owner = None
      <4>1. owner' = Claim(v) /\ sock' = Taken(s)
        BY <1>6, <3>1 DEF Attach, NoRefit
      <4> QED BY <1>4, <3>1, <4>1 DEF Claim
    <3>2. CASE owner # None /\ owner = v
      <4>1. owner' = owner /\ sock' = Taken(s)
        BY <1>6, <3>2, KeepHolds DEF Attach
      <4> QED BY <1>4, <3>2, <4>1
    <3>3. CASE owner # None /\ owner # v
      <4>1. SetOwner(v, Taken(s), timer)
        BY <1>6, <3>3 DEF Attach
      <4> QED BY <1>4, <4>1, SetOwnerHolds
    <3> QED BY <3>1, <3>2, <3>3
  <2> QED BY <1>1, <1>3, <1>4, <1>6, <2>1 DEF GateInv, Ordered, Owned
<1> QED BY <1>5, <1>6

\* A size from a tab that is connected and drives
LEMMA GateClaims ==
  ASSUME GateInv, UNCHANGED <<order, sock>>, NEW v, v # None, v \in Members(order) \ Shared,
         owner' = Claim(v)
  PROVE  GateInv'
BY DEF GateInv, Ordered, Owned, Claim

LEMMA GateResizes == ASSUME GateInv, NEW s \in Socks, Resize(s) PROVE GateInv'
<1> DEFINE v == TabOf[s]
<1>1. v \in Vids /\ v # None /\ v \notin Shared /\ sock[s] = "open" /\ UNCHANGED <<order, sock>>
  BY NamesAssumption DEF Resize
<1>2. v \in Members(order)
  BY <1>1 DEF GateInv, Ordered, Holding
<1>3. owner' = owner \/ owner' = Claim(v)
  BY DEF Resize, SubmitSize
<1> QED BY <1>1, <1>2, <1>3, GateClaims, GateStays DEF GateInv, Ordered

LEMMA GateSettles == ASSUME GateInv, NEW v \in Vids, Settle(v) PROVE GateInv'
<1>1. UNCHANGED <<order, owner>> /\ sock \in [Socks -> Phases]
  BY DEF Settle, GateInv, Ordered
<1>2. sock' \in [Socks -> Phases] /\ Holding(sock') = Holding(sock)
  BY <1>1, FireHolds DEF Settle, NoRefit
<1> QED BY <1>1, <1>2, GateStays

LEMMA GateExpires == ASSUME GateInv, NEW v \in Vids, Expire(v) PROVE GateInv'
<1> DEFINE rest == Without(v)
<1>1. order' = rest /\ Attached(v) = {}
  BY DEF Expire, Forget
<1>2. rest \in Seq(Vids) /\ Distinct(rest) /\ Members(rest) = Members(order) \ {v}
  BY WithoutMembers DEF GateInv
<1> HIDE DEF rest
<1>3. v \notin Holding(sock) /\ sock \in [Socks -> Phases]
  BY <1>1, AttachedHold DEF GateInv, Ordered
<1>4. Holding(sock) \subseteq Members(rest)
  BY <1>2, <1>3 DEF GateInv, Ordered
<1>5. CASE owner # v
  <2>1. owner' = owner /\ sock' = sock
    BY <1>5, KeepHolds DEF Expire
  <2> QED BY <1>1, <1>2, <1>3, <1>4, <1>5, <2>1 DEF GateInv, Ordered, Owned
<1>6. CASE owner = v
  <2>1. PICK next \in Newest(rest) :
          IF next = None
          THEN owner' = None /\ UNCHANGED scale /\ NoRefit(scaleDue, sock) /\ timer' = timer \ {v}
          ELSE SetOwner(next, sock, timer \ {v})
    BY <1>6 DEF Expire, rest
  <2>2. /\ next # None => next \in Members(rest) \ Shared
        /\ next = None => Members(rest) \cap Holding(sock) \subseteq Shared
    BY <1>2, HeirIsLive
  <2>3. owner' = next /\ sock' \in [Socks -> Phases] /\ Holding(sock') = Holding(sock)
    <3>1. CASE next = None
      BY <1>3, <2>1, <3>1 DEF NoRefit
    <3>2. CASE next # None
      BY <1>3, <2>1, <3>2, SetOwnerHolds
    <3> QED BY <3>1, <3>2
  <2> QED BY <1>1, <1>2, <1>4, <2>2, <2>3 DEF GateInv, Ordered, Owned
<1> QED BY <1>5, <1>6

LEMMA GatePlays == ASSUME GateInv, NEW v \in Vids, NEW on \in BOOLEAN, Gamemode(v, on) PROVE GateInv'
<1>1. PICK rec \in IF owner \in Known THEN {owner} ELSE Newest(order) :
        IF rec = None THEN UNCHANGED <<size, owner, timer>> ELSE SubmitSize(rec, window[v])
  BY DEF Gamemode
<1>2. UNCHANGED <<order, sock>>
  BY DEF Gamemode
<1>3. CASE rec = None
  BY <1>1, <1>2, <1>3, GateStays DEF GateInv, Ordered
<1>4. CASE rec # None
  <2>1. rec \in Members(order) \ Shared
    <3>1. CASE owner \in Known
      BY <1>1, <1>4, <3>1 DEF GateInv, Owned
    <3>2. CASE owner \notin Known
      BY <1>1, <1>4, <3>2, HeirIsLive DEF GateInv, Ordered
    <3> QED BY <3>1, <3>2
  <2>2. owner' = Claim(rec)
    BY <1>1, <1>4 DEF SubmitSize
  <2> QED BY <1>2, <1>4, <2>1, <2>2, GateClaims
<1> QED BY <1>3, <1>4

\* The handlers and the timers that leave the order and the owner alone
LEMMA GateGoesOn ==
  ASSUME GateInv,
         \/ \E s \in Socks : Admit(s) \/ DialFails(s) \/ Detach(s) \/ Hangup(s) \/ Drop(s) \/ Input(s)
         \/ \E s \in Socks, d \in Scales : PickScale(s, d)
         \/ \E v \in Vids : Idle(v) \/ CloseTab(v) \/ (\E z \in Sizes : ResizeWindow(v, z))
         \/ RestartForScale \/ Age \/ FinishRefit \/ UNCHANGED vars
         \/ \E ok \in BOOLEAN : TakeRequest(ok)
  PROVE  GateInv'
<1> USE DEF viewerVars, ownerVars, agentVars, clientVars
<1>1. sock \in [Socks -> Phases]
  BY DEF GateInv, Ordered
<1>2. ASSUME NEW s \in Socks, Admit(s) \/ DialFails(s) \/ Detach(s) PROVE GateInv'
  <2>1. sock' = [sock EXCEPT ![s] = "dialing"] \/ sock' = [sock EXCEPT ![s] = "idle"]
    BY <1>2 DEF Admit, DialFails, Detach
  <2>2. UNCHANGED <<order, owner>>
    BY <1>2 DEF Admit, DialFails, Detach
  <2> QED BY <2>1, <2>2, FewerHold, GateStays DEF GateInv
<1>3. ASSUME NEW s \in Socks, Hangup(s) \/ Drop(s) PROVE GateInv'
  <2>1. sock[s] = "open" /\ sock' = [sock EXCEPT ![s] = "ending"] /\ UNCHANGED <<order, owner>>
    BY <1>3 DEF Hangup, Drop
  <2> QED BY <2>1, StillHolds, GateStays DEF GateInv
<1>4. CASE RestartForScale \/ \E ok \in BOOLEAN : TakeRequest(ok)
  <2>1. sock' = Hangups(sock) /\ UNCHANGED <<order, owner>>
    BY <1>4 DEF RestartForScale, RequestRefit, TakeRequest
  <2> QED BY <1>1, <2>1, HangupsHold, GateStays
<1>5. ASSUME UNCHANGED <<sock, order, owner>> PROVE GateInv'
  BY <1>1, <1>5, GateStays
<1>6. ASSUME NEW s \in Socks, Input(s) \/ \E d \in Scales : PickScale(s, d) PROVE GateInv'
  BY <1>5, <1>6 DEF Input, PickScale
<1>7. ASSUME NEW v \in Vids, Idle(v) \/ CloseTab(v) \/ (\E z \in Sizes : ResizeWindow(v, z))
      PROVE  GateInv'
  BY <1>5, <1>7 DEF Idle, CloseTab, ResizeWindow
<1>8. CASE Age \/ FinishRefit \/ UNCHANGED vars
  BY <1>5, <1>8 DEF Age, FinishRefit, vars
<1> QED BY <1>2, <1>3, <1>4, <1>6, <1>7, <1>8

LEMMA GateStep == GateInv /\ [Next]_vars => GateInv'
<1> SUFFICES ASSUME GateInv, [Next]_vars PROVE GateInv'
  OBVIOUS
<1>1. ASSUME NEW s \in Socks, Handler(s) PROVE GateInv'
  BY <1>1, GateAttaches, GateResizes, GateGoesOn DEF Handler
<1>2. CASE Timers
  BY <1>2, GateSettles, GateExpires, GateGoesOn DEF Timers
<1>3. CASE Client
  BY <1>3, GatePlays, GateGoesOn DEF Client
<1> QED BY <1>1, <1>2, <1>3, GateGoesOn DEF Next

LEMMA GateGives == GateInv => OwnerIsKnown
<1> SUFFICES ASSUME GateInv PROVE OwnerIsKnown
  OBVIOUS
<1>1. \A v \in LiveTabs : v \in Vids /\ v \in Holding(sock)
  BY KnownAreMembers, AttachedHold DEF LiveTabs, GateInv, Ordered, Members
<1> QED BY <1>1, KnownAreMembers DEF GateInv, Owned, OwnerIsKnown

\* After any order of reconnects, refits, expiries and game modes: the seat size is not owned by
\* a tab that the gateway has forgotten or that only watches, and while a tab that drives is
\* connected some tab owns it (agent/gateway.py set_owner, expire; agent/viewers.py).
THEOREM OwnersAreKnown == Spec => []OwnerIsKnown
<1>1. Init => GateInv
  BY GateStart
<1>2. GateInv /\ [Next]_vars => GateInv'
  BY GateStep
<1>3. GateInv => OwnerIsKnown
  BY GateGives
<1> QED BY <1>1, <1>2, <1>3, PTL DEF Spec
=============================================================================
