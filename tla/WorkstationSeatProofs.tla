------------------------ MODULE WorkstationSeatProofs ------------------------
(***************************************************************************)
(* Proofs about WorkstationSeat, for any users, requests and heartbeats.   *)
(* That an order to drop streams is carried rests on two things: the write *)
(* of a row leaves alone the columns its handler did not change (FlushRow) *)
(* and, until a heartbeat is lost, one call at most is under way (OneCall).*)
(* It is so of every order but one repeated over a flag that a heartbeat   *)
(* took meanwhile, which adds nothing to what must be carried (KickRow).   *)
(***************************************************************************)
EXTENDS WorkstationSeat, TLAPS

\* Until a heartbeat is lost every call under way is the one the agent waits for.
OneCall == lost = 0 => \A b \in Beats : beat[b].pc # "free" => awaits = b

IInv == OneOpenSession /\ OneCall /\ DropIsCarried

Calls == [pc : {"free", "sent", "loaded", "answer"}, busy : BOOLEAN, idle : BOOLEAN,
          old : Rows, disconnect : BOOLEAN]
Reqs == [pc : {"free", "loaded", "end"}, kind : Kinds, user : Users, old : Rows]

LEMMA Empty ==
  /\ AnyUser \in Users
  /\ FreeRow \in Rows
  /\ \A pc \in {"free", "loaded", "end"} : Request(pc) \in Reqs
  /\ \A pc \in {"free", "sent", "loaded", "answer"}, d \in BOOLEAN : Call(pc, d) \in Calls
<1>1. AnyUser \in Users
  BY NamesAssumption DEF AnyUser
<1>2. FreeRow \in Rows
  BY DEF FreeRow, Rows
<1> QED BY <1>1, <1>2 DEF Request, Reqs, Kinds, Call, Calls

LEMMA Numbers == 0 \in 0..MaxLost /\ \A c \in Beats : c # NoBeat
<1>1. MaxBeats \in Nat /\ MaxLost \in Nat
  BY BoundAssumption
<1>2. \A c \in 1..MaxBeats : c # 0
  BY <1>1
<1> QED BY <1>1, <1>2 DEF Beats, NoBeat

\* What a handler did not change keeps what others wrote.
LEMMA FlushRow ==
  ASSUME NEW old \in Rows, NEW new \in Rows, row \in Rows, Flush(old, new)
  PROVE  /\ row' \in Rows
         /\ row'.pending = IF new.pending = old.pending THEN row.pending ELSE new.pending
<1>1. DOMAIN row = {"seat", "busy", "pending", "latch", "online"}
  BY DEF Rows
<1>2. row' = [f \in DOMAIN row |-> IF new[f] = old[f] THEN row[f] ELSE new[f]]
  BY DEF Flush
<1>3. row' = [seat |-> row'.seat, busy |-> row'.busy, pending |-> row'.pending,
              latch |-> row'.latch, online |-> row'.online]
  BY <1>1, <1>2
<1>4. /\ row'.seat \in Users \cup {NoUser}
      /\ row'.busy \in BOOLEAN /\ row'.latch \in BOOLEAN /\ row'.online \in BOOLEAN
  BY <1>1, <1>2 DEF Rows
<1>5. row'.pending = IF new.pending = old.pending THEN row.pending ELSE new.pending
  BY <1>1, <1>2
<1>6. row'.pending \in BOOLEAN
  BY <1>5 DEF Rows
<1> QED BY <1>3, <1>4, <1>5, <1>6 DEF Rows

\* Closing or aligning the log keeps one open session at most.
LEMMA SyncKeeps ==
  ASSUME TypeOK, OneOpenSession, NEW s, NEW n \in BOOLEAN, SyncSessions(s, n)
  PROVE  open' \in [Users -> 0..1] /\ OneOpenSession'
BY DEF TypeOK, OneOpenSession, SyncSessions

LEMMA CloseKeeps ==
  ASSUME CloseSessions
  PROVE  open' \in [Users -> 0..1] /\ OneOpenSession'
BY DEF OneOpenSession, CloseSessions

LEMMA InitHolds == Init => TypeOK /\ IInv
<1> SUFFICES ASSUME Init PROVE TypeOK /\ IInv
  OBVIOUS
<1> USE DEF Init
<1>1. TypeOK
  <2>1. First \in Users \cup {NoUser}
    BY NamesAssumption
  <2>2. row \in Rows
    <3>1. FreeRow \in Rows
      BY Empty
    <3> QED BY <2>1, <3>1 DEF Rows
  <2>3. req \in [Requests -> Reqs] /\ beat \in [Beats -> Calls]
    BY Empty
  <2>4. lost \in 0..MaxLost
    BY Numbers
  <2>5. open \in [Users -> 0..1]
    OBVIOUS
  <2>6. /\ enabled \subseteq Users /\ allowed \subseteq Users
        /\ awaits \in Beats \cup {NoBeat} /\ late \in BOOLEAN
    OBVIOUS
  <2>7. dialing \subseteq Users /\ streams \subseteq Users /\ doomed \subseteq streams
        /\ again \subseteq doomed
    OBVIOUS
  <2> HIDE DEF Init
  <2> QED BY <2>2, <2>3, <2>4, <2>5, <2>6, <2>7 DEF TypeOK, Reqs, Calls
<1>2. OneCall
  BY DEF OneCall, Call
<1> QED BY <1>1, <1>2 DEF IInv, OneOpenSession, DropIsCarried

-----------------------------------------------------------------------------
(* Requests                                                                *)

\* A request's write: heartbeats and streams stay, and a lost flag was not needed.
LEMMA OrderKept ==
  ASSUME TypeOK, IInv, UNCHANGED <<beat, awaits, streams, lost>>, row' \in Rows,
         \/ doomed' \ again' \subseteq doomed \ again /\ (row.pending => row'.pending)
         \/ row'.pending
  PROVE  OneCall' /\ DropIsCarried'
BY DEF IInv, OneCall, DropIsCarried

LEMMA LoadKeeps ==
  ASSUME TypeOK, IInv, NEW r \in Requests, NEW u \in Users, NEW kind \in Kinds,
         Load(r, kind, u)
  PROVE  TypeOK' /\ IInv'
<1> USE DEF Load, serverVars, agentVars, orders
<1>1. req' \in [Requests -> Reqs]
  BY DEF TypeOK, Reqs
<1>2. TypeOK'
  BY <1>1 DEF TypeOK, Reqs
<1> QED BY <1>2 DEF TypeOK, IInv, OneOpenSession, OneCall, DropIsCarried

\* The write of a row by a request, with or without an order to drop.
LEMMA KickRow ==
  ASSUME TypeOK, NEW old \in Rows, NEW new \in Rows, Flush(old, new),
         new.pending, Doom(old)
  PROVE  /\ row' \in Rows
         /\ doomed' \subseteq streams /\ again' \subseteq doomed'
         /\ \/ doomed' \ again' \subseteq doomed \ again /\ (row.pending => row'.pending)
            \/ row'.pending
<1>1. row' \in Rows
      /\ row'.pending = IF new.pending = old.pending THEN row.pending ELSE new.pending
  BY FlushRow DEF TypeOK
<1> QED BY <1>1 DEF TypeOK, Doom, Rows

LEMMA PlainRow ==
  ASSUME TypeOK, NEW old \in Rows, NEW new \in Rows, Flush(old, new),
         new.pending = old.pending
  PROVE  row' \in Rows /\ row'.pending = row.pending
BY FlushRow DEF TypeOK

LEMMA WriteKeeps ==
  ASSUME TypeOK, IInv, NEW r \in Requests, Write(r)
  PROVE  TypeOK' /\ IInv'
<1> DEFINE old == req[r].old
<1>1. old \in Rows /\ req[r].user \in Users
  BY DEF TypeOK
<1>2. /\ req' \in [Requests -> Reqs]
      /\ UNCHANGED <<beat, awaits, late, streams, lost>>
  BY Empty DEF Write, AuthWrite, AuthRefuse, LogoutWrite, SweepWrite, AccessWrite,
               Writes, TypeOK, Reqs
<1> SUFFICES /\ row' \in Rows /\ open' \in [Users -> 0..1] /\ OneOpenSession'
             /\ enabled' \subseteq Users /\ allowed' \subseteq Users
             /\ dialing' \subseteq Users /\ doomed' \subseteq streams /\ again' \subseteq doomed'
             /\ \/ doomed' \ again' \subseteq doomed \ again /\ (row.pending => row'.pending)
                \/ row'.pending
  BY <1>2, OrderKept DEF TypeOK, IInv, Reqs
<1>3. CASE AuthWrite(r)
  <2> DEFINE new == [old EXCEPT !.seat = req[r].user]
  <2>1. new \in Rows /\ new.pending = old.pending
    BY <1>1 DEF Rows
  <2>2. row' \in Rows /\ row'.pending = row.pending
    BY <1>1, <1>3, <2>1, PlainRow DEF AuthWrite
  <2> QED BY <1>1, <1>3, <2>2 DEF AuthWrite, orders, TypeOK, IInv, OneOpenSession
<1>4. CASE AuthRefuse(r)
  BY <1>4 DEF AuthRefuse, serverVars, orders, TypeOK, IInv, OneOpenSession
<1>5. CASE LogoutWrite(r)
  <2> DEFINE new == [old EXCEPT !.pending = TRUE, !.seat = NoUser, !.busy = FALSE]
  <2>1. new \in Rows /\ new.pending
    BY <1>1 DEF Rows
  <2>2. Flush(old, new) /\ Doom(old) /\ CloseSessions
    BY <1>5 DEF LogoutWrite
  <2> QED BY <1>1, <1>5, <2>1, <2>2, KickRow, CloseKeeps DEF LogoutWrite, TypeOK
<1>6. CASE SweepWrite(r)
  <2> DEFINE new == [old EXCEPT !.online = FALSE]
  <2>1. new \in Rows /\ new.pending = old.pending
    BY <1>1 DEF Rows
  <2>2. row' \in Rows /\ row'.pending = row.pending
    BY <1>1, <1>6, <2>1, PlainRow DEF SweepWrite
  <2> QED BY <1>6, <2>2, CloseKeeps DEF SweepWrite, orders, TypeOK
<1>7. ASSUME NEW list \in SUBSET (Users \ Admins), AccessWrite(r, list)
      PROVE  /\ row' \in Rows /\ open' \in [Users -> 0..1] /\ OneOpenSession'
             /\ enabled' \subseteq Users /\ allowed' \subseteq Users
             /\ dialing' \subseteq Users /\ doomed' \subseteq streams /\ again' \subseteq doomed'
             /\ \/ doomed' \ again' \subseteq doomed \ again /\ (row.pending => row'.pending)
                \/ row'.pending
  <2> DEFINE new == [old EXCEPT !.pending = TRUE, !.seat = NoUser]
  <2>1. new \in Rows /\ new.pending
    BY <1>1 DEF Rows
  <2>2. \/ Flush(old, new) /\ Doom(old) /\ CloseSessions
        \/ UNCHANGED <<row, open, orders>>
    BY <1>7 DEF AccessWrite, Kick
  <2>3. enabled' = enabled /\ allowed' = list /\ dialing' = dialing
    BY <1>7 DEF AccessWrite
  <2>4. CASE Flush(old, new) /\ Doom(old) /\ CloseSessions
    BY <1>1, <2>1, <2>3, <2>4, KickRow, CloseKeeps DEF TypeOK
  <2>5. CASE UNCHANGED <<row, open, orders>>
    BY <2>3, <2>5 DEF orders, TypeOK, IInv, OneOpenSession
  <2> QED BY <2>2, <2>4, <2>5
<1> QED BY <1>3, <1>4, <1>5, <1>6, <1>7 DEF Write

LEMMA DisableKeeps ==
  ASSUME TypeOK, IInv, NEW u \in Users, Disable(u)
  PROVE  TypeOK' /\ IInv'
<1> DEFINE new == [row EXCEPT !.pending = TRUE, !.seat = NoUser]
<1>1. row \in Rows /\ new \in Rows /\ new.pending
  BY DEF TypeOK, Rows
<1>2. \/ Flush(row, new) /\ Doom(row) /\ CloseSessions
      \/ UNCHANGED <<row, open, orders>>
  BY DEF Disable, Kick
<1>3. enabled' \subseteq Users /\ UNCHANGED <<allowed, req, beat, agentVars>>
  BY DEF Disable, TypeOK
<1>4. CASE Flush(row, new) /\ Doom(row) /\ CloseSessions
  <2>1. /\ row' \in Rows /\ doomed' \subseteq streams /\ again' \subseteq doomed'
        /\ \/ doomed' \ again' \subseteq doomed \ again /\ (row.pending => row'.pending)
           \/ row'.pending
    BY <1>1, <1>4, KickRow
  <2>2. open' \in [Users -> 0..1] /\ OneOpenSession'
    BY <1>4, CloseKeeps
  <2>3. OneCall' /\ DropIsCarried'
    BY <1>3, <2>1, OrderKept DEF agentVars
  <2> QED BY <1>3, <2>1, <2>2, <2>3 DEF agentVars, TypeOK, IInv
<1>5. CASE UNCHANGED <<row, open, orders>>
  <2>1. TypeOK'
    BY <1>3, <1>5 DEF agentVars, orders, TypeOK
  <2> QED BY <1>3, <1>5, <2>1 DEF agentVars, orders, IInv, OneOpenSession, OneCall, DropIsCarried
<1> QED BY <1>2, <1>4, <1>5

-----------------------------------------------------------------------------
(* Heartbeats and streams                                                  *)

LEMMA BeatSendKeeps ==
  ASSUME TypeOK, IInv, NEW b \in Beats, BeatSend(b)
  PROVE  TypeOK' /\ IInv'
<1> USE DEF BeatSend, serverVars, orders
<1>1. PICK idle \in BOOLEAN :
        beat' = [beat EXCEPT ![b].pc = "sent", ![b].busy = streams # {}, ![b].idle = idle]
  OBVIOUS
<1>2. beat' \in [Beats -> Calls]
  <2>1. \A n \in BOOLEAN, c \in Calls :
          [c EXCEPT !.pc = "sent", !.busy = n, !.idle = idle] \in Calls
    BY DEF Calls
  <2>2. beat \in [Beats -> Calls] /\ (streams # {}) \in BOOLEAN
    BY DEF TypeOK, Calls
  <2>3. [beat[b] EXCEPT !.pc = "sent", !.busy = streams # {}, !.idle = idle] \in Calls
    BY <2>1, <2>2
  <2> QED BY <1>1, <2>2, <2>3
<1>3. TypeOK'
  BY <1>2 DEF TypeOK, Calls
<1>4. awaits = NoBeat /\ \A c \in Beats : c # NoBeat
  BY Numbers
<1>5. OneCall'
  BY <1>1, <1>4 DEF TypeOK, IInv, OneCall
<1>6. DropIsCarried'
  BY <1>4 DEF IInv, DropIsCarried
<1> QED BY <1>3, <1>5, <1>6 DEF IInv, OneOpenSession

LEMMA BeatLoadKeeps ==
  ASSUME TypeOK, IInv, NEW b \in Beats, BeatLoad(b)
  PROVE  TypeOK' /\ IInv'
<1> USE DEF BeatLoad, serverVars, agentVars, orders
<1>1. beat' \in [Beats -> Calls]
  BY DEF TypeOK, Calls
<1>2. TypeOK'
  BY <1>1 DEF TypeOK, Calls
<1>3. OneCall'
  BY DEF TypeOK, IInv, OneCall
<1>4. DropIsCarried'
  BY DEF TypeOK, IInv, DropIsCarried
<1> QED BY <1>2, <1>3, <1>4 DEF IInv, OneOpenSession

LEMMA BeatWriteKeeps ==
  ASSUME TypeOK, IInv, NEW b \in Beats, BeatWrite(b)
  PROVE  TypeOK' /\ IInv'
<1> DEFINE old == beat[b].old
           n == beat[b].busy
           new == [old EXCEPT !.online = TRUE, !.busy = n, !.seat = Occupant(b),
                              !.latch = n /\ (@ \/ IdleDrop(b)), !.pending = FALSE]
<1>1. /\ old \in Rows /\ n \in BOOLEAN /\ beat[b] \in Calls
      /\ Occupant(b) \in Users \cup {NoUser} /\ IdleDrop(b) \in BOOLEAN
      /\ Disconnect(b) \in BOOLEAN
  BY DEF TypeOK, Calls, Occupant, IdleDrop, Disconnect, Rows
<1>2. new \in Rows /\ new.pending = FALSE
  BY <1>1 DEF Rows
<1>3. Flush(old, new) /\ SyncSessions(Occupant(b), n) /\ beat[b].pc = "loaded"
  BY DEF BeatWrite
<1>4. row' \in Rows /\ (row'.pending = IF old.pending = FALSE THEN row.pending ELSE FALSE)
  <2>1. row \in Rows
    BY DEF TypeOK
  <2>2. /\ row' \in Rows
        /\ row'.pending = IF new.pending = old.pending THEN row.pending ELSE new.pending
    <3> HIDE DEF old, n, new
    <3> QED BY <1>1, <1>2, <1>3, <2>1, FlushRow
  <2> QED BY <1>2, <2>2
<1>5. open' \in [Users -> 0..1] /\ OneOpenSession'
  BY <1>1, <1>3, SyncKeeps DEF IInv
<1>6. /\ beat' = [beat EXCEPT ![b] = IF awaits = b THEN Call("answer", Disconnect(b))
                                                 ELSE Call("free", FALSE)]
      /\ IF IdleDrop(b) THEN doomed' = doomed \cup streams /\ again' = {}
                        ELSE doomed' = doomed /\ again' = again
      /\ late' = FALSE
      /\ UNCHANGED <<enabled, allowed, req, awaits, dialing, streams, lost>>
  BY DEF BeatWrite, orders
<1>7. beat' \in [Beats -> Calls]
  BY <1>1, <1>6, Empty DEF TypeOK, Calls
<1>8. TypeOK'
  BY <1>4, <1>5, <1>6, <1>7 DEF TypeOK, Calls
<1>9. OneCall'
  BY <1>6 DEF TypeOK, IInv, OneCall, Call
<1>10. DropIsCarried'
  <2> SUFFICES ASSUME doomed' \ again' # {}, lost = 0, ~row'.pending
               PROVE  \E c \in Beats : awaits' = c /\ beat'[c].pc = "answer"
                                       /\ beat'[c].disconnect
    BY <1>6 DEF DropIsCarried
  <2>1. awaits = b
    BY <1>3 DEF IInv, OneCall
  <2>2. beat'[b] = Call("answer", Disconnect(b))
    BY <1>6, <2>1 DEF TypeOK
  <2>3. Disconnect(b)
    <3>1. CASE old.pending
      BY <3>1 DEF Disconnect
    <3>2. CASE ~old.pending
      <4>1. ~row.pending
        BY <1>1, <1>4, <3>2 DEF Rows
      <4>2. doomed \ again = {}
        BY <1>3, <2>1, <4>1 DEF IInv, DropIsCarried
      <4> QED BY <1>6, <4>2 DEF Disconnect
    <3> QED BY <3>1, <3>2
  <2> QED BY <1>6, <2>1, <2>2, <2>3 DEF Call
<1> QED BY <1>5, <1>8, <1>9, <1>10 DEF IInv

LEMMA BeatAnswerKeeps ==
  ASSUME TypeOK, IInv, NEW b \in Beats, BeatAnswer(b)
  PROVE  TypeOK' /\ IInv'
<1> USE DEF BeatAnswer, serverVars, orders
<1>1. beat' \in [Beats -> Calls] /\ beat'[b].pc = "free"
  BY Empty DEF TypeOK, Calls, Call
<1>2. TypeOK'
  BY <1>1 DEF TypeOK, Calls
<1>3. OneCall'
  BY <1>1 DEF TypeOK, IInv, OneCall
<1>4. DropIsCarried'
  BY DEF IInv, DropIsCarried
<1> QED BY <1>2, <1>3, <1>4 DEF IInv, OneOpenSession

LEMMA BeatLostKeeps ==
  ASSUME TypeOK, IInv, NEW b \in Beats, BeatLost(b)
  PROVE  TypeOK' /\ IInv'
<1> USE DEF BeatLost, serverVars, orders
<1>1. beat' \in [Beats -> Calls]
  <2>1. beat \in [Beats -> Calls] /\ Call("free", FALSE) \in Calls
    BY Empty DEF TypeOK, Calls
  <2> QED BY <2>1
<1>2. lost' \in 0..MaxLost /\ lost' # 0
  BY BoundAssumption DEF TypeOK
<1>3. TypeOK'
  BY <1>1, <1>2 DEF TypeOK, Calls
<1> QED BY <1>2, <1>3 DEF IInv, OneOpenSession, OneCall, DropIsCarried

LEMMA StreamKeeps ==
  ASSUME TypeOK, IInv, NEW u \in Users, Dial(u) \/ Leave(u)
  PROVE  TypeOK' /\ IInv'
<1> USE DEF Dial, Leave, serverVars, orders
<1>1. TypeOK'
  BY DEF TypeOK
<1>2. DropIsCarried'
  BY DEF IInv, DropIsCarried
<1> QED BY <1>1, <1>2 DEF IInv, OneOpenSession, OneCall

LEMMA NextKeeps == TypeOK /\ IInv /\ [Next]_vars => TypeOK' /\ IInv'
<1> SUFFICES ASSUME TypeOK, IInv, [Next]_vars PROVE TypeOK' /\ IInv'
  OBVIOUS
<1>1. ASSUME NEW r \in Requests, Read(r) PROVE TypeOK' /\ IInv'
  BY <1>1, Empty, LoadKeeps
     DEF Read, AuthLoad, TakeoverLoad, LogoutLoad, AccessLoad, SweepLoad, Kinds
<1>2. ASSUME NEW b \in Beats, Server(b) \/ Agent(b) \/ BeatLost(b) PROVE TypeOK' /\ IInv'
  BY <1>2, BeatSendKeeps, BeatLoadKeeps, BeatWriteKeeps, BeatAnswerKeeps, BeatLostKeeps
     DEF Server, Agent
<1>3. CASE UNCHANGED vars
  <2> USE <1>3 DEF vars, serverVars, agentVars, orders
  <2>1. TypeOK'
    BY DEF TypeOK
  <2> QED BY <2>1 DEF IInv, OneOpenSession, OneCall, DropIsCarried
<1> QED BY <1>1, <1>2, <1>3, WriteKeeps, DisableKeeps, StreamKeeps DEF Next

-----------------------------------------------------------------------------
LEMMA Inductive == Spec => [](TypeOK /\ IInv)
BY InitHolds, NextKeeps, PTL DEF Spec

\* Every reachable state is well typed; no user has two open rows in the log
\* (stream_sessions.py:27).
THEOREM TypeCorrect == Spec => []TypeOK
BY Inductive, PTL

\* The log never shows two people on one desktop (stream_sessions.py:55).
THEOREM OneOpenSessionHolds == Spec => []OneOpenSession
<1>1. TypeOK /\ IInv => OneOpenSession
  BY DEF IInv
<1> QED BY <1>1, Inductive, PTL

\* Until a heartbeat is lost an order to drop live streams is in the row or in the
\* answer the agent is about to read (agent.py:115); but for one that was given over a
\* flag its handler had loaded as set and a heartbeat took before it wrote.
THEOREM DropIsCarriedHolds == Spec => []DropIsCarried
<1>1. TypeOK /\ IInv => DropIsCarried
  BY DEF IInv
<1> QED BY <1>1, Inductive, PTL
=============================================================================
