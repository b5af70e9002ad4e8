----------------------- MODULE InstanceLifecycleProofs -----------------------
(***************************************************************************)
(* Proofs about InstanceLifecycle, for any number of instances, containers,*)
(* requests, crashes and faults.                                           *)
(*                                                                         *)
(* Nothing locks a row, so the invariant says what a handler may rely on   *)
(* after its awaits.  Once a row has named a container it names one until  *)
(* it is deleted, and an id is never created again: what a handler or a    *)
(* pass of the monitor saw then still holds of the row it writes, or the   *)
(* row is gone and nothing is written.                                     *)
(***************************************************************************)
EXTENDS InstanceLifecycle, TLAPS

\* The row names a container, or did so until it was deleted.
Had(i) == status[i] = "deleted" \/ (status[i] # "none" /\ cid[i] # NoBox)

InUse == {"running", "idle", "paused"}

\* the points from which a request may still come to create its container
Before == {"free", "inspect", "stopbox", "removebox", "insert", "launch", "mark", "build"}

\* the points at which it works on a container
Holding == {"inspect", "stopbox", "removebox", "save", "isolate", "startbox", "restartbox",
            "pausebox", "unpausebox", "commit"}

Calls == [pc : Points, kind : Kinds, inst : Instances \cup {AnyInstance}, seen : Statuses,
          cid : Boxes \cup {NoBox}, new : Boxes \cup {NoBox}]

Busy(r) == req[r].pc \notin {"free", "end"}

RowTypes ==
  /\ status \in [Instances -> Statuses]
  /\ cid \in [Instances -> Boxes \cup {NoBox}]
  /\ made \in [Boxes -> Instances]
MonitorTypes ==
  /\ left \subseteq Instances
  /\ found \in [Instances -> {"same", "idle", "stopped"}]

\* What request r may rely on
CallInv(r) ==
  /\ Busy(r) => req[r].inst \in Instances
  /\ Busy(r) /\ req[r].pc # "insert" => status[req[r].inst] # "none"
  /\ req[r].pc = "insert" => status[req[r].inst] = "none"
  /\ Busy(r) /\ req[r].cid # NoBox /\ req[r].new = NoBox => Had(req[r].inst)
  /\ req[r].new # NoBox => req[r].new = NewBox[r] /\ made[req[r].new] = req[r].inst
  /\ req[r].pc \in Before => req[r].new = NoBox
  /\ req[r].pc = "save" => req[r].new # NoBox
  /\ req[r].pc \in Holding /\ req[r].kind \notin {"stop", "keepalive"} => req[r].cid # NoBox
  /\ req[r].pc \in Holding /\ req[r].kind = "keepalive" /\ req[r].seen = "idle" =>
       req[r].cid # NoBox

RowInv ==
  /\ \A i \in Instances : status[i] = "none" => cid[i] = NoBox
  /\ \A i \in Instances : status[i] \in InUse => cid[i] # NoBox
  /\ \A i \in Instances : cid[i] # NoBox => made[cid[i]] = i
  /\ \A i \in Instances, r \in Requests : cid[i] = NewBox[r] => req[r].pc \notin Before

OneInserts ==
  \A r, q \in Requests : req[r].pc = "insert" /\ req[q].pc = "insert" /\ r # q =>
    req[r].inst # req[q].inst

MonitorInv == \A i \in Instances : i \in left \/ found[i] # "same" => Had(i)

NameInv ==
  /\ RowTypes /\ req \in [Requests -> Calls] /\ MonitorTypes
  /\ RowInv /\ OneInserts /\ MonitorInv
  /\ \A r \in Requests : CallInv(r)

LEMMA NameStart == Init => NameInv
<1> SUFFICES ASSUME Init PROVE NameInv
  OBVIOUS
<1> USE DEF Init
<1>1. RowTypes
  BY BoxAssumption DEF RowTypes, Statuses, Present
<1>2. \A r \in Requests : req[r] = Rest("free")
  OBVIOUS
<1>3. Rest("free") \in Calls
  BY DEF Rest, Calls, Points, DockerPoints, Kinds, Statuses
<1>4. Rest("free").pc = "free" /\ Rest("free").new = NoBox
  BY DEF Rest
<1>5. req \in [Requests -> Calls] /\ MonitorTypes
  BY <1>3 DEF MonitorTypes
<1>6. RowInv
  BY BoxAssumption DEF RowInv, InUse, Present
<1>7. OneInserts /\ MonitorInv
  BY <1>2, <1>4 DEF OneInserts, MonitorInv
<1>8. \A r \in Requests : CallInv(r)
  BY <1>2, <1>4 DEF CallInv, Busy, Holding, Before
<1> QED BY <1>1, <1>5, <1>6, <1>7, <1>8 DEF NameInv

-----------------------------------------------------------------------------
(* What the others keep                                                    *)

\* No row comes or goes unseen.
Stable ==
  \A i \in Instances : /\ status[i] # "none" => status'[i] # "none"
                       /\ Had(i) => Had(i)'

OnlyOf(r) == \A q \in Requests : q # r => req'[q] = req[q]

\* A request that does not move keeps what it relies on while another one does.
LEMMA OthersKept ==
  ASSUME NameInv, NEW r \in Requests, OnlyOf(r), Stable,
         \A i \in Instances : status[i] = "none" =>
           status'[i] = "none" \/ (req[r].pc = "insert" /\ req[r].inst = i),
         \A b \in Boxes : b # NewBox[r] => made'[b] = made[b],
         NEW q \in Requests, q # r
  PROVE  CallInv(q)'
<1>1. req'[q] = req[q]
  BY DEF OnlyOf
<1>2. Busy(q)' = Busy(q)
  BY <1>1 DEF Busy
<1>3. CallInv(q)
  BY DEF NameInv
<1>4. Busy(q) => req[q].inst \in Instances
  BY <1>3 DEF CallInv
<1>5. Busy(q) /\ req[q].pc # "insert" => status'[req[q].inst] # "none"
  BY <1>3, <1>4 DEF CallInv, Stable
<1>6. req[q].pc = "insert" => status'[req[q].inst] = "none"
  <2> SUFFICES ASSUME req[q].pc = "insert" PROVE status'[req[q].inst] = "none"
    OBVIOUS
  <2>1. status[req[q].inst] = "none" /\ req[q].inst \in Instances
    BY <1>3, <1>4 DEF CallInv, Busy
  <2>2. ~(req[r].pc = "insert" /\ req[r].inst = req[q].inst)
    BY DEF NameInv, OneInserts
  <2> QED BY <2>1, <2>2
<1>7. Busy(q) /\ req[q].cid # NoBox /\ req[q].new = NoBox =>
        status'[req[q].inst] = "deleted"
        \/ (status'[req[q].inst] # "none" /\ cid'[req[q].inst] # NoBox)
  BY <1>3, <1>4 DEF CallInv, Stable, Had
<1>8. req[q].new # NoBox => req[q].new = NewBox[q] /\ made'[req[q].new] = req[q].inst
  <2>1. NewBox[q] # NewBox[r] /\ NewBox[q] \in Boxes
    BY BoxAssumption
  <2> QED BY <1>3, <2>1 DEF CallInv
<1> QED BY <1>1, <1>2, <1>3, <1>5, <1>6, <1>7, <1>8 DEF CallInv, Had

\* The same for the monitor
LEMMA MonitorKept ==
  ASSUME NameInv, Stable, left' \subseteq left, UNCHANGED found
  PROVE  MonitorTypes' /\ MonitorInv'
BY DEF NameInv, MonitorTypes, MonitorInv, Stable

LEMMA NothingMoves ==
  ASSUME NameInv, UNCHANGED <<status, cid>>
  PROVE  Stable /\ \A i \in Instances : status[i] = "none" => status'[i] = "none"
BY DEF Stable, Had

-----------------------------------------------------------------------------
(* One request moves                                                       *)

\* The rows after a step of request r
RowsFollow(r) ==
  /\ \A i \in Instances : status'[i] = "none" => cid'[i] = NoBox
  /\ \A i \in Instances : status'[i] \in InUse => cid'[i] # NoBox
  /\ \A i \in Instances : cid'[i] # NoBox => made'[cid'[i]] = i
  /\ \A i \in Instances, q \in Requests :
       cid'[i] = NewBox[q] => cid[i] = NewBox[q] \/ (q = r /\ req'[r].pc \notin Before)

LEMMA OneMoves ==
  ASSUME NameInv, NEW r \in Requests, NEW c \in Calls, req' = [req EXCEPT ![r] = c],
         RowTypes', Stable, left' \subseteq left, UNCHANGED found, RowsFollow(r),
         \A i \in Instances : status[i] = "none" =>
           status'[i] = "none" \/ (req[r].pc = "insert" /\ req[r].inst = i),
         \A b \in Boxes : b # NewBox[r] => made'[b] = made[b],
         c.pc \in Before => req[r].pc \in Before,
         c.pc = "insert" => \A q \in Requests : req[q].pc = "insert" => req[q].inst # c.inst,
         CallInv(r)'
  PROVE  NameInv'
<1>1. req \in [Requests -> Calls]
  BY DEF NameInv
<1>2. req' \in [Requests -> Calls] /\ req'[r] = c /\ OnlyOf(r)
  BY <1>1 DEF OnlyOf
<1>3. MonitorTypes' /\ MonitorInv'
  BY MonitorKept
<1>4. ASSUME NEW q \in Requests PROVE CallInv(q)'
  <2>1. CASE q # r
    BY <1>2, <2>1, OthersKept
  <2> QED BY <2>1
<1>5. RowInv'
  BY <1>2 DEF NameInv, RowInv, RowsFollow, OnlyOf
<1>6. OneInserts'
  BY <1>2 DEF NameInv, OneInserts, OnlyOf
<1> QED BY <1>2, <1>3, <1>4, <1>5, <1>6 DEF NameInv

LEMMA Resting == Rest("end") \in Calls /\ Rest("end").pc = "end" /\ Rest("end").new = NoBox
BY DEF Rest, Calls, Points, DockerPoints, Kinds, Statuses

\* A request that ends
LEMMA Ends ==
  ASSUME NameInv, NEW r \in Requests, End(r), RowTypes', Stable, left' \subseteq left,
         UNCHANGED <<found, made>>, RowsFollow(r),
         \A i \in Instances : status[i] = "none" => status'[i] = "none"
  PROVE  NameInv'
<1>1. req' = [req EXCEPT ![r] = Rest("end")]
  BY DEF End
<1>2. req'[r] = Rest("end")
  BY <1>1 DEF NameInv
<1>3. CallInv(r)'
  BY <1>2, Resting DEF CallInv, Busy, Before, Holding
<1> QED BY <1>1, <1>3, Resting, OneMoves DEF Before

\* The rows, when a step writes none of them
LEMMA RowsStay ==
  ASSUME NameInv, NEW r \in Requests, UNCHANGED <<status, cid, made>>
  PROVE  /\ RowTypes' /\ Stable /\ RowsFollow(r)
         /\ \A i \in Instances : status[i] = "none" => status'[i] = "none"
BY NothingMoves DEF NameInv, RowTypes, RowInv, RowsFollow

\* A request that goes on to another point
LEMMA MovesOn ==
  ASSUME NameInv, NEW r \in Requests, NEW p \in Points, Goto(r, p), Busy(r),
         req[r].pc # "insert", UNCHANGED <<status, cid, made, left, found>>,
         p \notin {"free", "insert", "save"}, p \in Before => req[r].pc \in Before,
         p \in Holding => req[r].pc \in Holding
  PROVE  NameInv'
<1> DEFINE c == [req[r] EXCEPT !.pc = p]
<1>1. req[r] \in Calls
  BY DEF NameInv
<1>2. /\ c \in Calls /\ c.pc = p /\ c.inst = req[r].inst /\ c.cid = req[r].cid /\ c.new = req[r].new
      /\ c.kind = req[r].kind /\ c.seen = req[r].seen
  BY <1>1 DEF Calls
<1>3. req' = [req EXCEPT ![r] = c]
  BY DEF Goto, NameInv
<1> HIDE DEF c
<1>4. req'[r] = c
  BY <1>3 DEF NameInv
<1>5. CallInv(r)
  BY DEF NameInv
<1>6. CallInv(r)'
  BY <1>2, <1>4, <1>5 DEF CallInv, Busy, Had
<1> QED BY <1>2, <1>3, <1>6, RowsStay, OneMoves

-----------------------------------------------------------------------------
(* A request writes its row                                                *)

LEMMA RowWritten ==
  ASSUME NameInv, NEW r \in Requests, Busy(r), NEW result \in Statuses,
         UpdateRow(r, result), UNCHANGED made,
         result # req[r].seen => result \notin {"none", "deleted"},
         Present(req[r].inst) \/ (result = req[r].seen /\ req[r].new = NoBox),
         result \in InUse /\ result # req[r].seen => req[r].cid # NoBox,
         req'[r].pc \notin Before \/ req[r].new = NoBox
  PROVE  /\ RowTypes' /\ Stable /\ RowsFollow(r)
         /\ \A i \in Instances : status[i] = "none" => status'[i] = "none"
         /\ req[r].new # NoBox => status'[req[r].inst] # "none" /\ cid'[req[r].inst] # NoBox
<1> DEFINE i == req[r].inst
<1>1. i \in Instances /\ CallInv(r) /\ req[r] \in Calls
  BY DEF NameInv, CallInv
<1>2. req[r].new \in Boxes \cup {NoBox}
  BY <1>1 DEF Calls
<1>3. CASE req[r].new = NoBox
  <2>1. cid' = cid
    BY <1>3 DEF UpdateRow
  <2>2. CASE status' = status
    BY <1>3, <2>1, <2>2, RowsStay
  <2>3. CASE status' = [status EXCEPT ![i] = result] /\ result # req[r].seen
    <3>0. result \notin {"none", "deleted"}
      BY <2>3
    <3>1. Present(i)
      BY <2>3
    <3>2. status'[i] = result /\ \A k \in Instances : k # i => status'[k] = status[k]
      BY <1>1, <2>3 DEF NameInv, RowTypes
    <3>3. RowTypes'
      BY <1>1, <2>1, <2>3 DEF NameInv, RowTypes
    <3>4. Stable
      BY <2>1, <3>0, <3>1, <3>2 DEF Stable, Had, Present
    <3>5. result \in InUse => cid[i] # NoBox
      <4>1. result \in InUse => Had(i)
        BY <1>1, <1>3, <2>3 DEF CallInv
      <4> QED BY <3>1, <4>1 DEF Had, Present
    <3>6. RowsFollow(r)
      BY <2>1, <3>0, <3>2, <3>5 DEF NameInv, RowInv, RowsFollow
    <3> QED BY <1>3, <3>1, <3>2, <3>3, <3>4, <3>6 DEF Present
  <2> QED BY <2>2, <2>3 DEF UpdateRow
<1>4. CASE req[r].new # NoBox
  <2>1. cid' = [cid EXCEPT ![i] = req[r].new] /\ Present(i)
    BY <1>4 DEF UpdateRow
  <2>2. status' = status
        \/ (status' = [status EXCEPT ![i] = result] /\ result \notin {"none", "deleted"})
    BY DEF UpdateRow
  <2>3. cid'[i] = req[r].new /\ \A k \in Instances : k # i => cid'[k] = cid[k]
    BY <1>1, <2>1 DEF NameInv, RowTypes
  <2>4. status'[i] \notin {"none", "deleted"} /\ \A k \in Instances : k # i => status'[k] = status[k]
    BY <1>1, <2>1, <2>2 DEF NameInv, RowTypes, Present
  <2>5. RowTypes'
    BY <1>1, <1>2, <2>1, <2>2 DEF NameInv, RowTypes
  <2>6. Stable
    BY <1>4, <2>1, <2>3, <2>4 DEF Stable, Had, Present
  <2>7. req[r].new = NewBox[r] /\ made[req[r].new] = i
    BY <1>1, <1>4 DEF CallInv
  <2>8. \A q \in Requests : NewBox[q] = NewBox[r] => q = r
    BY BoxAssumption
  <2>9. RowsFollow(r)
    BY <1>4, <2>3, <2>4, <2>7, <2>8 DEF NameInv, RowInv, RowsFollow
  <2> QED BY <1>4, <2>1, <2>3, <2>4, <2>5, <2>6, <2>9 DEF Present
<1> QED BY <1>3, <1>4
-----------------------------------------------------------------------------
(* The steps of the handlers                                               *)

LEMMA CallTypes ==
  ASSUME NameInv, NEW r \in Requests
  PROVE  /\ req[r] \in Calls /\ CallInv(r)
         /\ req[r].inst \in Instances \cup {AnyInstance}
         /\ req[r].cid \in Boxes \cup {NoBox} /\ req[r].new \in Boxes \cup {NoBox}
         /\ req[r].kind \in Kinds /\ req[r].seen \in Statuses
BY DEF NameInv, Calls

LEMMA AbortStep ==
  ASSUME NameInv, NEW r \in Requests, Busy(r), Abort(r), UNCHANGED <<made, left, found>>
  PROVE  NameInv'
<1> DEFINE i == req[r].inst
<1>1. i \in Instances
  BY DEF NameInv, CallInv
<1>2. End(r) /\ cid' = cid
  BY DEF Abort, LaunchError, rowVars
<1>3. CASE status' = status
  BY <1>2, <1>3, RowsStay, Ends
<1>4. CASE status' = [status EXCEPT ![i] = "error"] /\ Present(i)
  <2>1. status'[i] = "error" /\ \A k \in Instances : k # i => status'[k] = status[k]
    BY <1>1, <1>4 DEF NameInv, RowTypes
  <2>2. RowTypes'
    BY <1>1, <1>2, <1>4 DEF NameInv, RowTypes, Statuses
  <2>3. Stable /\ \A k \in Instances : status[k] = "none" => status'[k] = "none"
    BY <1>2, <1>4, <2>1 DEF Stable, Had, Present
  <2>4. RowsFollow(r)
    BY <1>2, <2>1 DEF NameInv, RowInv, RowsFollow, InUse
  <2> QED BY <1>2, <2>2, <2>3, <2>4, Ends
<1> QED BY <1>3, <1>4 DEF Abort, LaunchError, rowVars

\* A handler starts: what it loads is what the row says.
LEMMA LoadStep ==
  ASSUME NameInv, NEW r \in Requests, NEW i \in Instances, NEW kind \in Kinds,
         NEW p \in Points \ {"free", "mark", "save"}, Load(r, kind, i, p),
         UNCHANGED <<status, cid, made, left, found>>,
         IF p = "insert"
         THEN status[i] = "none" /\ \A q \in Requests : req[q].pc = "insert" => req[q].inst # i
         ELSE status[i] # "none",
         p \in Holding /\ (kind \notin {"stop", "keepalive"} \/ status[i] = "idle") => cid[i] # NoBox
  PROVE  NameInv'
<1> DEFINE c == [pc |-> p, kind |-> kind, inst |-> i, seen |-> status[i], cid |-> cid[i],
                 new |-> NoBox]
<1>1. status[i] \in Statuses /\ cid[i] \in Boxes \cup {NoBox}
  BY DEF NameInv, RowTypes
<1>2. /\ c \in Calls /\ c.pc = p /\ c.inst = i /\ c.cid = cid[i] /\ c.new = NoBox
      /\ c.kind = kind /\ c.seen = status[i]
  BY <1>1 DEF Calls
<1>3. req' = [req EXCEPT ![r] = c] /\ req[r].pc = "free"
  BY DEF Load, At
<1> HIDE DEF c
<1>4. req'[r] = c
  BY <1>3 DEF NameInv
<1>5. status[i] # "none" /\ cid[i] # NoBox => Had(i)
  BY DEF Had
<1>6. status[i] = "none" => cid[i] = NoBox
  BY DEF NameInv, RowInv
<1>7. CallInv(r)'
  BY <1>2, <1>4, <1>5, <1>6 DEF CallInv, Busy, Had
<1> QED BY <1>2, <1>3, <1>7, RowsStay, OneMoves DEF Before

LEMMA AcceptStep ==
  ASSUME NameInv, NEW r \in Requests, NEW i \in Instances, Accept(r, i)
  PROVE  NameInv'
<1>1. UNCHANGED <<status, cid, made, left, found>>
  BY DEF Accept, rowVars, dockerVars, monitorVars
<1>2. status[i] \in InUse => cid[i] # NoBox
  BY DEF NameInv, RowInv
<1> USE DEF Points, DockerPoints, Kinds, Present, Holding
<1>3. CASE CreateCheck(r, i)
  BY <1>1, <1>3, LoadStep DEF CreateCheck
<1>4. CASE StartLoad(r, i)
  <2>1. CASE cid[i] = NoBox
    BY <1>1, <1>4, <2>1, LoadStep DEF StartLoad
  <2>2. CASE cid[i] # NoBox
    BY <1>1, <1>4, <2>2, LoadStep DEF StartLoad
  <2> QED BY <2>1, <2>2
<1>5. CASE StopLoad(r, i)
  <2>0. Load(r, "stop", i, IF cid[i] = NoBox THEN "commit" ELSE "inspect") /\ status[i] # "none"
    BY <1>5 DEF StopLoad
  <2>1. CASE cid[i] = NoBox
    <3>1. status[i] # "idle"
      BY <1>2, <2>1 DEF InUse
    <3> QED BY <1>1, <2>0, <2>1, <3>1, LoadStep
  <2>2. CASE cid[i] # NoBox
    BY <1>1, <2>0, <2>2, LoadStep
  <2> QED BY <2>1, <2>2
<1>6. CASE RestartLoad(r, i)
  BY <1>1, <1>6, LoadStep DEF RestartLoad
<1>7. CASE RecreateLoad(r, i)
  <2>1. CASE cid[i] = NoBox
    BY <1>1, <1>7, <2>1, LoadStep DEF RecreateLoad
  <2>2. CASE cid[i] # NoBox
    BY <1>1, <1>7, <2>2, LoadStep DEF RecreateLoad
  <2> QED BY <2>1, <2>2
<1>8. CASE PauseLoad(r, i)
  BY <1>1, <1>2, <1>8, LoadStep DEF PauseLoad, InUse
<1>9. CASE UnpauseLoad(r, i)
  BY <1>1, <1>2, <1>9, LoadStep DEF UnpauseLoad, InUse
<1>10. CASE DeleteLoad(r, i)
  <2>1. CASE cid[i] = NoBox
    BY <1>1, <1>10, <2>1, LoadStep DEF DeleteLoad
  <2>2. CASE cid[i] # NoBox
    BY <1>1, <1>10, <2>2, LoadStep DEF DeleteLoad
  <2> QED BY <2>1, <2>2
<1>11. CASE KeepaliveLoad(r, i)
  BY <1>1, <1>2, <1>11, LoadStep DEF KeepaliveLoad, InUse
<1> QED BY <1>3, <1>4, <1>5, <1>6, <1>7, <1>8, <1>9, <1>10, <1>11 DEF Accept

LEMMA CreateInsertStep ==
  ASSUME NameInv, NEW r \in Requests, CreateInsert(r)
  PROVE  NameInv'
<1> DEFINE i == req[r].inst
<1>1. req[r].pc = "insert" /\ UNCHANGED <<cid, made, left, found>>
  BY DEF CreateInsert, At, dockerVars, monitorVars
<1>2. i \in Instances /\ status[i] = "none" /\ cid[i] = NoBox /\ req[r].new = NoBox
  BY <1>1 DEF NameInv, RowInv, CallInv, Busy, Before
<1>3. req[r].cid = NoBox
  BY <1>1, <1>2 DEF NameInv, CallInv, Busy, Had
<1>4. CASE status' = [status EXCEPT ![i] = "starting"] /\ Goto(r, "launch")
  <2>1. status'[i] = "starting" /\ \A k \in Instances : k # i => status'[k] = status[k]
    BY <1>2, <1>4 DEF NameInv, RowTypes
  <2>2. RowTypes'
    BY <1>1, <1>2, <1>4 DEF NameInv, RowTypes, Statuses
  <2>3. Stable
    BY <1>1, <1>2, <2>1 DEF Stable, Had
  <2>4. RowsFollow(r)
    BY <1>1, <1>2, <2>1 DEF NameInv, RowInv, RowsFollow, InUse
  <2> DEFINE c == [req[r] EXCEPT !.pc = "launch"]
  <2>5. /\ c \in Calls /\ c.pc = "launch" /\ c.inst = i /\ c.cid = NoBox /\ c.new = NoBox
    BY <1>2, <1>3, CallTypes DEF Calls, Points
  <2>6. req' = [req EXCEPT ![r] = c]
    BY <1>4 DEF Goto, NameInv
  <2> HIDE DEF c
  <2>7. req'[r] = c
    BY <2>6 DEF NameInv
  <2>8. CallInv(r)'
    BY <1>2, <2>1, <2>5, <2>7 DEF CallInv, Busy, Holding
  <2>9. \A k \in Instances : status[k] = "none" =>
          status'[k] = "none" \/ (req[r].pc = "insert" /\ req[r].inst = k)
    BY <1>1, <2>1
  <2> QED BY <1>1, <2>2, <2>3, <2>4, <2>5, <2>6, <2>8, <2>9, OneMoves DEF Before
<1>5. CASE End(r) /\ status' = status
  BY <1>1, <1>5, RowsStay, Ends
<1> QED BY <1>4, <1>5 DEF CreateInsert

LEMMA LaunchLoadStep ==
  ASSUME NameInv, NEW r \in Requests, LaunchLoad(r)
  PROVE  NameInv'
<1> DEFINE i == req[r].inst
<1>1. req[r].pc = "launch" /\ UNCHANGED <<status, cid, made, left, found>>
  BY DEF LaunchLoad, At, rowVars, dockerVars, monitorVars
<1>2. i \in Instances /\ status[i] # "none" /\ req[r].new = NoBox
  BY <1>1 DEF NameInv, CallInv, Busy, Before
<1>3. CASE req' = [req EXCEPT ![r].pc = "mark", ![r].seen = status[i], ![r].cid = cid[i]]
  <2> DEFINE c == [req[r] EXCEPT !.pc = "mark", !.seen = status[i], !.cid = cid[i]]
  <2>1. status[i] \in Statuses /\ cid[i] \in Boxes \cup {NoBox}
    BY <1>2 DEF NameInv, RowTypes
  <2>2. /\ c \in Calls /\ c.pc = "mark" /\ c.inst = i /\ c.cid = cid[i] /\ c.new = NoBox
    BY <1>2, <2>1, CallTypes DEF Calls, Points
  <2>3. req' = [req EXCEPT ![r] = c]
    BY <1>3 DEF NameInv
  <2> HIDE DEF c
  <2>4. req'[r] = c
    BY <2>3 DEF NameInv
  <2>5. CallInv(r)'
    BY <1>1, <1>2, <2>2, <2>4 DEF CallInv, Busy, Holding, Had
  <2> QED BY <1>1, <2>2, <2>3, <2>5, RowsStay, OneMoves DEF Before
<1>4. CASE End(r)
  BY <1>1, <1>4, RowsStay, Ends
<1> QED BY <1>3, <1>4 DEF LaunchLoad

LEMMA LaunchMarkStep ==
  ASSUME NameInv, NEW r \in Requests, LaunchMark(r)
  PROVE  NameInv'
<1> DEFINE i == req[r].inst
<1>1. req[r].pc = "mark" /\ UNCHANGED <<made, left, found>>
  BY DEF LaunchMark, At, dockerVars, monitorVars
<1>2. i \in Instances /\ status[i] # "none" /\ req[r].new = NoBox
  BY <1>1 DEF NameInv, CallInv, Busy, Before
<1>3. ASSUME NEW mark \in {"pulling", "starting"}, Present(i) \/ mark = req[r].seen,
             UpdateRow(r, mark), req' = [req EXCEPT ![r].pc = "build", ![r].seen = mark]
      PROVE  NameInv'
  <2>1. /\ RowTypes' /\ Stable /\ RowsFollow(r)
        /\ \A k \in Instances : status[k] = "none" => status'[k] = "none"
    BY <1>1, <1>2, <1>3, RowWritten DEF Busy, Statuses, InUse
  <2> DEFINE c == [req[r] EXCEPT !.pc = "build", !.seen = mark]
  <2>2. /\ c \in Calls /\ c.pc = "build" /\ c.inst = i /\ c.cid = req[r].cid /\ c.new = NoBox
    BY <1>2, CallTypes DEF Calls, Points, DockerPoints, Statuses
  <2>3. req' = [req EXCEPT ![r] = c]
    BY <1>3 DEF NameInv
  <2> HIDE DEF c
  <2>4. req'[r] = c
    BY <2>3 DEF NameInv
  <2>5. req[r].cid # NoBox => status'[i] = "deleted" \/ (status'[i] # "none" /\ cid'[i] # NoBox)
    BY <1>1, <1>2, <2>1 DEF NameInv, CallInv, Busy, Stable, Had
  <2>6. status'[i] # "none"
    BY <1>2, <2>1 DEF Stable
  <2>7. CallInv(r)'
    BY <1>1, <1>2, <2>2, <2>4, <2>5, <2>6 DEF CallInv, Busy, Holding, Had
  <2> QED BY <1>1, <2>1, <2>2, <2>3, <2>7, OneMoves DEF Before
<1>4. CASE End(r) /\ UNCHANGED <<status, cid>>
  BY <1>1, <1>4, RowsStay, Ends
<1> QED BY <1>3, <1>4 DEF LaunchMark

LEMMA LaunchSaveStep ==
  ASSUME NameInv, NEW r \in Requests, LaunchSave(r)
  PROVE  NameInv'
<1> DEFINE i == req[r].inst
<1>1. req[r].pc = "save" /\ UNCHANGED <<made, left, found>>
  BY DEF LaunchSave, At, dockerVars, monitorVars
<1>2. i \in Instances /\ req[r].new # NoBox
  BY <1>1 DEF NameInv, CallInv, Busy
<1>3. CASE /\ Present(i) /\ UpdateRow(r, "starting")
           /\ req' = [req EXCEPT ![r].pc = "isolate", ![r].seen = "starting", ![r].new = NoBox]
  <2> DEFINE c == [req[r] EXCEPT !.pc = "isolate", !.seen = "starting", !.new = NoBox]
  <2>1. /\ c \in Calls /\ c.pc = "isolate" /\ c.inst = i /\ c.cid = req[r].cid /\ c.new = NoBox
        /\ c.kind = req[r].kind /\ c.seen = "starting"
    BY CallTypes DEF Calls, Points, DockerPoints, Statuses
  <2>2. req' = [req EXCEPT ![r] = c]
    BY <1>3 DEF NameInv
  <2> HIDE DEF c
  <2>3. req'[r] = c
    BY <2>2 DEF NameInv
  <2>4. /\ RowTypes' /\ Stable /\ RowsFollow(r)
        /\ \A k \in Instances : status[k] = "none" => status'[k] = "none"
        /\ status'[i] # "none" /\ cid'[i] # NoBox
    BY <1>1, <1>2, <1>3, <2>1, <2>3, RowWritten DEF Busy, Before, Statuses, InUse
  <2>5. CallInv(r)'
    BY <1>1, <1>2, <2>1, <2>3, <2>4, CallTypes DEF CallInv, Busy, Holding, Had, Before
  <2> QED BY <1>1, <2>1, <2>2, <2>4, <2>5, OneMoves DEF Before
<1>4. CASE End(r) /\ UNCHANGED <<status, cid>>
  BY <1>1, <1>4, RowsStay, Ends
<1> QED BY <1>3, <1>4 DEF LaunchSave

-----------------------------------------------------------------------------
(* The Docker calls                                                        *)

LEMMA InspectStep ==
  ASSUME NameInv, NEW r \in Requests, Inspect(r)
  PROVE  NameInv'
<1> DEFINE p == AfterInspect(req[r].kind, box[req[r].cid])
<1>1. /\ req[r].pc = "inspect" /\ Goto(r, p) /\ UNCHANGED <<status, cid, made, left, found>>
  BY DEF Inspect, At, rowVars, dockerVars, monitorVars
<1>2. p \in {"isolate", "build", "commit", "stopbox", "removebox", "unrow", "end"}
  BY DEF AfterInspect
<1> HIDE DEF p
<1>3. p \in Points
  BY <1>2 DEF Points, DockerPoints
<1> QED BY <1>1, <1>2, <1>3, MovesOn DEF Busy, Before, Holding

LEMMA CallStep ==
  ASSUME NameInv, NEW r \in Requests, NEW from, NEW to, NEW p \in Points,
         Busy(r), req[r].pc # "insert", Call(r, from, to, p),
         p \notin {"free", "insert", "save"}, p \in Before => req[r].pc \in Before,
         p \in Holding => req[r].pc \in Holding
  PROVE  NameInv'
<1>1. UNCHANGED <<made, left, found>>
  BY DEF Call, monitorVars
<1>2. CASE Goto(r, p) /\ UNCHANGED rowVars
  <2>1. UNCHANGED <<status, cid>>
    BY <1>2 DEF rowVars
  <2> QED BY <1>1, <1>2, <2>1, MovesOn
<1>3. CASE Abort(r)
  BY <1>1, <1>3, AbortStep
<1> QED BY <1>2, <1>3 DEF Call

LEMMA BoxStep ==
  ASSUME NameInv, NEW r \in Requests,
         StopBox(r) \/ RemoveBox(r) \/ StartBox(r) \/ RestartBox(r) \/ PauseBox(r) \/ UnpauseBox(r)
  PROVE  NameInv'
<1> USE DEF At, Busy, Points, DockerPoints, Before, Holding
<1>1. CASE StopBox(r)
  <2> DEFINE to == IF box[req[r].cid] = "created" THEN "created" ELSE "exited"
             p == IF req[r].kind = "stop" THEN "commit" ELSE "removebox"
  <2>1. req[r].pc = "stopbox" /\ Call(r, Exists, to, p) /\ p \in {"commit", "removebox"}
    BY <1>1 DEF StopBox
  <2> HIDE DEF to, p
  <2> QED BY <2>1, CallStep
<1>2. CASE RemoveBox(r)
  <2> DEFINE p == IF req[r].kind = "recreate" THEN "build" ELSE "unrow"
  <2>1. req[r].pc = "removebox" /\ Call(r, Exists, "gone", p) /\ p \in {"build", "unrow"}
    BY <1>2 DEF RemoveBox
  <2> HIDE DEF p
  <2> QED BY <2>1, CallStep
<1>3. CASE StartBox(r)
  BY <1>3, CallStep DEF StartBox
<1>4. CASE RestartBox(r)
  BY <1>4, CallStep DEF RestartBox
<1>5. CASE PauseBox(r)
  BY <1>5, CallStep DEF PauseBox
<1>6. CASE UnpauseBox(r)
  BY <1>6, CallStep DEF UnpauseBox
<1> QED BY <1>1, <1>2, <1>3, <1>4, <1>5, <1>6

LEMMA BuildStep ==
  ASSUME NameInv, NEW r \in Requests, Build(r)
  PROVE  NameInv'
<1> DEFINE i == req[r].inst
           b == NewBox[r]
           p == IF req[r].kind = "create" THEN "save" ELSE "isolate"
           c == [req[r] EXCEPT !.cid = b, !.new = b, !.pc = p]
<1>1. req[r].pc = "build" /\ UNCHANGED <<status, cid, left, found>> /\ made' = [made EXCEPT ![b] = i]
  BY DEF Build, At, rowVars, monitorVars
<1>2. b \in Boxes /\ b # NoBox
  BY BoxAssumption
<1>3. i \in Instances /\ status[i] # "none"
  BY <1>1 DEF NameInv, CallInv, Busy
<1>4. /\ c \in Calls /\ c.pc = p /\ c.inst = i /\ c.cid = b /\ c.new = b
  BY <1>2, CallTypes DEF Calls, Points, DockerPoints
<1>5. req' = [req EXCEPT ![r] = c]
  BY DEF Build, NameInv
<1>6. p \in {"save", "isolate"}
  OBVIOUS
<1> HIDE DEF c, p
<1>7. req'[r] = c
  BY <1>5 DEF NameInv
<1>8. made'[b] = i /\ \A d \in Boxes : d # b => made'[d] = made[d]
  BY <1>1, <1>2 DEF NameInv, RowTypes
<1>9. RowTypes'
  BY <1>1, <1>3 DEF NameInv, RowTypes
<1>10. Stable /\ \A k \in Instances : status[k] = "none" => status'[k] = "none"
  BY <1>1, NothingMoves
<1>11. \A k \in Instances : cid[k] # b /\ cid[k] \in Boxes \cup {NoBox}
  BY <1>1 DEF NameInv, RowInv, RowTypes, Before
<1>12. RowsFollow(r)
  BY <1>1, <1>8, <1>11 DEF NameInv, RowInv, RowsFollow
<1>13. CallInv(r)'
  BY <1>1, <1>2, <1>3, <1>4, <1>6, <1>7, <1>8 DEF CallInv, Busy, Before
<1> QED BY <1>1, <1>4, <1>5, <1>6, <1>8, <1>9, <1>10, <1>12, <1>13, OneMoves DEF Before

LEMMA IsolateStep ==
  ASSUME NameInv, NEW r \in Requests, Isolate(r)
  PROVE  NameInv'
<1> DEFINE p == IF req[r].kind = "restart" THEN "restartbox" ELSE "startbox"
<1>1. req[r].pc = "isolate" /\ UNCHANGED <<made, left, found>>
  BY DEF Isolate, At, monitorVars
<1>2. CASE Goto(r, p) /\ UNCHANGED rowVars
  <2>1. UNCHANGED <<status, cid>>
    BY <1>2 DEF rowVars
  <2>2. p \in {"restartbox", "startbox"} /\ p \in Points
    BY DEF Points, DockerPoints
  <2> HIDE DEF p
  <2> QED BY <1>1, <1>2, <2>1, <2>2, MovesOn DEF Busy, Before, Holding
<1>3. CASE Abort(r)
  BY <1>1, <1>3, AbortStep DEF Busy
<1> QED BY <1>2, <1>3 DEF Isolate

LEMMA FaultStep ==
  ASSUME NameInv, NEW r \in Requests, Fault(r)
  PROVE  NameInv'
<1>1. Busy(r) /\ Abort(r) /\ UNCHANGED <<made, left, found>>
  BY DEF Fault, Busy, DockerPoints, monitorVars
<1> QED BY <1>1, AbortStep

LEMMA CommitStep ==
  ASSUME NameInv, NEW r \in Requests, Commit(r)
  PROVE  NameInv'
<1> DEFINE i == req[r].inst
           result == Result(req[r])
<1>1. req[r].pc = "commit" /\ UNCHANGED <<made, left, found>> /\ End(r)
  BY DEF Commit, At, dockerVars, monitorVars
<1>2. CASE Present(i) /\ UpdateRow(r, result)
  <2>1. /\ result \in Statuses
        /\ result # req[r].seen => result \in InUse \cup {"stopped"}
        /\ result = "stopped" \/ req[r].kind # "stop"
        /\ req[r].kind = "keepalive" /\ result # req[r].seen => req[r].seen = "idle"
    BY CallTypes DEF Result, Statuses, InUse
  <2> HIDE DEF result
  <2>2. result \in InUse /\ result # req[r].seen => req[r].cid # NoBox
    BY <1>1, <2>1, CallTypes DEF CallInv, Holding, InUse
  <2>3. result # req[r].seen => result \notin {"none", "deleted"}
    BY <2>1 DEF InUse
  <2>4. req'[r].pc \notin Before
    BY <1>1, Resting DEF End, Before, NameInv
  <2>5. /\ RowTypes' /\ Stable /\ RowsFollow(r)
        /\ \A k \in Instances : status[k] = "none" => status'[k] = "none"
    BY <1>1, <1>2, <2>1, <2>2, <2>3, <2>4, RowWritten DEF Busy
  <2> QED BY <1>1, <2>5, Ends
<1>3. CASE UNCHANGED rowVars
  <2>1. UNCHANGED <<status, cid>>
    BY <1>3 DEF rowVars
  <2> QED BY <1>1, <2>1, RowsStay, Ends
<1> QED BY <1>2, <1>3 DEF Commit

LEMMA DeleteRowStep ==
  ASSUME NameInv, NEW r \in Requests, DeleteRow(r)
  PROVE  NameInv'
<1> DEFINE i == req[r].inst
<1>1. /\ req[r].pc = "unrow" /\ UNCHANGED <<made, left, found>> /\ End(r)
      /\ status' = [status EXCEPT ![i] = "deleted"] /\ cid' = [cid EXCEPT ![i] = NoBox]
  BY DEF DeleteRow, At, dockerVars, monitorVars
<1>2. i \in Instances /\ status[i] # "none"
  BY <1>1 DEF NameInv, CallInv, Busy
<1>3. /\ status'[i] = "deleted" /\ \A k \in Instances : k # i => status'[k] = status[k]
      /\ cid'[i] = NoBox /\ \A k \in Instances : k # i => cid'[k] = cid[k]
  BY <1>1, <1>2 DEF NameInv, RowTypes
<1>4. RowTypes'
  BY <1>1, <1>2 DEF NameInv, RowTypes, Statuses
<1>5. Stable /\ \A k \in Instances : status[k] = "none" => status'[k] = "none"
  BY <1>2, <1>3 DEF Stable, Had
<1>6. NoBox # NewBox[r] /\ \A q \in Requests : NewBox[q] # NoBox
  BY BoxAssumption
<1>7. RowsFollow(r)
  BY <1>1, <1>3, <1>6 DEF NameInv, RowInv, RowsFollow, InUse
<1> QED BY <1>1, <1>4, <1>5, <1>7, Ends

-----------------------------------------------------------------------------
(* The monitor, the crash and the boot                                     *)

\* No request moves, and no row gets a container.
LEMMA NobodyMoves ==
  ASSUME NameInv, RowTypes', MonitorTypes', MonitorInv', UNCHANGED <<cid, made, req>>,
         \A i \in Instances :
           status'[i] # status[i] =>
             status[i] \notin {"none", "deleted"} /\ status'[i] \notin {"none", "deleted"}
             /\ (status'[i] \in InUse => cid[i] # NoBox)
  PROVE  NameInv'
<1>1. \A i \in Instances : (Had(i) => status'[i] = "deleted" \/ (status'[i] # "none" /\ cid'[i] # NoBox))
                          /\ (status[i] = "none" <=> status'[i] = "none")
  BY DEF Had
<1>2. RowInv'
  BY <1>1 DEF NameInv, RowInv
<1>3. OneInserts'
  BY DEF NameInv, OneInserts
<1>4. ASSUME NEW r \in Requests PROVE CallInv(r)'
  <2>1. CallInv(r)
    BY DEF NameInv
  <2> QED BY <1>1, <2>1 DEF CallInv, Busy, Had
<1> QED BY <1>2, <1>3, <1>4 DEF NameInv

LEMMA MonitorStep ==
  ASSUME NameInv, Monitor \/ MonitorFault
  PROVE  NameInv'
<1>1. CASE MonitorLoad
  <2>1. UNCHANGED <<status, cid, made, req>>
    BY <1>1 DEF MonitorLoad, rowVars, dockerVars
  <2>2. left' = {i \in Instances : status[i] \in {"running", "idle"}}
        /\ found' = [i \in Instances |-> "same"]
    BY <1>1 DEF MonitorLoad
  <2>3. MonitorTypes'
    BY <2>2 DEF MonitorTypes
  <2>4. MonitorInv'
    BY <2>1, <2>2 DEF NameInv, RowInv, MonitorInv, Had, InUse
  <2>5. RowTypes'
    BY <2>1 DEF NameInv, RowTypes
  <2> QED BY <2>1, <2>3, <2>4, <2>5, NobodyMoves
<1>2. ASSUME NEW i \in Instances, MonitorVisit(i)
      PROVE  NameInv'
  <2>1. UNCHANGED <<status, cid, made, req>>
    BY <1>2 DEF MonitorVisit, rowVars
  <2>2. i \in left /\ left' = left \ {i} /\ found' = [found EXCEPT ![i] = Verdict(i)]
    BY <1>2 DEF MonitorVisit
  <2>3. Verdict(i) \in {"same", "idle", "stopped"}
    BY DEF Verdict
  <2>4. MonitorTypes'
    BY <2>2, <2>3 DEF NameInv, MonitorTypes
  <2>5. MonitorInv'
    BY <2>1, <2>2 DEF NameInv, MonitorTypes, MonitorInv, Had
  <2>6. RowTypes'
    BY <2>1 DEF NameInv, RowTypes
  <2> QED BY <2>1, <2>4, <2>5, <2>6, NobodyMoves
<1>3. CASE MonitorCommit
  <2> DEFINE dirty == {i \in Instances : found[i] # "same"}
  <2>1. UNCHANGED <<cid, made, req, left>> /\ left = {} /\ found' = [i \in Instances |-> "same"]
    BY <1>3 DEF MonitorCommit, dockerVars
  <2>2. MonitorTypes' /\ MonitorInv'
    BY <2>1 DEF MonitorTypes, MonitorInv
  <2>3. CASE status' = status
    <3>1. RowTypes'
      BY <2>1, <2>3 DEF NameInv, RowTypes
    <3> QED BY <2>1, <2>2, <2>3, <3>1, NobodyMoves
  <2>4. CASE /\ \A i \in dirty : Present(i)
             /\ status' = [i \in Instances |-> IF i \in dirty THEN found[i] ELSE status[i]]
    <3>1. \A i \in dirty : found[i] \in {"idle", "stopped"} /\ Had(i)
      BY DEF NameInv, MonitorTypes, MonitorInv
    <3>2. RowTypes'
      BY <2>1, <2>4, <3>1 DEF NameInv, RowTypes, Statuses
    <3>3. \A i \in Instances : status'[i] # status[i] =>
            /\ status[i] \notin {"none", "deleted"} /\ status'[i] \notin {"none", "deleted"}
            /\ status'[i] \in InUse => cid[i] # NoBox
      BY <2>4, <3>1 DEF Present, Had
    <3> QED BY <2>1, <2>2, <3>2, <3>3, NobodyMoves
  <2> QED BY <1>3, <2>3, <2>4 DEF MonitorCommit
<1>4. CASE MonitorFault
  <2>1. UNCHANGED <<status, cid, made, req, found>> /\ left' = {}
    BY <1>4 DEF MonitorFault, rowVars, dockerVars
  <2>2. MonitorTypes' /\ MonitorInv' /\ RowTypes'
    BY <2>1 DEF NameInv, MonitorTypes, MonitorInv, Had, RowTypes
  <2> QED BY <2>1, <2>2, NobodyMoves
<1> QED BY <1>1, <1>2, <1>3, <1>4 DEF Monitor

LEMMA CrashStep ==
  ASSUME NameInv, Crash
  PROVE  NameInv'
<1>1. /\ UNCHANGED <<status, cid, made>> /\ left' = {} /\ found' = [i \in Instances |-> "same"]
      /\ req' = [r \in Requests |-> IF req[r].pc = "free" THEN req[r] ELSE Rest("end")]
  BY DEF Crash, rowVars, dockerVars
<1>2. RowTypes' /\ MonitorTypes' /\ MonitorInv'
  BY <1>1 DEF NameInv, RowTypes, MonitorTypes, MonitorInv
<1>3. req' \in [Requests -> Calls]
  BY <1>1, Resting DEF NameInv
<1>4. \A r \in Requests : \/ req[r].pc = "free" /\ req'[r] = req[r]
                          \/ req'[r] = Rest("end")
  BY <1>1
<1>5. OneInserts'
  BY <1>4, Resting DEF NameInv, OneInserts
<1>6. RowInv'
  BY <1>1, <1>4, Resting DEF NameInv, RowInv, Before
<1>7. ASSUME NEW r \in Requests PROVE CallInv(r)'
  <2>1. CASE req[r].pc = "free" /\ req'[r] = req[r]
    BY <1>1, <2>1, CallTypes DEF CallInv, Busy, Holding, Before
  <2>2. CASE req'[r] = Rest("end")
    BY <2>2, Resting DEF CallInv, Busy, Holding, Before
  <2> QED BY <1>4, <2>1, <2>2
<1> QED BY <1>2, <1>3, <1>5, <1>6, <1>7 DEF NameInv

LEMMA BootStep ==
  ASSUME NameInv, Boot
  PROVE  NameInv'
<1>1. UNCHANGED <<cid, made, req, left, found>>
  BY DEF Boot, dockerVars, monitorVars
<1>2. \A i \in Instances : status'[i] = status[i]
        \/ (status[i] \in {"running", "idle", "paused", "pulling", "starting"} /\ status'[i] = "stopped")
  BY DEF Boot, Reconciled
<1>3. RowTypes'
  <2>1. status' = [i \in Instances |-> status'[i]]
    BY DEF Boot
  <2>2. \A i \in Instances : status'[i] \in Statuses
    BY <1>2 DEF NameInv, RowTypes, Statuses
  <2> QED BY <1>1, <2>1, <2>2 DEF NameInv, RowTypes
<1>4. \A i \in Instances : Had(i) => Had(i)'
  BY <1>1, <1>2 DEF Had
<1>5. MonitorTypes' /\ MonitorInv'
  BY <1>1, <1>4 DEF NameInv, MonitorTypes, MonitorInv
<1> QED BY <1>1, <1>2, <1>3, <1>5, NobodyMoves DEF InUse

LEMMA NameStep == NameInv /\ [Next]_vars => NameInv'
<1> SUFFICES ASSUME NameInv, [Next]_vars PROVE NameInv'
  OBVIOUS
<1>1. CASE \E r \in Requests, i \in Instances : Accept(r, i)
  BY <1>1, AcceptStep
<1>2. ASSUME NEW r \in Requests, Handle(r) PROVE NameInv'
  BY <1>2, CreateInsertStep, LaunchLoadStep, LaunchMarkStep, LaunchSaveStep, InspectStep, BoxStep,
     BuildStep, IsolateStep, CommitStep, DeleteRowStep DEF Handle
<1>3. CASE \E r \in Requests : Fault(r)
  BY <1>3, FaultStep
<1>4. CASE Monitor \/ MonitorFault
  BY <1>4, MonitorStep
<1>5. CASE Crash
  BY <1>5, CrashStep
<1>6. CASE Boot
  BY <1>6, BootStep
<1>7. CASE \/ \E b \in Boxes : BoxDies(b)
           \/ \E i \in Instances : TimePasses(i)
           \/ UNCHANGED vars
  <2>1. UNCHANGED <<status, cid, made, req, left, found>>
    BY <1>7 DEF BoxDies, TimePasses, vars, rowVars, dockerVars, monitorVars
  <2>2. RowTypes' /\ MonitorTypes' /\ MonitorInv'
    BY <2>1 DEF NameInv, RowTypes, MonitorTypes, MonitorInv, Had
  <2> QED BY <2>1, <2>2, NobodyMoves
<1> QED BY <1>1, <1>2, <1>3, <1>4, <1>5, <1>6, <1>7 DEF Next

LEMMA NameGives == NameInv => RowNamesItsBox
BY DEF NameInv, RowInv, RowNamesItsBox, InUse

\* instances.py:531 and :557 and session_monitor.py:45 use the container id of the
\* row they loaded without looking at it.  However handlers, the launch task, the
\* monitor, crashes and faults interleave, a row that is running, idle or paused
\* names a container, and one that was created for this very instance.
THEOREM RowsNameTheirBoxes == Spec => []RowNamesItsBox
<1>1. NameInv /\ [Next]_vars => NameInv'
  BY NameStep
<1> QED BY <1>1, NameStart, NameGives, PTL DEF Spec

-----------------------------------------------------------------------------
(* Isolation: only ensure_isolated leads to a start, whatever faults and   *)
(* crashes leave behind, and it is never undone.                           *)

Up == {"running", "paused"}

IsoInv ==
  /\ box \in [Boxes -> {"unborn", "gone"} \cup Exists]
  /\ StartedIsIsolated
  /\ \A r \in Requests : req[r].pc \in {"startbox", "restartbox"} => req[r].cid \in isolated

LEMMA IsoStart == Init => IsoInv
<1> SUFFICES ASSUME Init PROVE IsoInv
  OBVIOUS
<1>1. box \in [Boxes -> {"unborn", "gone"} \cup Exists]
  BY DEF Init, Exists
<1>2. StartedIsIsolated
  BY DEF Init, StartedIsIsolated
<1>3. \A r \in Requests : req[r].pc = "free"
  BY DEF Init, Rest
<1> QED BY <1>1, <1>2, <1>3 DEF IsoInv

\* One request moves
LEMMA IsoMoves ==
  ASSUME IsoInv, NEW r \in Requests, OnlyOf(r), isolated \subseteq isolated',
         box' \in [Boxes -> {"unborn", "gone"} \cup Exists],
         \A b \in Boxes : box'[b] \in Up => box[b] \in Up \/ b \in isolated',
         req'[r].pc \in {"startbox", "restartbox"} => req'[r].cid \in isolated'
  PROVE  IsoInv'
<1>1. StartedIsIsolated'
  BY DEF IsoInv, StartedIsIsolated, Up
<1>2. \A q \in Requests : req'[q].pc \in {"startbox", "restartbox"} => req'[q].cid \in isolated'
  BY DEF IsoInv, OnlyOf
<1> QED BY <1>1, <1>2 DEF IsoInv

\* One request moves to a point that starts nothing, and the containers stay.
LEMMA IsoQuiet ==
  ASSUME NameInv, IsoInv, NEW r \in Requests, NEW c, req' = [req EXCEPT ![r] = c],
         c.pc \notin {"startbox", "restartbox"}, UNCHANGED <<box, isolated>>
  PROVE  IsoInv'
<1>1. OnlyOf(r) /\ req'[r] = c
  BY DEF OnlyOf, NameInv
<1> QED BY <1>1, IsoMoves DEF IsoInv

\* A request goes on, or ends
LEMMA IsoGoto ==
  ASSUME NameInv, NEW r \in Requests, NEW p, Goto(r, p)
  PROVE  OnlyOf(r) /\ req'[r].pc = p /\ req'[r].cid = req[r].cid
<1>1. req[r] \in Calls
  BY DEF NameInv
<1>2. OnlyOf(r) /\ req'[r] = [req[r] EXCEPT !.pc = p]
  BY DEF OnlyOf, NameInv, Goto
<1> QED BY <1>1, <1>2 DEF Calls

LEMMA IsoAbort ==
  ASSUME NameInv, NEW r \in Requests, End(r)
  PROVE  OnlyOf(r) /\ req'[r].pc = "end"
BY Resting DEF NameInv, OnlyOf, End

\* A call on the container: it may come up only when it was up or is isolated.
LEMMA IsoCall ==
  ASSUME NameInv, IsoInv, NEW r \in Requests, NEW from, NEW to \in Exists, NEW p, Call(r, from, to, p),
         p \notin {"startbox", "restartbox"},
         to \in Up => req[r].cid \in isolated \/ from \subseteq Up
  PROVE  IsoInv'
<1> DEFINE b == req[r].cid
<1>1. UNCHANGED isolated
  BY DEF Call
<1>2. CASE box[b] \in from /\ box' = [box EXCEPT ![b] = to] /\ Goto(r, p)
  <2>1. box' \in [Boxes -> {"unborn", "gone"} \cup Exists]
    BY <1>2 DEF IsoInv
  <2>2. \A d \in Boxes : box'[d] = IF d = b THEN to ELSE box[d]
    BY <1>2 DEF IsoInv
  <2>3. \A d \in Boxes : box'[d] \in Up => box[d] \in Up \/ d \in isolated'
    BY <1>1, <1>2, <2>2
  <2> QED BY <1>1, <1>2, <2>1, <2>3, IsoGoto, IsoMoves
<1>3. CASE End(r) /\ UNCHANGED box
  <2>1. box' \in [Boxes -> {"unborn", "gone"} \cup Exists]
    BY <1>3 DEF IsoInv
  <2> QED BY <1>1, <1>3, <2>1, IsoAbort, IsoMoves
<1> QED BY <1>2, <1>3 DEF Call, Abort

LEMMA IsoHandle ==
  ASSUME NameInv, IsoInv, NEW r \in Requests, Handle(r)
  PROVE  IsoInv'
<1>1. CASE CreateInsert(r) \/ LaunchLoad(r) \/ LaunchMark(r) \/ LaunchSave(r) \/ Commit(r) \/ DeleteRow(r)
  <2>1. UNCHANGED <<box, isolated>>
    BY <1>1 DEF CreateInsert, LaunchLoad, LaunchMark, LaunchSave, Commit, DeleteRow, dockerVars
  <2>2. OnlyOf(r) /\ req'[r].pc \in {"launch", "mark", "build", "isolate", "end"}
    <3>1. CASE End(r)
      BY <3>1, IsoAbort
    <3>2. CASE Goto(r, "launch")
      BY <3>2, IsoGoto
    <3>3. CASE LaunchLoad(r) /\ ~End(r)
      <4>1. req' = [req EXCEPT ![r].pc = "mark", ![r].seen = status[req[r].inst],
                               ![r].cid = cid[req[r].inst]]
        BY <3>3 DEF LaunchLoad
      <4> QED BY <4>1, CallTypes DEF NameInv, OnlyOf, Calls
    <3>4. CASE LaunchMark(r) /\ ~End(r)
      <4>1. PICK mark \in {"pulling", "starting"} :
              req' = [req EXCEPT ![r].pc = "build", ![r].seen = mark]
        BY <3>4 DEF LaunchMark
      <4> QED BY <4>1, CallTypes DEF NameInv, OnlyOf, Calls
    <3>5. CASE LaunchSave(r) /\ ~End(r)
      <4>1. req' = [req EXCEPT ![r].pc = "isolate", ![r].seen = "starting", ![r].new = NoBox]
        BY <3>5 DEF LaunchSave
      <4> QED BY <4>1, CallTypes DEF NameInv, OnlyOf, Calls
    <3> QED BY <1>1, <3>1, <3>2, <3>3, <3>4, <3>5 DEF CreateInsert, Commit, DeleteRow
  <2> QED BY <2>1, <2>2, IsoMoves DEF IsoInv
<1>2. CASE Inspect(r)
  <2> DEFINE p == AfterInspect(req[r].kind, box[req[r].cid])
  <2>1. Goto(r, p) /\ UNCHANGED <<box, isolated>>
    BY <1>2 DEF Inspect, dockerVars
  <2>2. p \notin {"startbox", "restartbox"}
    BY DEF AfterInspect
  <2> HIDE DEF p
  <2> QED BY <2>1, <2>2, IsoGoto, IsoMoves DEF IsoInv
<1>3. CASE StopBox(r)
  <2> DEFINE to == IF box[req[r].cid] = "created" THEN "created" ELSE "exited"
             p == IF req[r].kind = "stop" THEN "commit" ELSE "removebox"
  <2>1. /\ Call(r, Exists, to, p) /\ to \in Exists /\ to \notin Up
        /\ p \notin {"startbox", "restartbox"}
    BY <1>3 DEF StopBox, Exists, Up
  <2> HIDE DEF to, p
  <2> QED BY <2>1, IsoCall
<1>4. CASE RemoveBox(r)
  <2> DEFINE b == req[r].cid
             p == IF req[r].kind = "recreate" THEN "build" ELSE "unrow"
  <2>1. Call(r, Exists, "gone", p) /\ UNCHANGED isolated
    BY <1>4 DEF RemoveBox, Call
  <2>2. p \notin {"startbox", "restartbox"}
    OBVIOUS
  <2> HIDE DEF p
  <2>3. OnlyOf(r) /\ req'[r].pc \in {p, "end"}
    BY <2>1, IsoGoto, IsoAbort DEF Call, Abort
  <2>4. box' = box \/ box' = [box EXCEPT ![b] = "gone"]
    BY <2>1 DEF Call
  <2>5. box' \in [Boxes -> {"unborn", "gone"} \cup Exists]
    BY <2>4 DEF IsoInv
  <2>6. \A d \in Boxes : box'[d] \in Up => box[d] \in Up
    BY <2>4 DEF IsoInv, Up
  <2> QED BY <2>1, <2>2, <2>3, <2>5, <2>6, IsoMoves
<1>5. CASE StartBox(r) \/ RestartBox(r)
  <2>1. req[r].cid \in isolated
    BY <1>5 DEF IsoInv, StartBox, RestartBox, At
  <2> QED BY <1>5, <2>1, IsoCall DEF StartBox, RestartBox, Exists
<1>6. CASE PauseBox(r)
  BY <1>6, IsoCall DEF PauseBox, Exists, Up
<1>7. CASE UnpauseBox(r)
  BY <1>7, IsoCall DEF UnpauseBox, Exists, Up
<1>8. CASE Build(r)
  <2> DEFINE b == NewBox[r]
             stale == {d \in Boxes : box[d] \in Exists /\ Name[made[d]] = Name[req[r].inst]}
             p == IF req[r].kind = "create" THEN "save" ELSE "isolate"
  <2>1. /\ box' = [d \in Boxes |-> IF d = b THEN "created" ELSE IF d \in stale THEN "gone" ELSE box[d]]
        /\ UNCHANGED isolated /\ req' = [req EXCEPT ![r].cid = b, ![r].new = b, ![r].pc = p]
    BY <1>8 DEF Build
  <2>2. p \notin {"startbox", "restartbox"}
    OBVIOUS
  <2> HIDE DEF p, stale
  <2>3. OnlyOf(r) /\ req'[r].pc = p
    BY <2>1, CallTypes DEF NameInv, OnlyOf, Calls
  <2>4. box' \in [Boxes -> {"unborn", "gone"} \cup Exists]
    BY <2>1 DEF IsoInv, Exists
  <2>5. \A d \in Boxes : box'[d] \in Up => box[d] \in Up
    BY <2>1 DEF Up
  <2> QED BY <2>1, <2>2, <2>3, <2>4, <2>5, IsoMoves
<1>9. CASE Isolate(r)
  <2>1. box' = box /\ isolated \subseteq isolated'
    BY <1>9 DEF Isolate
  <2>2. /\ OnlyOf(r)
        /\ req'[r].pc = "end" \/ (req'[r].cid = req[r].cid /\ req[r].cid \in isolated')
    BY <1>9, IsoGoto, IsoAbort DEF Isolate, Abort
  <2> QED BY <2>1, <2>2, IsoMoves DEF IsoInv
<1> QED BY <1>1, <1>2, <1>3, <1>4, <1>5, <1>6, <1>7, <1>8, <1>9 DEF Handle

LEMMA IsoStep == NameInv /\ IsoInv /\ [Next]_vars => IsoInv'
<1> SUFFICES ASSUME NameInv, IsoInv, [Next]_vars PROVE IsoInv'
  OBVIOUS
<1>0. box \in [Boxes -> {"unborn", "gone"} \cup Exists]
  BY DEF IsoInv
<1>1. ASSUME NEW r \in Requests, NEW i \in Instances, Accept(r, i) PROVE IsoInv'
  <2>1. PICK kind \in Kinds, p \in Points \ {"startbox", "restartbox"} : Load(r, kind, i, p)
    BY <1>1 DEF Accept, CreateCheck, StartLoad, StopLoad, RestartLoad, RecreateLoad, PauseLoad,
                UnpauseLoad, DeleteLoad, KeepaliveLoad, Kinds, Points, DockerPoints
  <2>2. UNCHANGED <<box, isolated>>
    BY <1>1 DEF Accept, dockerVars
  <2> QED BY <2>1, <2>2, IsoQuiet DEF Load
<1>2. ASSUME NEW r \in Requests, Handle(r) PROVE IsoInv'
  BY <1>2, IsoHandle
<1>3. ASSUME NEW r \in Requests, Fault(r) PROVE IsoInv'
  <2>1. End(r) /\ UNCHANGED isolated
    BY <1>3 DEF Fault, Abort
  <2>2. box' = box \/ box' = [box EXCEPT ![req[r].new] = "gone"]
    BY <1>3 DEF Fault
  <2>3. box' \in [Boxes -> {"unborn", "gone"} \cup Exists]
    BY <1>0, <2>2
  <2>4. \A d \in Boxes : box'[d] \in Up => box[d] \in Up
    BY <1>0, <2>2 DEF Up
  <2> QED BY <2>1, <2>3, <2>4, IsoAbort, IsoMoves
<1>4. ASSUME UNCHANGED <<req, isolated>>, box' \in [Boxes -> {"unborn", "gone"} \cup Exists],
             \A d \in Boxes : box'[d] \in Up => box[d] \in Up
      PROVE  IsoInv'
  BY <1>4 DEF IsoInv, StartedIsIsolated, Up
<1>5. CASE Monitor \/ MonitorFault
  <2>1. UNCHANGED <<req, isolated>>
    BY <1>5 DEF Monitor, MonitorLoad, MonitorVisit, MonitorCommit, MonitorFault, dockerVars
  <2>2. box' = box \/ \E b : box' = [box EXCEPT ![b] = "exited"]
    BY <1>5 DEF Monitor, MonitorLoad, MonitorVisit, MonitorCommit, MonitorFault, dockerVars
  <2>3. box' \in [Boxes -> {"unborn", "gone"} \cup Exists]
    BY <1>0, <2>2 DEF Exists
  <2>4. \A d \in Boxes : box'[d] \in Up => box[d] \in Up
    BY <1>0, <2>2 DEF Up
  <2> QED BY <1>4, <2>1, <2>3, <2>4
<1>6. CASE Crash
  <2>1. UNCHANGED <<box, isolated>>
    BY <1>6 DEF Crash, dockerVars
  <2>2. \A r \in Requests : req'[r] = req[r] \/ req'[r].pc = "end"
    BY <1>6, Resting DEF Crash
  <2> QED BY <2>1, <2>2 DEF IsoInv, StartedIsIsolated
<1>7. CASE Boot \/ (\E i \in Instances : TimePasses(i)) \/ UNCHANGED vars
  <2>1. UNCHANGED <<box, isolated, req>>
    BY <1>7 DEF Boot, TimePasses, vars, dockerVars
  <2> QED BY <1>0, <1>4, <2>1
<1>8. ASSUME NEW b \in Boxes, BoxDies(b) PROVE IsoInv'
  <2>1. UNCHANGED <<req, isolated>> /\ box' = [box EXCEPT ![b] = "exited"]
    BY <1>8 DEF BoxDies
  <2>2. box' \in [Boxes -> {"unborn", "gone"} \cup Exists]
    BY <1>0, <2>1 DEF Exists
  <2>3. \A d \in Boxes : box'[d] \in Up => box[d] \in Up
    BY <1>0, <2>1 DEF Up
  <2> QED BY <1>4, <2>1, <2>2, <2>3
<1> QED BY <1>1, <1>2, <1>3, <1>5, <1>6, <1>7, <1>8 DEF Next

\* instances.py:58: no container runs that may share the portal's network, though
\* any call may fail between its creation, its isolation and its start, and the
\* backend may be killed there.
THEOREM StartedAreIsolated == Spec => []StartedIsIsolated
<1>1. NameInv /\ IsoInv /\ [Next]_vars => NameInv' /\ IsoInv'
  BY NameStep, IsoStep
<1>2. IsoInv => StartedIsIsolated
  BY DEF IsoInv
<1> QED BY <1>1, <1>2, NameStart, IsoStart, PTL DEF Spec

-----------------------------------------------------------------------------
(* The boot                                                                *)

LEMMA OnlyBootStarts ==
  ASSUME faults \in Nat, Next
  PROVE  faults' \in Nat /\ (backend = "down" /\ backend' = "up" => Boot)
<1>1. ASSUME NEW r \in Requests, NEW i \in Instances, Accept(r, i)
      PROVE  UNCHANGED <<backend, faults>>
  BY <1>1 DEF Accept, processVars
<1>2. ASSUME NEW r \in Requests, Handle(r) PROVE UNCHANGED <<backend, faults>>
  BY <1>2 DEF Handle, CreateInsert, LaunchLoad, LaunchMark, LaunchSave, Inspect, StopBox, RemoveBox,
     StartBox, RestartBox, PauseBox, UnpauseBox, Call, Build, Isolate, Commit, DeleteRow, processVars
<1>3. ASSUME NEW r \in Requests, Fault(r) PROVE UNCHANGED backend /\ faults' = faults + 1
  BY <1>3 DEF Fault, processVars
<1>4. CASE Monitor \/ MonitorFault
  BY <1>4 DEF Monitor, MonitorLoad, MonitorVisit, MonitorCommit, MonitorFault, processVars
<1>5. CASE Crash \/ (\E b \in Boxes : BoxDies(b)) \/ \E i \in Instances : TimePasses(i)
  BY <1>5 DEF Crash, BoxDies, TimePasses, processVars
<1>6. CASE Boot
  BY <1>6 DEF Boot
<1> QED BY <1>1, <1>2, <1>3, <1>4, <1>5, <1>6 DEF Next

LEMMA BootStepAgrees ==
  ASSUME faults \in Nat, Boot, faults' = faults, NEW i \in Instances, status'[i] \in InUse
  PROVE  box[cid[i]] \notin Down
<1>1. status' = [k \in Instances |-> Reconciled(k)]
  BY DEF Boot
<1>2. status'[i] = Reconciled(i)
  BY <1>1
<1>3. Reconciled(i) = status[i] /\ ~(cid[i] = NoBox \/ box[cid[i]] \in Down)
  BY <1>2 DEF Reconciled, InUse
<1> QED BY <1>3

\* background_loops.py:83: whatever was in flight at a crash, after a boot that can
\* ask Docker no row claims a desktop whose container is gone.
THEOREM BootsAgree == Spec => BootAgrees
<1>1. Init => faults \in Nat
  BY DEF Init
<1>2. faults \in Nat /\ [Next]_vars => (faults \in Nat)'
  BY OnlyBootStarts DEF vars
<1>3. faults \in Nat /\ [Next]_vars =>
        [backend = "down" /\ backend' = "up" /\ faults' = faults =>
           \A i \in Instances : status'[i] \in {"running", "idle", "paused"} =>
             box[cid[i]] \notin Down]_vars
  BY OnlyBootStarts, BootStepAgrees DEF InUse
<1> QED BY <1>1, <1>2, <1>3, PTL DEF Spec, BootAgrees
=============================================================================
