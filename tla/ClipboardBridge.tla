-------------------------- MODULE ClipboardBridge --------------------------
(***************************************************************************)
(* The mirror between the clipboards of the streamed display and of labwc  *)
(* (agent/clipboard_bridge.py): a poll reads both sides, decides, and      *)
(* writes one.                                                             *)
(*                                                                         *)
(* A clip is None (empty, or a read that fails), or a copy: the copies are *)
(* numbered in the order they are made, and those in Images have no        *)
(* text/plain, so that the bridge reads None of them.                      *)
(***************************************************************************)
EXTENDS Naturals

CONSTANTS
  MaxCopies,   \* bound: copies made on either side
  Images,      \* the copies that are not text
  Calm,        \* TRUE: nobody copies before the bridge has seen the last copy
  MaxFails     \* bound: reads and writes that fail

VARIABLES
  clipA, clipB,    \* what is on the two clipboards
  lastA, lastB,    \* last_a, last_b
  readA, readB,    \* a, b of this poll
  poll,            \* "idle", "read" (a was read), "decide" (both were)
  made,            \* copies made so far
  fails            \* reads and writes that failed

bridgeVars == <<clipA, clipB, lastA, lastB, readA, readB, poll, made, fails>>

None == 0

Init ==
  /\ clipA = None /\ clipB = None /\ lastA = None /\ lastB = None
  /\ readA = None /\ readB = None
  /\ poll = "idle" /\ made = 0 /\ fails = 0

\* read_clip
Text(clip, failed) == IF failed \/ clip \in Images THEN None ELSE clip

\* Somebody copies on one side.
Copy ==
  /\ made < MaxCopies /\ made' = made + 1
  /\ Calm => poll = "idle" /\ Text(clipA, FALSE) = lastA /\ Text(clipB, FALSE) = lastB
  /\ \/ clipA' = made' /\ UNCHANGED clipB
     \/ clipB' = made' /\ UNCHANGED clipA
  /\ UNCHANGED <<lastA, lastB, readA, readB, poll, fails>>

\* A call of wl-paste or wl-copy may fail or time out.
Fail(failed) ==
  /\ failed => fails < MaxFails
  /\ fails' = IF failed THEN fails + 1 ELSE fails

ReadA ==
  /\ poll = "idle" /\ poll' = "read"
  /\ \E failed \in BOOLEAN : Fail(failed) /\ readA' = Text(clipA, failed)
  /\ UNCHANGED <<clipA, clipB, lastA, lastB, readB, made>>

ReadB ==
  /\ poll = "read" /\ poll' = "decide"
  /\ \E failed \in BOOLEAN : Fail(failed) /\ readB' = Text(clipB, failed)
  /\ UNCHANGED <<clipA, clipB, lastA, lastB, readA, made>>

\* bridge_decision: the side that changed; a, when both did
FromA == readA # lastA

\* mutant: the next poll compares with what was read
Advanced_Read(val, read) == read

\* run: "always advance state after a decision"
Advanced(val, read) == val

\* run: write_clip of a text, and what the next poll compares with
Mirror ==
  /\ poll = "decide" /\ poll' = "idle"
  /\ \E failed \in BOOLEAN :
       LET val == IF FromA THEN readA ELSE readB
           writes == readA # readB /\ (readA # lastA \/ readB # lastB)
           lands == writes /\ val # None /\ ~failed
       IN  /\ Fail(failed) /\ (failed => writes /\ val # None)
           /\ clipB' = IF lands /\ FromA THEN val ELSE clipB
           /\ clipA' = IF lands /\ ~FromA THEN val ELSE clipA
           /\ lastA' = IF writes THEN Advanced(val, readA) ELSE readA
           /\ lastB' = IF writes THEN Advanced(val, readB) ELSE readB
  /\ UNCHANGED <<readA, readB, made>>

Next == Copy \/ ReadA \/ ReadB \/ Mirror

\* The daemon polls as long as it runs; nobody has to copy.
Fairness == WF_bridgeVars(ReadA) /\ WF_bridgeVars(ReadB) /\ WF_bridgeVars(Mirror)

Spec == Init /\ [][Next]_bridgeVars /\ Fairness

-----------------------------------------------------------------------------
(* Properties                                                              *)

\* Whatever was copied, and whichever call failed, both sides come to hold the same text and
\* stay with it: a propagated value does not echo (agent/clipboard_bridge.py:6-7).
SidesMeet == <>[](Text(clipA, FALSE) = Text(clipB, FALSE))

-----------------------------------------------------------------------------
(* Sentences of the code and its documents that the model refutes (README) *)

\* The bridge never puts an older copy over a newer one: it propagates the side that CHANGED
\* (agent/clipboard_bridge.py bridge_decision).
NewerStays == [][clipA' >= clipA /\ clipB' >= clipB]_bridgeVars
=============================================================================
