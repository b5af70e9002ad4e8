------------------------------ MODULE KeyOrder ------------------------------
(***************************************************************************)
(* Keys and buttons on their way from selkies to Mutter through            *)
(* xdg-desktop-portal, which can swap two events sent back to back         *)
(* (agent/seat_portal.py _ordered).                                        *)
(*                                                                         *)
(* An event that was swapped arrives within REORDER_S of the one that      *)
(* overtook it.                                                            *)
(***************************************************************************)
EXTENDS Naturals, Sequences

CONSTANTS
  Keys,
  MaxEvents   \* bound: presses and releases

VARIABLES
  held,   \* keys the viewer holds
  onWire, \* events between selkies and the portal backend, oldest first
  down,   \* Session.down
  early,  \* Session.early: releases less than REORDER_S ago that came without a press
  mutter, \* keys that are down in Mutter
  events

keyVars == <<held, onWire, down, early, mutter, events>>

Init ==
  /\ held = {} /\ onWire = <<>> /\ down = {} /\ early = {} /\ mutter = {} /\ events = 0

\* The viewer presses a key that is up, or releases one that is down.
Type(k) ==
  /\ events < MaxEvents /\ events' = events + 1
  /\ held' = IF k \in held THEN held \ {k} ELSE held \cup {k}
  /\ onWire' = Append(onWire, [key |-> k, down |-> k \notin held, swapped |-> FALSE])
  /\ UNCHANGED <<down, early, mutter>>

\* The portal: the second of two events overtakes the first, each once.
Swap(i) ==
  /\ ~onWire[i].swapped /\ ~onWire[i + 1].swapped
  /\ onWire' = [onWire EXCEPT ![i] = [onWire[i + 1] EXCEPT !.swapped = TRUE],
                            ![i + 1] = [onWire[i] EXCEPT !.swapped = TRUE]]
  /\ UNCHANGED <<held, down, early, mutter, events>>

\* mutant: a release that came early is not sent behind its press
ReleasedBehind_Never(k) == FALSE

\* _ordered: the press of a release that came early is released again at once
ReleasedBehind(k) == k \in early

Press(k) ==
  /\ down' = IF ReleasedBehind(k) THEN down \ {k} ELSE down \cup {k}
  /\ mutter' = IF ReleasedBehind(k) THEN mutter \ {k} ELSE mutter \cup {k}
  /\ early' = early \ {k}


\* _ordered: a release for something not down waits for its press
Waits(k) == k \notin down

Release(k) ==
  IF Waits(k) THEN early' = early \cup {k} /\ UNCHANGED <<down, mutter>>
  ELSE down' = down \ {k} /\ mutter' = mutter \ {k} /\ UNCHANGED early

Arrive ==
  /\ onWire # <<>> /\ onWire' = Tail(onWire)
  /\ IF Head(onWire).down THEN Press(Head(onWire).key) ELSE Release(Head(onWire).key)
  /\ UNCHANGED <<held, events>>

\* REORDER_S is over: nothing that was swapped with the release is on its way.
Expire(k) ==
  /\ k \in early /\ ~\E i \in DOMAIN onWire : onWire[i].swapped /\ onWire[i].key = k
  /\ early' = early \ {k}
  /\ UNCHANGED <<held, onWire, down, mutter, events>>

Next ==
  \/ \E k \in Keys : Type(k) \/ Expire(k)
  \/ \E i \in 1 .. Len(onWire) - 1 : Swap(i)
  \/ Arrive

Spec == Init /\ [][Next]_keyVars

\* No key stays down that the viewer let go of, whichever events overtook each other
\* (agent/seat_portal.py:301-304: "Mutter keeps the key down, autorepeat").
NoKeyStuck == onWire = <<>> => mutter \subseteq held
=============================================================================
