--------------------------- MODULE SeatClipboard ---------------------------
(***************************************************************************)
(* The clipboard of a GNOME seat: Mutter's selection, the server that      *)
(* seat_portal runs on it (agent/seat_clipboard.py), and selkies, which    *)
(* asks the server (agent/engine.py).                                      *)
(*                                                                         *)
(* A selection is a clip, the copies numbered in the order they are made.  *)
(* Mutter's signals and its answers to the server are one ordered stream:  *)
(* a call waits for its answer while the signals before it queue up.  The  *)
(* server starts anew with each portal session, the next one before or     *)
(* after the last one is stopped.                                          *)
(***************************************************************************)
EXTENDS Naturals, Sequences

CONSTANTS
  MaxCopies,   \* bound: copies made by seat apps and viewers
  MaxServers   \* bound: portal sessions

VARIABLES
  copies,    \* copies made so far
  selection, \* Mutter: [clip, by], by a seat application or a server
  signals,   \* SelectionOwnerChanged on their way to the servers, oldest first
  server,    \* of each server: its state, mimes and owned (0: none)
  socket     \* the server whose socket is at clip_socket_path, 0: no file

clipVars == <<copies, selection, signals, server, socket>>

Servers == 1 .. MaxServers
App == 0     \* a seat application

\* skip: signals sent before the server subscribed
NoServer == [state |-> "new", mimes |-> 0, owned |-> 0, skip |-> 0]

Init ==
  /\ copies = 0
  /\ selection = [clip |-> 0, by |-> App]
  /\ signals = <<>>
  /\ server = [n \in Servers |-> NoServer]
  /\ socket = 0

Running(n) == server[n].state = "running"

-----------------------------------------------------------------------------
(* The portal sessions                                                     *)

\* _start: EnableClipboard, the two subscriptions, unlink, bind
Start(n) ==
  /\ server[n].state = "new" /\ (n > 1 => server[n - 1].state # "new")
  /\ server' = [server EXCEPT ![n] = [NoServer EXCEPT !.state = "running", !.skip = Len(signals)]]
  /\ socket' = n
  /\ UNCHANGED <<copies, selection, signals>>

\* mutant: the path is unlinked whoever is bound to it
Unlinked_Always(n) == TRUE

\* stop: "a newer session may own it"
Unlinked(n) == socket = n

\* Close, lost, and the end of main: stop closes the watchers and the socket
Stop(n) ==
  /\ Running(n)
  /\ server' = [server EXCEPT ![n] = [NoServer EXCEPT !.state = "stopped"]]
  /\ socket' = IF Unlinked(n) THEN 0 ELSE socket
  /\ selection' = IF selection.by = n THEN [clip |-> 0, by |-> App] ELSE selection
  /\ UNCHANGED <<copies, signals>>

-----------------------------------------------------------------------------
(* Mutter                                                                  *)

\* A seat application copies.
AppCopies ==
  /\ copies < MaxCopies /\ copies' = copies + 1
  /\ selection' = [clip |-> copies + 1, by |-> App]
  /\ signals' = Append(signals, selection')
  /\ UNCHANGED <<server, socket>>

\* _owner, of another owner's selection
Heard(s, sel) == [s EXCEPT !.owned = 0, !.mimes = sel.clip]

\* _owner at every server
Deliver ==
  /\ signals # <<>>
  /\ LET sel == Head(signals)
     IN  server' = [n \in Servers |->
              IF ~Running(n) THEN server[n]
              ELSE IF server[n].skip > 0 THEN [server[n] EXCEPT !.skip = @ - 1]
              ELSE IF sel.by = n THEN server[n]
              ELSE Heard(server[n], sel)]
  /\ signals' = Tail(signals)
  /\ UNCHANGED <<copies, selection, socket>>

-----------------------------------------------------------------------------
(* selkies                                                                 *)

\* handle "write", of a viewer's copy: SetSelection
Write(n) ==
  /\ socket = n /\ Running(n) /\ copies < MaxCopies /\ copies' = copies + 1
  /\ server' = [server EXCEPT ![n].owned = copies + 1]
  /\ selection' = [clip |-> copies + 1, by |-> n]
  /\ signals' = Append(signals, selection')
  /\ UNCHANGED <<socket>>

\* handle "read": of the viewer's own copy, or SelectionRead from the owner; the server
\* that owns the selection would be asked itself and has no answer while it waits
Content(n) ==
  IF server[n].owned # 0 THEN server[n].owned
  ELSE IF server[n].mimes # 0 /\ selection.by # n THEN selection.clip
  ELSE 0

Next ==
  \/ \E n \in Servers : Start(n) \/ Stop(n) \/ Write(n)
  \/ AppCopies \/ Deliver

Spec == Init /\ [][Next]_clipVars

-----------------------------------------------------------------------------
(* Properties                                                              *)

\* The newest portal session that runs can be reached: stopping an older one, before or
\* after, leaves its socket in place (agent/seat_clipboard.py stop, "a newer session may own
\* it").
NewestIsServed ==
  \A n \in Servers :
    Running(n) /\ (\A k \in Servers : k > n => server[k].state = "new") => socket = n

\* When the seat is quiet, the running server answers a read with the selection of
\* the seat, or not at all: never with an older one (agent/seat_clipboard.py _owner, handle).
ReadIsCurrent ==
  \A n \in Servers :
    Running(n) /\ signals = <<>> => Content(n) \in {0, selection.clip}

\* A viewer reads the selection of now from the session of now.
ClipboardIsCurrent == NewestIsServed /\ ReadIsCurrent

-----------------------------------------------------------------------------
(* Sentences of the code and its documents that the model refutes (README) *)

\* A viewer's copy that is the seat's selection can be read back: "never ask Mutter: it
\* would ask us back" (agent/seat_clipboard.py:109).
OwnCopyIsKept ==
  \A n \in Servers : Running(n) /\ signals = <<>> /\ selection.by = n => server[n].owned # 0
=============================================================================
