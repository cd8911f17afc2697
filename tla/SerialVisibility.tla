--------------------------- MODULE SerialVisibility ---------------------------
(***************************************************************************)
(* The serial server implements Visibility.  The abstract state is what    *)
(* the server shows between packets: `snap` keeps it while a handler is    *)
(* under way.                                                              *)
(***************************************************************************)
EXTENDS ViewServer

VARIABLE snap

snapVars == <<vars, snap>>

Snapshot ==
  [px |-> [p \in Players |-> x[p]], py |-> [p \in Players |-> y[p]],
   online |-> {p \in Players : bConnected[p]},
   sees |-> [p \in Players |-> IF bConnected[p] THEN (view_list[p] \cap Players) \ {p}
                                                ELSE {}]]

(* No handler is under way, or only one that is between two packets.       *)
Settled == \A t \in Threads :
  Idle(t) \/ pc[t] = "parse" \/ (t \in Workers /\ pc[t] = "hung")

SnapInit == Init /\ snap = Snapshot

SnapNext == SerialNext /\ snap' = IF Settled' THEN Snapshot' ELSE snap

SnapSpec == SnapInit /\ [][SnapNext]_snapVars

Abstract == INSTANCE Visibility
  WITH px <- snap.px, py <- snap.py, online <- snap.online, sees <- snap.sees

(* Handlers that do not overlap implement Visibility: each takes the       *)
(* players from one exact picture to the next in one abstract step.        *)
ServesVisibility == Abstract!VisSpec
=============================================================================
