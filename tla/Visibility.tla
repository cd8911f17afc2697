------------------------------ MODULE Visibility ------------------------------
(***************************************************************************)
(* What the 2017Server game server promises its players, with no threads,  *)
(* locks or packets: players come, move and go one at a time, and after    *)
(* each of these every player on line sees exactly the players near it.    *)
(* A player who comes takes the place where the slot's last player stood.  *)
(***************************************************************************)
EXTENDS World

CONSTANT Players  \* their slots

VARIABLES
  px, py,    \* where each slot's player stands, or last stood
  online,    \* the players on line
  sees       \* the other players each player sees

visVars == <<px, py, online, sees>>

Sight(qx, qy, on) ==
  [p \in Players |-> IF p \notin on THEN {}
                     ELSE {q \in on \ {p} : Within(qx[p] - qx[q], qy[p] - qy[q])}]

VisInit ==
  /\ px = [p \in Players |-> 0] /\ py = [p \in Players |-> 0]
  /\ online = {} /\ sees = [p \in Players |-> {}]

Come(p) ==
  /\ p \notin online
  /\ online' = online \cup {p}
  /\ UNCHANGED <<px, py>>

Move(p, m) ==
  /\ p \in online
  /\ px' = [px EXCEPT ![p] = MoveX(m, @)]
  /\ py' = [py EXCEPT ![p] = MoveY(m, @)]
  /\ UNCHANGED online

Go(p) ==
  /\ p \in online
  /\ online' = online \ {p}
  /\ UNCHANGED <<px, py>>

VisNext ==
  /\ \E p \in Players : Come(p) \/ Go(p) \/ \E m \in Moves : Move(p, m)
  /\ sees' = Sight(px', py', online')

VisSpec == VisInit /\ [][VisNext]_visVars
=============================================================================
