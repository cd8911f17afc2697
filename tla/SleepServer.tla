----------------------------- MODULE SleepServer -----------------------------
(***************************************************************************)
(* Sessions, view lists and displays of 2017Server/2016_NPC_02.cpp, one    *)
(* whole handler at a time: a packet, a beat of an NPC, a connection that  *)
(* comes and one that goes.  SleepingNpc has the same server's threads and *)
(* tokens step by step.                                                    *)
(*                                                                         *)
(* Connections end in good order, and a send to an open connection ends at *)
(* once.  A send to a slot that has no socket does not: SendPacket loops   *)
(* on any error, and the thread is lost.  protocol.h lets the slots of     *)
(* players and NPCs overlap, so accept_thread can meet such a slot.        *)
(***************************************************************************)
EXTENDS World

CONSTANTS
  StartX, StartZ,  \* the cell every player starts at: (4, 4)
  TokenCap         \* bound: tokens counted for one NPC

ASSUME StartAssumption ==
  StartX \in Columns /\ StartZ \in Rows /\ TokenCap \in Nat \ {0}

VARIABLES
  pos,           \* clients[o].m_player: <<x, z>>
  is_connected,  \* clients[o].is_connected
  is_active,     \* clients[n].is_active
  view_list,     \* clients[p].view_list
  tokens,        \* tokens of NPC n in p_queue or posted
  shown,         \* where the client of slot p displays object o, or Gone
  receiving,     \* the slots with a posted receive
  accepting      \* is accept_thread still running?

vars == <<pos, is_connected, is_active, view_list, tokens, shown, receiving, accepting>>

Cells == Columns \X Rows
Gone == << >>
Players == Users \ NPCs

InRangeOf(a, b) == Within(a[1] - b[1], a[2] - b[2])

(* Objects in sight of o, on the board `at`; the scans differ in which     *)
(* slots they look at.                                                     *)
Around(o, at, slots) == {i \in slots : is_connected[i] /\ InRangeOf(at[o], at[i])}

Init ==
  /\ pos \in [Objects -> Cells] /\ \A o \in Objects \ NPCs : pos[o] = <<0, 0>>
  /\ is_connected = [o \in Objects |-> o \in NPCs]
  /\ is_active = [n \in NPCs |-> FALSE]
  /\ view_list = [p \in Users |-> {}]
  /\ tokens = [n \in NPCs |-> 0]
  /\ shown = [p \in Users |-> [o \in Objects |-> Gone]]
  /\ receiving = {} /\ accepting = TRUE

-----------------------------------------------------------------------------
(* What a client does with the packets of one handler about object o: Put  *)
(* shows it, Pos moves it if it is shown, Remove hides it.                 *)

Put(o)       == pos'[o]
Pos(p, o)    == IF shown[p][o] = Gone THEN Gone ELSE pos'[o]
PutOrPos(p, o) == IF o \in view_list[p] THEN Pos(p, o) ELSE Put(o)

(* The upper edge is tested off by one.                                    *)
ClampPastEdge(v, n) == IF v < 0 THEN 0 ELSE IF v > n THEN n - 1 ELSE v

Clamp(v, n) == IF v < 0 THEN 0 ELSE IF v >= n THEN n - 1 ELSE v

Stepped(c, m) ==
  CASE m = "CS_UP"    -> <<c[1], Clamp(c[2] - 1, BoardHeight)>>
    [] m = "CS_DOWN"  -> <<c[1], Clamp(c[2] + 1, BoardHeight)>>
    [] m = "CS_LEFT"  -> <<Clamp(c[1] - 1, BoardWidth), c[2]>>
    [] m = "CS_RIGHT" -> <<Clamp(c[1] + 1, BoardWidth), c[2]>>

-----------------------------------------------------------------------------
(* ProcessPacket.  Every peer in the new list comes to list p, and every   *)
(* peer that drops out of p's list drops p.                                *)

(* Those who drop out of p's list go on listing p.                         *)
PeerListsKept(p, new, lost) ==
  [q \in Users |-> IF q = p THEN new
                   ELSE IF q \in new \ NPCs THEN view_list[q] \cup {p}
                   ELSE view_list[q]]

PeerLists(p, new, lost) ==
  [q \in Users |-> IF q = p THEN new
                   ELSE IF q \in new \ NPCs THEN view_list[q] \cup {p}
                   ELSE IF q \in lost \ NPCs THEN view_list[q] \ {p}
                   ELSE view_list[q]]

(* A peer that lists p already is told nothing of its move.                *)
PacketDisplayNoPos(p, new, lost) ==
  [q \in Users |-> [o \in Objects |->
     CASE q = p /\ o = p                       -> Put(o)
       [] q = p /\ o \in new \ view_list[p]    -> Put(o)
       [] q = p /\ o \in lost                  -> Gone
       [] q \in new \ NPCs /\ o = p /\ p \notin view_list[q]  -> Put(o)
       [] q \in lost \ NPCs /\ o = p /\ p \in view_list[q]    -> Gone
       [] OTHER -> shown[q][o]]]

PacketDisplay(p, new, lost) ==
  [q \in Users |-> [o \in Objects |->
     CASE q = p /\ o = p                     -> Pos(p, p)
       [] q = p /\ o \in new \ view_list[p]  -> Put(o)
       [] q = p /\ o \in lost                -> Gone
       [] q \in new \ NPCs /\ o = p          -> PutOrPos(q, p)
       [] q \in lost \ NPCs /\ o = p /\ p \in view_list[q] -> Gone
       [] OTHER -> shown[q][o]]]

ProcessPacket(p, m) ==
  LET new  == Around(p, pos', Objects) \ {p}
      lost == view_list[p] \ new
      woken == {n \in new \cap NPCs : ~is_active[n]}
  IN /\ p \in receiving
     /\ pos' = [pos EXCEPT ![p] = Stepped(@, m)]
     /\ is_active' = [n \in NPCs |-> is_active[n] \/ n \in woken]
     /\ tokens' = [n \in NPCs |-> IF n \in woken /\ tokens[n] < TokenCap
                                    THEN tokens[n] + 1 ELSE tokens[n]]
     /\ view_list' = PeerLists(p, new, lost)
     /\ shown' = PacketDisplay(p, new, lost)
     /\ UNCHANGED <<is_connected, receiving, accepting>>

(* The token of an NPC that has gone to sleep.                             *)
StaleToken(n) ==
  /\ tokens[n] > 0 /\ ~is_active[n]
  /\ tokens' = [tokens EXCEPT ![n] = @ - 1]
  /\ UNCHANGED <<pos, is_connected, is_active, view_list, shown, receiving, accepting>>

(* do_move.  It pushes the next token before it may go to sleep.           *)
do_move(n, m) ==
  LET old == Around(n, pos, Users) \ NPCs
      new == Around(n, pos', Users) \ NPCs
  IN /\ tokens[n] > 0 /\ is_active[n]
     /\ pos' = [pos EXCEPT ![n] = Stepped(@, m)]
     /\ view_list' = [q \in Users |-> IF q \in old \ new THEN view_list[q] \ {n}
                                      ELSE IF q \in new \ old THEN view_list[q] \cup {n}
                                      ELSE view_list[q]]
     /\ shown' = [q \in Users |-> [o \in Objects |->
          CASE o = n /\ q \in old \ new     -> Gone
            [] o = n /\ q \in new \ old     -> Put(n)
            [] o = n /\ q \in old \cap new  -> Pos(q, n)
            [] OTHER -> shown[q][o]]]
     /\ is_active' = [is_active EXCEPT ![n] = new # {}]
     /\ UNCHANGED <<is_connected, tokens, receiving, accepting>>

-----------------------------------------------------------------------------
(* accept_thread.  The loop over the users goes up in order and sends to   *)
(* every connected slot in range, the new one included; at the first that  *)
(* is an NPC's it is lost, with the client half made.                      *)

FirstFree(p) == ~is_connected[p] /\ \A q \in Users : q < p => is_connected[q]

Reached(near) == {q \in near : \A b \in near \cap NPCs : q <= b}

(* The view list of the slot's last client is kept.                        *)
JoinListKept(p, near) == view_list[p] \cup near

JoinList(p, near) == near

Join(p) ==
  LET near == Around(p, pos', Objects) \ {p}
      told == Reached(near \cap Users)
      lost == near \cap Users \cap NPCs # {}
  IN /\ accepting /\ FirstFree(p)
     /\ pos' = [pos EXCEPT ![p] = <<StartX, StartZ>>]
     /\ is_connected' = [is_connected EXCEPT ![p] = TRUE]
     /\ view_list' = [q \in Users |-> CASE q = p -> JoinList(p, IF lost THEN {} ELSE near)
                                        [] q \in told -> view_list[q] \cup {p}
                                        [] OTHER -> view_list[q]]
     /\ shown' = [q \in Users |-> [o \in Objects |->
          CASE q = p -> IF o = p \/ (o \in near /\ ~lost) THEN Put(o) ELSE Gone
            [] q \in told \ NPCs /\ o = p -> Put(p)
            [] OTHER -> shown[q][o]]]
     /\ receiving' = IF lost THEN receiving ELSE receiving \cup {p}
     /\ accepting' = ~lost
     /\ UNCHANGED <<is_active, tokens>>

(* worker_thread with a completion of 0 bytes: the slot is freed last.     *)

(* The client is taken off the lists and nobody is told.                   *)
DepartureUntold(p, tell) == shown

Departure(p, tell) ==
  [q \in Users |-> [o \in Objects |-> IF o = p /\ q \in tell THEN Gone ELSE shown[q][o]]]

Leave(p) ==
  LET tell == {q \in Users \ {p} : is_connected[q] /\ p \in view_list[q]}
  IN /\ p \in receiving
     /\ view_list' = [q \in Users |-> IF q \in tell THEN view_list[q] \ {p} ELSE view_list[q]]
     /\ shown' = Departure(p, tell)
     /\ is_connected' = [is_connected EXCEPT ![p] = FALSE]
     /\ receiving' = receiving \ {p}
     /\ UNCHANGED <<pos, is_active, tokens, accepting>>

Next ==
  \/ \E p \in Users : Join(p) \/ Leave(p) \/ \E m \in Moves : ProcessPacket(p, m)
  \/ \E n \in NPCs : StaleToken(n) \/ \E m \in Moves : do_move(n, m)

Spec == Init /\ [][Next]_vars

-----------------------------------------------------------------------------
(* Every variable keeps its type; only players' slots receive.             *)
TypeOK ==
  /\ pos \in [Objects -> Cells] /\ is_connected \in [Objects -> BOOLEAN]
  /\ is_active \in [NPCs -> BOOLEAN] /\ tokens \in [NPCs -> 0 .. TokenCap]
  /\ view_list \in [Users -> SUBSET Objects]
  /\ shown \in [Users -> [Objects -> Cells \cup {Gone}]]
  /\ receiving \subseteq Players /\ accepting \in BOOLEAN
  /\ \A n \in NPCs : is_connected[n]
  /\ \A p \in receiving : is_connected[p]

(* After every handler, the view list of a client that was fully accepted  *)
(* holds exactly the connected objects in its range: do_move goes by       *)
(* positions, ProcessPacket by lists and scans, accept_thread by scans,    *)
(* and the lists they leave agree.                                         *)
ViewsExact == \A p \in receiving, o \in Objects :
  o \in view_list[p] <=> o # p /\ is_connected[o] /\ InRangeOf(pos[p], pos[o])

(* After every handler, a client displays exactly the objects in its view  *)
(* list and itself, each where it stands: no move is left untold.          *)
DisplayExact == \A p \in receiving, o \in Objects :
  shown[p][o] = IF o = p \/ o \in view_list[p] THEN pos[o] ELSE Gone
=============================================================================
