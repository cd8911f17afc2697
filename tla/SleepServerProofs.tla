-------------------------- MODULE SleepServerProofs --------------------------
(***************************************************************************)
(* Theorems about SleepServer, for any board, sight radius and numbers of  *)
(* slots, overlapping or not.                                              *)
(***************************************************************************)
EXTENDS SleepServer, TLAPS

LEMMA SlotFacts ==
  /\ Users \subseteq Objects /\ NPCs \subseteq Objects /\ Players \subseteq Users
  /\ Objects \subseteq Int /\ NPCs \cap Players = {}
  /\ \A p \in Players, n \in NPCs : p < n
BY SlotsAssumption DEF Users, NPCs, Objects, Players

LEMMA CellFacts ==
  /\ \A c \in Cells : c[1] \in Columns /\ c[2] \in Rows /\ c = <<c[1], c[2]>>
  /\ Columns \subseteq Int /\ Rows \subseteq Int
  /\ <<StartX, StartZ>> \in Cells
BY BoardAssumption, StartAssumption DEF Cells, Columns, Rows

LEMMA ClampStays ==
  /\ \A v \in Int : Clamp(v, BoardWidth) \in Columns /\ Clamp(v, BoardHeight) \in Rows
BY BoardAssumption DEF Clamp, Columns, Rows

LEMMA StepStays == \A c \in Cells, m \in Moves : Stepped(c, m) \in Cells
<1> SUFFICES ASSUME NEW c \in Cells, NEW m \in Moves PROVE Stepped(c, m) \in Cells
  OBVIOUS
<1>1. c[1] \in Columns /\ c[2] \in Rows /\ c[1] \in Int /\ c[2] \in Int
  BY CellFacts
<1>2. /\ Clamp(c[2] - 1, BoardHeight) \in Rows /\ Clamp(c[2] + 1, BoardHeight) \in Rows
      /\ Clamp(c[1] - 1, BoardWidth) \in Columns /\ Clamp(c[1] + 1, BoardWidth) \in Columns
  BY <1>1, ClampStays
<1> QED BY <1>1, <1>2 DEF Cells, Moves, Stepped

(* The range test does not care who looks at whom.                         *)
LEMMA RangeIsMutual == \A a, b \in Cells : InRangeOf(a, b) <=> InRangeOf(b, a)
<1> SUFFICES ASSUME NEW a \in Cells, NEW b \in Cells
             PROVE  InRangeOf(a, b) <=> InRangeOf(b, a)
  OBVIOUS
<1>1. a[1] \in Int /\ a[2] \in Int /\ b[1] \in Int /\ b[2] \in Int
  BY CellFacts
<1>2. ASSUME NEW i \in Int, NEW j \in Int PROVE Square(i - j) = Square(j - i)
  <2>1. (i - j) * (i - j) = (j - i) * (j - i)
    BY Z3
  <2> QED BY <2>1 DEF Square
<1> QED BY <1>1, <1>2 DEF InRangeOf, Within

-----------------------------------------------------------------------------
LEMMA InitTypes == Init => TypeOK
<1> SUFFICES ASSUME Init PROVE TypeOK
  OBVIOUS
<1>1. 0 \in 0 .. TokenCap
  BY StartAssumption
<1>2. is_connected \in [Objects -> BOOLEAN] /\ \A n \in NPCs : is_connected[n]
  <2>1. is_connected = [o \in Objects |-> o \in NPCs]
    BY DEF Init
  <2>2. \A o \in Objects : (o \in NPCs) \in BOOLEAN
    OBVIOUS
  <2>3. is_connected \in [Objects -> BOOLEAN]
    BY <2>1, <2>2
  <2>4. \A n \in NPCs : is_connected[n]
    BY <2>1, SlotFacts
  <2> QED BY <2>3, <2>4
<1>3. shown \in [Users -> [Objects -> Cells \cup {Gone}]]
  BY DEF Init
<1>4. pos \in [Objects -> Cells] /\ view_list \in [Users -> SUBSET Objects]
      /\ is_active \in [NPCs -> BOOLEAN] /\ receiving = {} /\ accepting = TRUE
  BY DEF Init
<1>5. tokens \in [NPCs -> 0 .. TokenCap]
  BY <1>1 DEF Init
<1> QED BY <1>2, <1>3, <1>4, <1>5 DEF TypeOK

LEMMA ReceivingFacts ==
  ASSUME TypeOK, NEW q \in receiving
  PROVE  q \in Players /\ q \in Users /\ q \in Objects /\ q \notin NPCs /\ is_connected[q]
BY SlotFacts DEF TypeOK

LEMMA PacketTypes ==
  ASSUME TypeOK, NEW p \in Users, NEW m \in Moves, ProcessPacket(p, m)
  PROVE  TypeOK'
<1> DEFINE new  == Around(p, pos', Objects) \ {p}
           lost == view_list[p] \ new
           woken == {n \in new \cap NPCs : ~is_active[n]}
<1>0. p \in Objects /\ p \in receiving /\ new \subseteq Objects
  BY SlotFacts DEF ProcessPacket, Around
<1>1. pos' \in [Objects -> Cells]
  <2>1. pos' = [pos EXCEPT ![p] = Stepped(pos[p], m)] /\ pos[p] \in Cells
    BY <1>0 DEF ProcessPacket, TypeOK
  <2>2. Stepped(pos[p], m) \in Cells
    BY <2>1, StepStays
  <2> QED BY <2>1, <2>2 DEF TypeOK
<1>2. view_list' \in [Users -> SUBSET Objects]
  <2>1. view_list' = PeerLists(p, new, lost)
    BY DEF ProcessPacket
  <2> HIDE DEF new, lost
  <2> QED BY <1>0, <2>1 DEF PeerLists, TypeOK
<1>3. tokens' \in [NPCs -> 0 .. TokenCap]
  <2>1. tokens' = [n \in NPCs |-> IF n \in woken /\ tokens[n] < TokenCap
                                    THEN tokens[n] + 1 ELSE tokens[n]]
    BY DEF ProcessPacket
  <2> HIDE DEF woken
  <2>2. \A n \in NPCs : tokens[n] \in 0 .. TokenCap /\ TokenCap \in Nat
    BY StartAssumption DEF TypeOK
  <2> QED BY <2>1, <2>2
<1>4. is_active' \in [NPCs -> BOOLEAN]
  <2>1. is_active' = [n \in NPCs |-> is_active[n] \/ n \in woken]
    BY DEF ProcessPacket
  <2> HIDE DEF woken
  <2>2. \A n \in NPCs : (is_active[n] \/ n \in woken) \in BOOLEAN
    BY DEF TypeOK
  <2> QED BY <2>1, <2>2
<1>5. shown' \in [Users -> [Objects -> Cells \cup {Gone}]]
  <2>1. shown' = PacketDisplay(p, new, lost)
    BY DEF ProcessPacket
  <2>2. \A q \in Users, o \in Objects : pos'[o] \in Cells \cup {Gone} /\ shown[q][o] \in Cells \cup {Gone}
    BY <1>1 DEF TypeOK
  <2> HIDE DEF new, lost
  <2> QED BY <1>0, <2>1, <2>2 DEF PacketDisplay, Put, Pos, PutOrPos
<1> QED BY <1>1, <1>2, <1>3, <1>4, <1>5 DEF ProcessPacket, TypeOK

LEMMA BeatTypes ==
  ASSUME TypeOK, NEW n \in NPCs, NEW m \in Moves, do_move(n, m)
  PROVE  TypeOK'
<1> DEFINE old == Around(n, pos, Users) \ NPCs
           new == Around(n, pos', Users) \ NPCs
<1>0. n \in Objects
  BY SlotFacts
<1>1. pos' \in [Objects -> Cells]
  <2>1. pos' = [pos EXCEPT ![n] = Stepped(pos[n], m)] /\ pos[n] \in Cells
    BY <1>0 DEF do_move, TypeOK
  <2>2. Stepped(pos[n], m) \in Cells
    BY <2>1, StepStays
  <2> QED BY <2>1, <2>2 DEF TypeOK
<1>2. view_list' = [q \in Users |-> IF q \in old \ new THEN view_list[q] \ {n}
                                    ELSE IF q \in new \ old THEN view_list[q] \cup {n}
                                    ELSE view_list[q]]
      /\ shown' = [q \in Users |-> [o \in Objects |->
          CASE o = n /\ q \in old \ new     -> Gone
            [] o = n /\ q \in new \ old     -> Put(n)
            [] o = n /\ q \in old \cap new  -> Pos(q, n)
            [] OTHER -> shown[q][o]]]
      /\ is_active' = [is_active EXCEPT ![n] = new # {}]
      /\ UNCHANGED <<is_connected, tokens, receiving, accepting>>
  BY DEF do_move
<1> HIDE DEF old, new
<1>3. view_list' \in [Users -> SUBSET Objects]
  BY <1>0, <1>2 DEF TypeOK
<1>4. is_active' \in [NPCs -> BOOLEAN]
  BY <1>2 DEF TypeOK
<1>5. \A q \in Users, o \in Objects : pos'[o] \in Cells \cup {Gone} /\ shown[q][o] \in Cells \cup {Gone}
  BY <1>1 DEF TypeOK
<1>6. shown' \in [Users -> [Objects -> Cells \cup {Gone}]]
  BY <1>0, <1>2, <1>5 DEF Put, Pos
<1> QED BY <1>1, <1>2, <1>3, <1>4, <1>6 DEF TypeOK

LEMMA JoinTypes ==
  ASSUME TypeOK, NEW p \in Users, Join(p)
  PROVE  TypeOK'
<1> DEFINE near == Around(p, pos', Objects) \ {p}
           told == Reached(near \cap Users)
           lost == near \cap Users \cap NPCs # {}
<1>0. p \in Objects /\ near \subseteq Objects /\ ~is_connected[p] /\ p \in Players
  BY SlotFacts DEF Around, Join, FirstFree, TypeOK, Players
<1>1. pos' \in [Objects -> Cells]
  BY <1>0, CellFacts DEF Join, TypeOK
<1>2. /\ view_list' = [q \in Users |-> CASE q = p -> JoinList(p, IF lost THEN {} ELSE near)
                                        [] q \in told -> view_list[q] \cup {p}
                                        [] OTHER -> view_list[q]]
      /\ shown' = [q \in Users |-> [o \in Objects |->
          CASE q = p -> IF o = p \/ (o \in near /\ ~lost) THEN Put(o) ELSE Gone
            [] q \in told \ NPCs /\ o = p -> Put(p)
            [] OTHER -> shown[q][o]]]
      /\ receiving' = IF lost THEN receiving ELSE receiving \cup {p}
      /\ accepting' = ~lost /\ UNCHANGED <<is_active, tokens>>
      /\ is_connected' = [is_connected EXCEPT ![p] = TRUE]
  BY DEF Join
<1> HIDE DEF near, told, lost
<1>3. view_list' \in [Users -> SUBSET Objects]
  BY <1>0, <1>2 DEF TypeOK, JoinList
<1>4. \A q \in Users, o \in Objects : pos'[o] \in Cells \cup {Gone} /\ shown[q][o] \in Cells \cup {Gone}
  BY <1>1 DEF TypeOK
<1>5. shown' \in [Users -> [Objects -> Cells \cup {Gone}]]
  BY <1>0, <1>2, <1>4 DEF Put
<1>6. /\ receiving' \subseteq Players /\ accepting' \in BOOLEAN
      /\ is_connected' \in [Objects -> BOOLEAN] /\ \A n \in NPCs : is_connected'[n]
      /\ \A q \in receiving' : is_connected'[q]
  BY <1>0, <1>2, SlotFacts DEF TypeOK
<1> QED BY <1>1, <1>2, <1>3, <1>5, <1>6 DEF TypeOK

LEMMA LeaveTypes ==
  ASSUME TypeOK, NEW p \in Users, Leave(p)
  PROVE  TypeOK'
<1>0. p \in Objects /\ p \in Players /\ p \notin NPCs
  BY ReceivingFacts DEF Leave
<1>1. view_list' \in [Users -> SUBSET Objects]
  BY DEF TypeOK, Leave
<1>2. shown' \in [Users -> [Objects -> Cells \cup {Gone}]]
  BY DEF TypeOK, Leave, Departure
<1>3. is_connected' \in [Objects -> BOOLEAN] /\ \A n \in NPCs : is_connected'[n]
  BY <1>0 DEF TypeOK, Leave
<1>4. \A q \in receiving' : is_connected'[q]
  BY <1>0, SlotFacts DEF TypeOK, Leave
<1> QED BY <1>1, <1>2, <1>3, <1>4 DEF TypeOK, Leave

LEMMA NextTypes == TypeOK /\ [Next]_vars => TypeOK'
<1> SUFFICES ASSUME TypeOK, [Next]_vars PROVE TypeOK'
  OBVIOUS
<1>1. CASE UNCHANGED vars
  BY <1>1 DEF vars, TypeOK
<1>2. ASSUME NEW n \in NPCs, StaleToken(n) PROVE TypeOK'
  <2>1. tokens' \in [NPCs -> 0 .. TokenCap]
    BY <1>2, StartAssumption DEF StaleToken, TypeOK
  <2> QED BY <1>2, <2>1 DEF StaleToken, TypeOK
<1> QED BY <1>1, <1>2, PacketTypes, BeatTypes, JoinTypes, LeaveTypes DEF Next

(* Every variable keeps its type: no step leaves the board, and only slots *)
(* of players ever receive.                                                *)
THEOREM TypesHold == Spec => []TypeOK
<1> QED BY InitTypes, NextTypes, PTL DEF Spec

-----------------------------------------------------------------------------
(* ViewsExact, handler by handler.                                         *)

SeesRight(p, o) ==
  o \in view_list[p] <=> o # p /\ is_connected[o] /\ InRangeOf(pos[p], pos[o])

(* Lists and positions that have not changed stay right.                   *)
LEMMA SeenAsBefore ==
  ASSUME NEW q, NEW o, SeesRight(q, o), pos'[q] = pos[q], pos'[o] = pos[o],
         is_connected'[o] = is_connected[o], o \in view_list'[q] <=> o \in view_list[q]
  PROVE  SeesRight(q, o)'
BY DEF SeesRight, InRangeOf

LEMMA PacketViews ==
  ASSUME TypeOK, TypeOK', ViewsExact, NEW p \in Users, NEW m \in Moves, ProcessPacket(p, m),
         NEW q \in receiving, NEW o \in Objects
  PROVE  SeesRight(q, o)'
<1> DEFINE new  == Around(p, pos', Objects) \ {p}
           lost == view_list[p] \ new
<1>1. /\ view_list' = PeerLists(p, new, lost) /\ is_connected' = is_connected
      /\ \A k \in Objects : k # p => pos'[k] = pos[k]
      /\ p \in receiving
  BY SlotFacts DEF ProcessPacket, TypeOK
<1>2. q \in Users /\ q \in Objects /\ q \notin NPCs /\ is_connected[q] /\ is_connected[p] /\ p \in Objects
  BY <1>1, ReceivingFacts
<1>3. \A k \in Objects : k \in new <=> k # p /\ is_connected[k] /\ InRangeOf(pos'[p], pos'[k])
  BY DEF Around
<1>4. /\ view_list'[p] = new
      /\ q # p => view_list'[q] = IF q \in new \ NPCs THEN view_list[q] \cup {p}
                                  ELSE IF q \in lost \ NPCs THEN view_list[q] \ {p}
                                  ELSE view_list[q]
  BY <1>1, <1>2 DEF PeerLists
<1>5. SeesRight(q, o) /\ SeesRight(q, p) /\ SeesRight(p, q)
  BY <1>1, <1>2 DEF ViewsExact, SeesRight
<1>6. CASE q = p
  BY <1>1, <1>3, <1>4, <1>6 DEF SeesRight
<1>7. CASE q # p /\ o # p
  <2>1. o \in view_list'[q] <=> o \in view_list[q]
    BY <1>4, <1>7
  <2> QED BY <1>1, <1>2, <1>5, <1>7, <2>1, SeenAsBefore
<1>8. CASE q # p /\ o = p
  <2>1. /\ pos[p] \in Cells /\ pos[q] \in Cells /\ pos'[p] \in Cells /\ pos'[q] \in Cells
    BY <1>2 DEF TypeOK
  <2>2. /\ InRangeOf(pos[p], pos[q]) <=> InRangeOf(pos[q], pos[p])
        /\ InRangeOf(pos'[p], pos'[q]) <=> InRangeOf(pos'[q], pos'[p])
    BY <2>1, RangeIsMutual
  <2>3. q \in view_list[p] <=> p \in view_list[q]
    BY <1>2, <1>5, <1>8, <2>2 DEF SeesRight
  <2>4. q \in new <=> InRangeOf(pos'[q], pos'[p])
    BY <1>2, <1>3, <1>8, <2>2
  <2>5. p \in view_list'[q] <=> q \in new
    <3> HIDE DEF new
    <3> QED BY <1>2, <1>4, <1>8, <2>3
  <2> QED BY <1>1, <1>2, <1>8, <2>4, <2>5 DEF SeesRight
<1> QED BY <1>6, <1>7, <1>8

LEMMA BeatViews ==
  ASSUME TypeOK, TypeOK', ViewsExact, NEW n \in NPCs, NEW m \in Moves, do_move(n, m),
         NEW q \in receiving, NEW o \in Objects
  PROVE  SeesRight(q, o)'
<1> DEFINE old == Around(n, pos, Users) \ NPCs
           new == Around(n, pos', Users) \ NPCs
<1>1. /\ view_list' = [k \in Users |-> IF k \in old \ new THEN view_list[k] \ {n}
                                      ELSE IF k \in new \ old THEN view_list[k] \cup {n}
                                      ELSE view_list[k]]
      /\ is_connected' = is_connected
      /\ \A k \in Objects : k # n => pos'[k] = pos[k]
  BY SlotFacts DEF do_move, TypeOK
<1>2. q \in Users /\ q \in Objects /\ q \notin NPCs /\ is_connected[q] /\ q # n /\ n \in Objects
      /\ is_connected[n]
  BY ReceivingFacts, SlotFacts DEF TypeOK
<1>3. /\ q \in old <=> InRangeOf(pos[n], pos[q])
      /\ q \in new <=> InRangeOf(pos'[n], pos'[q])
  BY <1>2 DEF Around
<1>4. view_list'[q] = IF q \in old \ new THEN view_list[q] \ {n}
                      ELSE IF q \in new \ old THEN view_list[q] \cup {n}
                      ELSE view_list[q]
  BY <1>1, <1>2
<1>5. SeesRight(q, o) /\ SeesRight(q, n)
  BY <1>2 DEF ViewsExact, SeesRight
<1>6. CASE o # n
  <2>1. o \in view_list'[q] <=> o \in view_list[q]
    BY <1>4, <1>6
  <2> QED BY <1>1, <1>2, <1>5, <1>6, <2>1, SeenAsBefore
<1>7. CASE o = n
  <2>1. /\ pos[n] \in Cells /\ pos[q] \in Cells /\ pos'[n] \in Cells /\ pos'[q] \in Cells
    BY <1>2 DEF TypeOK
  <2>2. /\ InRangeOf(pos[n], pos[q]) <=> InRangeOf(pos[q], pos[n])
        /\ InRangeOf(pos'[n], pos'[q]) <=> InRangeOf(pos'[q], pos'[n])
    BY <2>1, RangeIsMutual
  <2>3. n \in view_list[q] <=> q \in old
    BY <1>2, <1>3, <1>5, <2>2 DEF SeesRight
  <2>4. n \in view_list'[q] <=> q \in new
    <3> HIDE DEF old, new
    <3> QED BY <1>4, <2>3
  <2> QED BY <1>1, <1>2, <1>3, <1>7, <2>2, <2>4 DEF SeesRight
<1> QED BY <1>6, <1>7

LEMMA JoinViews ==
  ASSUME TypeOK, TypeOK', ViewsExact, NEW p \in Users, Join(p),
         NEW q \in receiving', NEW o \in Objects
  PROVE  SeesRight(q, o)'
<1> DEFINE near == Around(p, pos', Objects) \ {p}
           told == Reached(near \cap Users)
           lost == near \cap Users \cap NPCs # {}
<1>0. p \in Objects /\ p \in Players /\ ~is_connected[p] /\ p \notin receiving /\ p \notin NPCs
  BY SlotFacts DEF Join, FirstFree, TypeOK, Players
<1>1. /\ view_list' = [k \in Users |-> CASE k = p -> JoinList(p, IF lost THEN {} ELSE near)
                                        [] k \in told -> view_list[k] \cup {p}
                                        [] OTHER -> view_list[k]]
      /\ receiving' = IF lost THEN receiving ELSE receiving \cup {p}
      /\ \A k \in Objects : k # p => pos'[k] = pos[k] /\ is_connected'[k] = is_connected[k]
      /\ is_connected'[p]
  BY <1>0 DEF Join, TypeOK
<1>2. \A k \in Objects : k \in near <=> k # p /\ is_connected[k] /\ InRangeOf(pos'[p], pos'[k])
  BY DEF Around
<1>3. CASE q = p
  <2>1. ~lost /\ view_list'[p] = near
    <3>0. p \notin told
      BY DEF Reached
    <3> HIDE DEF near, lost, told
    <3>1. ~lost
      BY <1>0, <1>1, <1>3
    <3>2. view_list'[p] = JoinList(p, IF lost THEN {} ELSE near)
      BY <1>1, <3>0
    <3> QED BY <3>1, <3>2 DEF JoinList
  <2> QED BY <1>1, <1>2, <1>3, <2>1 DEF SeesRight
<1>4. CASE q # p
  <2>1. q \in receiving /\ q \in Users /\ q \in Objects /\ q \in Players /\ is_connected[q]
        /\ q \notin NPCs
    <3>1. q \in receiving
      <4> HIDE DEF near, lost
      <4> QED BY <1>1, <1>4
    <3> QED BY <3>1, ReceivingFacts
  <2>2. view_list'[q] = IF q \in told THEN view_list[q] \cup {p} ELSE view_list[q]
    <3> HIDE DEF near, lost, told
    <3> QED BY <1>1, <1>4, <2>1
  <2>3. SeesRight(q, o) /\ SeesRight(q, p)
    BY <1>0, <2>1 DEF ViewsExact, SeesRight
  <2>4. CASE o # p
    <3>1. o \in view_list'[q] <=> o \in view_list[q]
      BY <2>2, <2>4
    <3> QED BY <1>1, <1>4, <2>1, <2>3, <2>4, <3>1, SeenAsBefore
  <2>5. CASE o = p
    <3>1. pos'[p] \in Cells /\ pos'[q] \in Cells
      BY <1>0, <2>1 DEF TypeOK
    <3>2. InRangeOf(pos'[p], pos'[q]) <=> InRangeOf(pos'[q], pos'[p])
      BY <3>1, RangeIsMutual
    <3>3. q \in told <=> q \in near
      <4>1. \A b \in NPCs : q <= b
        <5>1. \A b \in NPCs : q < b /\ q \in Int /\ b \in Int
          BY <2>1, SlotFacts
        <5> QED BY <5>1
      <4> QED BY <2>1, <4>1 DEF Reached
    <3>4. p \notin view_list[q]
      BY <1>0, <2>3 DEF SeesRight
    <3> QED BY <1>1, <1>2, <1>4, <2>1, <2>2, <2>5, <3>2, <3>3, <3>4 DEF SeesRight
  <2> QED BY <2>4, <2>5
<1> QED BY <1>3, <1>4

LEMMA LeaveViews ==
  ASSUME TypeOK, ViewsExact, NEW p \in Users, Leave(p),
         NEW q \in receiving', NEW o \in Objects
  PROVE  SeesRight(q, o)'
<1>1. p \in Objects /\ q \in receiving /\ q # p /\ q \in Users /\ q \in Objects /\ is_connected[q]
  BY ReceivingFacts, SlotFacts DEF Leave
<1>2. SeesRight(q, o)
  BY <1>1 DEF ViewsExact, SeesRight
<1>3. CASE o # p
  <2>1. o \in view_list'[q] <=> o \in view_list[q]
    BY <1>1, <1>3 DEF Leave, TypeOK
  <2>2. pos' = pos /\ is_connected'[o] = is_connected[o]
    BY <1>3 DEF Leave, TypeOK
  <2> QED BY <1>2, <2>1, <2>2, SeenAsBefore
<1>4. CASE o = p
  <2>1. p \notin view_list'[q] /\ ~is_connected'[p]
    BY <1>1 DEF Leave, TypeOK
  <2> QED BY <1>4, <2>1 DEF SeesRight
<1> QED BY <1>3, <1>4

LEMMA NextViews == TypeOK /\ TypeOK' /\ ViewsExact /\ [Next]_vars => ViewsExact'
<1> SUFFICES ASSUME TypeOK, TypeOK', ViewsExact, [Next]_vars,
                    NEW q \in receiving', NEW o \in Objects
             PROVE  SeesRight(q, o)'
  BY DEF ViewsExact, SeesRight
<1>1. CASE UNCHANGED <<pos, is_connected, view_list, receiving>>
  BY <1>1 DEF ViewsExact, SeesRight
<1>2. UNCHANGED vars \/ (\E n \in NPCs : StaleToken(n))
      => UNCHANGED <<pos, is_connected, view_list, receiving>>
  BY DEF vars, StaleToken
<1>3. ASSUME NEW p \in Users, NEW m \in Moves, ProcessPacket(p, m) PROVE SeesRight(q, o)'
  <2>1. q \in receiving
    BY <1>3 DEF ProcessPacket
  <2> QED BY <1>3, <2>1, PacketViews
<1>4. ASSUME NEW n \in NPCs, NEW m \in Moves, do_move(n, m) PROVE SeesRight(q, o)'
  <2>1. q \in receiving
    BY <1>4 DEF do_move
  <2> QED BY <1>4, <2>1, BeatViews
<1> QED BY <1>1, <1>2, <1>3, <1>4, JoinViews, LeaveViews DEF Next

(* On any board, with any numbers of slots, every handler leaves every     *)
(* client with a view list that holds exactly what is in its range.        *)
THEOREM ViewsStayExact == Spec => []ViewsExact
<1>1. Init => ViewsExact
  BY DEF Init, ViewsExact
<1> QED BY <1>1, NextViews, TypesHold, PTL DEF Spec

-----------------------------------------------------------------------------
(* DisplayExact, handler by handler.  What is listed before and after is   *)
(* known from ViewsExact, so only the packets are left to compare.         *)

Drawn(p, o) == IF o = p \/ o \in view_list[p] THEN pos[o] ELSE Gone

(* A cell is never mistaken for nothing.                                   *)
LEMMA CellIsSomething == \A c \in Cells : c # Gone
<1> SUFFICES ASSUME NEW c \in Cells PROVE c # Gone
  OBVIOUS
<1>1. PICK a \in Columns, b \in Rows : c = <<a, b>>
  BY DEF Cells
<1>2. DOMAIN <<a, b>> = 1 .. 2 /\ DOMAIN << >> = 1 .. 0
  OBVIOUS
<1>3. 1 \in 1 .. 2 /\ 1 \notin 1 .. 0
  OBVIOUS
<1>4. DOMAIN <<a, b>> # DOMAIN << >>
  BY <1>2, <1>3
<1>5. <<a, b>> # << >>
  BY <1>4, Zenon
<1> QED BY <1>1, <1>5 DEF Gone

LEMMA PacketDraws ==
  ASSUME TypeOK, TypeOK', ViewsExact, ViewsExact', DisplayExact, NEW p \in Users, NEW m \in Moves,
         ProcessPacket(p, m), NEW q \in receiving, NEW o \in Objects
  PROVE  shown'[q][o] = Drawn(q, o)'
<1> DEFINE new  == Around(p, pos', Objects) \ {p}
           lost == view_list[p] \ new
<1>1. /\ shown' = PacketDisplay(p, new, lost)
      /\ is_connected' = is_connected /\ receiving' = receiving /\ p \in receiving
      /\ \A k \in Objects : k # p => pos'[k] = pos[k]
  BY SlotFacts DEF ProcessPacket, TypeOK
<1>2. q \in Users /\ q \in Objects /\ q \notin NPCs /\ is_connected[q] /\ is_connected[p] /\ p \in Objects
  BY <1>1, ReceivingFacts
<1>3. \A k \in Objects : k \in new <=> k # p /\ is_connected[k] /\ InRangeOf(pos'[p], pos'[k])
  BY DEF Around
<1>4. /\ SeesRight(q, o) /\ SeesRight(q, p) /\ SeesRight(p, q) /\ SeesRight(p, p)
      /\ SeesRight(q, o)' /\ SeesRight(q, p)'
  BY <1>1, <1>2 DEF ViewsExact, SeesRight
<1>5. shown[q][o] = Drawn(q, o) /\ shown[q][p] = Drawn(q, p)
  BY <1>2 DEF DisplayExact, Drawn
<1>6. pos[p] # Gone
  BY <1>2, CellIsSomething DEF TypeOK
<1>7. shown'[q][o] =
        CASE q = p /\ o = p                     -> Pos(p, p)
          [] q = p /\ o \in new \ view_list[p]  -> Put(o)
          [] q = p /\ o \in lost                -> Gone
          [] q \in new \ NPCs /\ o = p          -> PutOrPos(q, p)
          [] q \in lost \ NPCs /\ o = p /\ p \in view_list[q] -> Gone
          [] OTHER -> shown[q][o]
  <2> HIDE DEF new, lost
  <2> QED BY <1>1, <1>2 DEF PacketDisplay
<1>8. CASE q = p /\ o = p
  <2>1. p \notin new /\ p \notin view_list[p]
    BY <1>3, <1>4 DEF SeesRight
  <2>2. shown'[q][o] = Pos(p, p)
    <3> HIDE DEF new
    <3> QED BY <1>7, <1>8, <2>1
  <2> QED BY <1>5, <1>6, <1>8, <2>2 DEF Pos, Drawn
<1>9. CASE q = p /\ o # p
  <2>1. o \in new <=> o \in view_list'[p]
    BY <1>1, <1>3, <1>4, <1>9 DEF SeesRight
  <2>2. shown'[q][o] = IF o \in new \ view_list[p] THEN pos'[o]
                       ELSE IF o \in view_list[p] \ new THEN Gone ELSE shown[p][o]
    <3>1. /\ ~(q = p /\ o = p) /\ ~(q \in new \ NPCs /\ o = p)
          /\ ~(q \in lost \ NPCs /\ o = p /\ p \in view_list[q])
      BY <1>9
    <3> HIDE DEF new
    <3>2. CASE o \in new \ view_list[p]
      BY <1>7, <1>9, <3>1, <3>2 DEF Put
    <3>3. CASE o \in view_list[p] \ new
      BY <1>7, <1>9, <3>1, <3>3
    <3>4. CASE o \notin new \ view_list[p] /\ o \notin view_list[p] \ new
      BY <1>7, <1>9, <3>1, <3>4
    <3> QED BY <3>2, <3>3, <3>4
  <2>3. pos'[o] = pos[o]
    BY <1>1, <1>9
  <2> HIDE DEF new
  <2> QED BY <1>5, <1>9, <2>1, <2>2, <2>3 DEF Drawn
<1>10. CASE q # p /\ o # p
  <2>1. shown'[q][o] = shown[q][o]
    <3> HIDE DEF new, lost
    <3> QED BY <1>7, <1>10
  <2>2. pos'[o] = pos[o] /\ pos'[q] = pos[q]
    BY <1>1, <1>2, <1>10
  <2>3. o \in view_list'[q] <=> o \in view_list[q]
    BY <1>1, <1>4, <2>2 DEF SeesRight, InRangeOf
  <2> QED BY <1>5, <2>1, <2>2, <2>3 DEF Drawn
<1>11. CASE q # p /\ o = p
  <2>1. /\ InRangeOf(pos[p], pos[q]) <=> InRangeOf(pos[q], pos[p])
        /\ InRangeOf(pos'[p], pos'[q]) <=> InRangeOf(pos'[q], pos'[p])
    BY <1>2, RangeIsMutual DEF TypeOK
  <2>2. (q \in view_list[p] <=> p \in view_list[q]) /\ (q \in new <=> p \in view_list'[q])
    BY <1>1, <1>2, <1>3, <1>4, <1>11, <2>1 DEF SeesRight
  <2> HIDE DEF new
  <2>3. CASE q \in new
    <3>1. shown'[q][o] = PutOrPos(q, p)
      BY <1>2, <1>7, <1>11, <2>3
    <3>2. PutOrPos(q, p) = pos'[p]
      BY <1>5, <1>6 DEF PutOrPos, Pos, Put, Drawn
    <3> QED BY <1>11, <2>2, <2>3, <3>1, <3>2 DEF Drawn
  <2>4. CASE q \notin new /\ p \in view_list[q]
    <3>1. q \in lost \ NPCs
      BY <1>2, <2>2, <2>4
    <3>2. shown'[q][o] = Gone
      <4> HIDE DEF lost
      <4> QED BY <1>7, <1>11, <2>4, <3>1
    <3> QED BY <1>11, <2>2, <2>4, <3>2 DEF Drawn
  <2>5. CASE q \notin new /\ p \notin view_list[q]
    <3>1. shown'[q][o] = shown[q][o]
      BY <1>7, <1>11, <2>5
    <3> QED BY <1>5, <1>11, <2>2, <2>5, <3>1 DEF Drawn
  <2> QED BY <2>3, <2>4, <2>5
<1> QED BY <1>8, <1>9, <1>10, <1>11

LEMMA BeatDraws ==
  ASSUME TypeOK, TypeOK', ViewsExact, ViewsExact', DisplayExact, NEW n \in NPCs, NEW m \in Moves,
         do_move(n, m), NEW q \in receiving, NEW o \in Objects
  PROVE  shown'[q][o] = Drawn(q, o)'
<1> DEFINE old == Around(n, pos, Users) \ NPCs
           new == Around(n, pos', Users) \ NPCs
<1>1. /\ shown' = [k \in Users |-> [i \in Objects |->
           CASE i = n /\ k \in old \ new     -> Gone
             [] i = n /\ k \in new \ old     -> Put(n)
             [] i = n /\ k \in old \cap new  -> Pos(k, n)
             [] OTHER -> shown[k][i]]]
      /\ is_connected' = is_connected /\ receiving' = receiving
      /\ \A k \in Objects : k # n => pos'[k] = pos[k]
  BY SlotFacts DEF do_move, TypeOK
<1>2. q \in Users /\ q \in Objects /\ q \notin NPCs /\ is_connected[q] /\ q # n /\ n \in Objects
      /\ is_connected[n]
  BY ReceivingFacts, SlotFacts DEF TypeOK
<1>3. /\ q \in old <=> InRangeOf(pos[n], pos[q])
      /\ q \in new <=> InRangeOf(pos'[n], pos'[q])
  BY <1>2 DEF Around
<1>4. SeesRight(q, o) /\ SeesRight(q, n) /\ SeesRight(q, o)' /\ SeesRight(q, n)'
  BY <1>1, <1>2 DEF ViewsExact, SeesRight
<1>5. shown[q][o] = Drawn(q, o) /\ shown[q][n] = Drawn(q, n)
  BY <1>2 DEF DisplayExact, Drawn
<1>6. shown'[q][o] =
        CASE o = n /\ q \in old \ new     -> Gone
          [] o = n /\ q \in new \ old     -> Put(n)
          [] o = n /\ q \in old \cap new  -> Pos(q, n)
          [] OTHER -> shown[q][o]
  <2> HIDE DEF old, new
  <2> QED BY <1>1, <1>2
<1>7. CASE o # n
  <2>1. shown'[q][o] = shown[q][o]
    <3> HIDE DEF old, new
    <3> QED BY <1>6, <1>7
  <2>2. pos'[o] = pos[o] /\ pos'[q] = pos[q]
    BY <1>1, <1>2, <1>7
  <2>3. o \in view_list'[q] <=> o \in view_list[q]
    BY <1>1, <1>4, <2>2 DEF SeesRight, InRangeOf
  <2> QED BY <1>5, <2>1, <2>2, <2>3 DEF Drawn
<1>8. CASE o = n
  <2>1. /\ InRangeOf(pos[n], pos[q]) <=> InRangeOf(pos[q], pos[n])
        /\ InRangeOf(pos'[n], pos'[q]) <=> InRangeOf(pos'[q], pos'[n])
    BY <1>2, RangeIsMutual DEF TypeOK
  <2>2. (n \in view_list[q] <=> q \in old) /\ (n \in view_list'[q] <=> q \in new)
    BY <1>1, <1>2, <1>3, <1>4, <2>1 DEF SeesRight
  <2>3. pos[n] # Gone
    BY <1>2, CellIsSomething DEF TypeOK
  <2> HIDE DEF old, new
  <2>4. CASE q \in new /\ q \in old
    <3>1. shown'[q][o] = Pos(q, n)
      BY <1>6, <1>8, <2>4
    <3> QED BY <1>5, <1>8, <2>2, <2>3, <2>4, <3>1 DEF Pos, Drawn
  <2>5. CASE q \in new /\ q \notin old
    BY <1>6, <1>8, <2>2, <2>5 DEF Put, Drawn
  <2>6. CASE q \notin new /\ q \in old
    BY <1>2, <1>6, <1>8, <2>2, <2>6 DEF Drawn
  <2>7. CASE q \notin new /\ q \notin old
    BY <1>2, <1>5, <1>6, <1>8, <2>2, <2>7 DEF Drawn
  <2> QED BY <2>4, <2>5, <2>6, <2>7
<1> QED BY <1>7, <1>8

LEMMA JoinDraws ==
  ASSUME TypeOK, TypeOK', ViewsExact, ViewsExact', DisplayExact, NEW p \in Users, Join(p),
         NEW q \in receiving', NEW o \in Objects
  PROVE  shown'[q][o] = Drawn(q, o)'
<1> DEFINE near == Around(p, pos', Objects) \ {p}
           told == Reached(near \cap Users)
           lost == near \cap Users \cap NPCs # {}
<1>0. p \in Objects /\ p \in Players /\ ~is_connected[p] /\ p \notin receiving /\ p \notin NPCs
  BY SlotFacts DEF Join, FirstFree, TypeOK, Players
<1>1. /\ shown' = [k \in Users |-> [i \in Objects |->
           CASE k = p -> IF i = p \/ (i \in near /\ ~lost) THEN Put(i) ELSE Gone
             [] k \in told \ NPCs /\ i = p -> Put(p)
             [] OTHER -> shown[k][i]]]
      /\ receiving' = IF lost THEN receiving ELSE receiving \cup {p}
      /\ \A k \in Objects : k # p => pos'[k] = pos[k] /\ is_connected'[k] = is_connected[k]
      /\ is_connected'[p]
  BY <1>0 DEF Join, TypeOK
<1>2. \A k \in Objects : k \in near <=> k # p /\ is_connected[k] /\ InRangeOf(pos'[p], pos'[k])
  BY DEF Around
<1>3. p \notin told
  BY DEF Reached
<1>4. /\ q \in Users /\ q \in Objects /\ q \in Players /\ q \notin NPCs /\ is_connected'[q]
  BY SlotFacts DEF TypeOK
<1>5. SeesRight(q, o)' /\ SeesRight(q, p)'
  BY <1>0, <1>4 DEF ViewsExact, SeesRight
<1>6. shown'[q][o] = CASE q = p -> IF o = p \/ (o \in near /\ ~lost) THEN Put(o) ELSE Gone
                       [] q \in told \ NPCs /\ o = p -> Put(p)
                       [] OTHER -> shown[q][o]
  <2> HIDE DEF near, told, lost
  <2> QED BY <1>1, <1>4
<1>7. CASE q = p
  <2>1. shown'[q][o] = IF o = p \/ (o \in near /\ ~lost) THEN Put(o) ELSE Gone
    <3> HIDE DEF near, told, lost
    <3> QED BY <1>3, <1>6, <1>7
  <2>2. ~lost
    <3> HIDE DEF near, lost
    <3> QED BY <1>0, <1>1, <1>7
  <2>3. o # p => (o \in near <=> o \in view_list'[p])
    BY <1>1, <1>2, <1>5, <1>7 DEF SeesRight
  <2> HIDE DEF near, lost
  <2> QED BY <1>7, <2>1, <2>2, <2>3 DEF Put, Drawn
<1>8. CASE q # p
  <2>1. q \in receiving
    <3> HIDE DEF near, lost
    <3> QED BY <1>1, <1>8
  <2>2. shown[q][o] = Drawn(q, o) /\ SeesRight(q, o) /\ SeesRight(q, p)
    BY <1>0, <2>1 DEF DisplayExact, Drawn, ViewsExact, SeesRight
  <2>3. CASE o # p
    <3>1. shown'[q][o] = shown[q][o]
      <4> HIDE DEF near, told, lost
      <4> QED BY <1>6, <1>8, <2>3
    <3>2. pos'[o] = pos[o] /\ pos'[q] = pos[q] /\ is_connected'[o] = is_connected[o]
      BY <1>1, <1>4, <1>8, <2>3
    <3>3. o \in view_list'[q] <=> o \in view_list[q]
      BY <1>5, <2>2, <3>2 DEF SeesRight, InRangeOf
    <3> QED BY <2>2, <3>1, <3>2, <3>3 DEF Drawn
  <2>4. CASE o = p
    <3>1. InRangeOf(pos'[p], pos'[q]) <=> InRangeOf(pos'[q], pos'[p])
      BY <1>0, <1>4, RangeIsMutual DEF TypeOK
    <3>2. q \in told <=> q \in near
      <4>1. \A b \in NPCs : q <= b
        <5>1. \A b \in NPCs : q < b /\ q \in Int /\ b \in Int
          BY <1>4, SlotFacts
        <5> QED BY <5>1
      <4> QED BY <1>4, <4>1 DEF Reached
    <3>3. q \in near <=> p \in view_list'[q]
      BY <1>1, <1>2, <1>4, <1>5, <1>8, <3>1 DEF SeesRight
    <3>4. p \notin view_list[q]
      BY <1>0, <2>2 DEF SeesRight
    <3> HIDE DEF near, told, lost
    <3>5. CASE q \in told
      BY <1>4, <1>6, <1>8, <2>4, <3>2, <3>3, <3>5 DEF Put, Drawn
    <3>6. CASE q \notin told
      BY <1>6, <1>8, <2>2, <2>4, <3>2, <3>3, <3>4, <3>6 DEF Drawn
    <3> QED BY <3>5, <3>6
  <2> QED BY <2>3, <2>4
<1> QED BY <1>7, <1>8

LEMMA LeaveDraws ==
  ASSUME TypeOK, ViewsExact, ViewsExact', DisplayExact, NEW p \in Users, Leave(p),
         NEW q \in receiving', NEW o \in Objects
  PROVE  shown'[q][o] = Drawn(q, o)'
<1> DEFINE tell == {k \in Users \ {p} : is_connected[k] /\ p \in view_list[k]}
<1>1. p \in Objects /\ q \in receiving /\ q # p /\ q \in Users /\ q \in Objects /\ is_connected[q]
  BY ReceivingFacts, SlotFacts DEF Leave
<1>2. shown[q][o] = Drawn(q, o) /\ pos' = pos
  BY <1>1 DEF DisplayExact, Drawn, Leave
<1>3. q \in tell <=> p \in view_list[q]
  BY <1>1
<1>4. shown'[q][o] = IF o = p /\ q \in tell THEN Gone ELSE shown[q][o]
  BY <1>1 DEF Leave, Departure
<1>5. view_list'[q] = IF q \in tell THEN view_list[q] \ {p} ELSE view_list[q]
  BY <1>1 DEF Leave
<1> HIDE DEF tell
<1> QED BY <1>1, <1>2, <1>3, <1>4, <1>5 DEF Drawn

LEMMA NextDraws ==
  TypeOK /\ TypeOK' /\ ViewsExact /\ ViewsExact' /\ DisplayExact /\ [Next]_vars => DisplayExact'
<1> SUFFICES ASSUME TypeOK, TypeOK', ViewsExact, ViewsExact', DisplayExact, [Next]_vars,
                    NEW q \in receiving', NEW o \in Objects
             PROVE  shown'[q][o] = Drawn(q, o)'
  BY DEF DisplayExact, Drawn
<1>1. CASE UNCHANGED <<pos, view_list, shown, receiving>>
  BY <1>1 DEF DisplayExact, Drawn
<1>2. UNCHANGED vars \/ (\E n \in NPCs : StaleToken(n))
      => UNCHANGED <<pos, view_list, shown, receiving>>
  BY DEF vars, StaleToken
<1>3. ASSUME NEW p \in Users, NEW m \in Moves, ProcessPacket(p, m) PROVE shown'[q][o] = Drawn(q, o)'
  <2>1. q \in receiving
    BY <1>3 DEF ProcessPacket
  <2> QED BY <1>3, <2>1, PacketDraws
<1>4. ASSUME NEW n \in NPCs, NEW m \in Moves, do_move(n, m) PROVE shown'[q][o] = Drawn(q, o)'
  <2>1. q \in receiving
    BY <1>4 DEF do_move
  <2> QED BY <1>4, <2>1, BeatDraws
<1> QED BY <1>1, <1>2, <1>3, <1>4, JoinDraws, LeaveDraws DEF Next

(* On any board, with any numbers of slots, every handler leaves every     *)
(* client with a display that shows what its view list holds, each object  *)
(* where it stands.                                                        *)
THEOREM DisplaysStayExact == Spec => []DisplayExact
<1>1. Init => DisplayExact
  BY DEF Init, DisplayExact
<1> QED BY <1>1, NextDraws, TypesHold, ViewsStayExact, PTL DEF Spec
=============================================================================
