-------------------------- MODULE SleepingNpcProofs --------------------------
(***************************************************************************)
(* Theorems about SleepingNpc, for any number of workers, players and NPCs.*)
(***************************************************************************)
EXTENDS SleepingNpc, TLAPS

LEMMA ConstantFacts ==
  /\ Players \subseteq Objects /\ NPCs \subseteq Objects
  /\ \A n \in NPCs : n \in Int /\ n # NoOne
  /\ \A v \in Int, n \in Nat \ {0} : Clamp(v, n) \in 0 .. n - 1
  /\ \A m \in Moves : DeltaX(m) \in Int /\ DeltaZ(m) \in Int
<1>1. NPCs \subseteq Objects /\ \A n \in NPCs : n \in Int /\ n # NoOne
  BY SlotsAssumption DEF NPCs, Objects, NoOne
<1>2. Players \subseteq Objects
  BY SlotsAssumption DEF Players, Users, Objects
<1>3. \A v \in Int, n \in Nat \ {0} : Clamp(v, n) \in 0 .. n - 1
  BY DEF Clamp
<1>4. \A m \in Moves : DeltaX(m) \in Int /\ DeltaZ(m) \in Int
  BY DEF DeltaX, DeltaZ
<1> QED
  BY <1>1, <1>2, <1>3, <1>4

LEMMA BoardFacts ==
  /\ BoardWidth \in Nat \ {0} /\ BoardHeight \in Nat \ {0} /\ Drift \in Nat
  /\ Columns = 0 .. BoardWidth - 1 /\ Rows = 0 .. BoardHeight - 1
  /\ Columns \subseteq Around(BoardWidth) /\ Rows \subseteq Around(BoardHeight)
  /\ Around(BoardWidth) \subseteq Int /\ Around(BoardHeight) \subseteq Int
  /\ \A v \in Int : /\ AtMostDrift(v, BoardWidth) \in Around(BoardWidth)
                    /\ AtMostDrift(v, BoardHeight) \in Around(BoardHeight)
BY BoardAssumption, SleepingAssumption DEF Columns, Rows, Around, AtMostDrift

(* A packet's move keeps a player on the board.                            *)
LEMMA WalkStays ==
  ASSUME TypeOK, NEW o \in Players, NEW m \in Moves, Walk(o, m)
  PROVE  /\ x' \in [Objects -> Around(BoardWidth)] /\ z' \in [Objects -> Around(BoardHeight)]
         /\ \A k \in Objects \ NPCs : x'[k] \in Columns /\ z'[k] \in Rows
<1>1. o \in Objects
  BY ConstantFacts
<1>2. /\ x[o] + DeltaX(m) \in Int /\ z[o] + DeltaZ(m) \in Int
  <2>1. x[o] \in Int /\ z[o] \in Int
    BY <1>1, BoardFacts DEF TypeOK
  <2>2. DeltaX(m) \in Int /\ DeltaZ(m) \in Int
    BY ConstantFacts
  <2> QED BY <2>1, <2>2
<1>3. /\ Clamp(x[o] + DeltaX(m), BoardWidth) \in Columns
      /\ Clamp(z[o] + DeltaZ(m), BoardHeight) \in Rows
  BY <1>2, BoardFacts, ConstantFacts
<1>4. /\ x' = [x EXCEPT ![o] = Clamp(x[o] + DeltaX(m), BoardWidth)]
      /\ z' = [z EXCEPT ![o] = Clamp(z[o] + DeltaZ(m), BoardHeight)]
  BY DEF Walk
<1> QED
  BY <1>1, <1>3, <1>4, BoardFacts DEF TypeOK

(* A beat's store may take its NPC off the board, and touches nobody else. *)
LEMMA StoreStays ==
  ASSUME TypeOK, NEW t \in Workers, BtStore(t)
  PROVE  /\ x' \in [Objects -> Around(BoardWidth)] /\ z' \in [Objects -> Around(BoardHeight)]
         /\ \A k \in Objects \ NPCs : x'[k] \in Columns /\ z'[k] \in Rows
<1>1. npc[t] \in NPCs
  BY DEF TypeOK, BtStore
<1>2. /\ turn[t].read + DeltaX(turn[t].way) \in Int
      /\ turn[t].read + DeltaZ(turn[t].way) \in Int
  <2>1. turn[t].read \in Int
    BY DEF TypeOK
  <2>2. DeltaX(turn[t].way) \in Int /\ DeltaZ(turn[t].way) \in Int
    BY DEF DeltaX, DeltaZ
  <2> QED BY <2>1, <2>2
<1>3. /\ AtMostDrift(turn[t].read + DeltaX(turn[t].way), BoardWidth) \in Around(BoardWidth)
      /\ AtMostDrift(turn[t].read + DeltaZ(turn[t].way), BoardHeight) \in Around(BoardHeight)
  BY <1>2, BoardFacts
<1>4. /\ x' = x \/ x' = [x EXCEPT ![npc[t]] =
                           AtMostDrift(turn[t].read + DeltaX(turn[t].way), BoardWidth)]
      /\ z' = z \/ z' = [z EXCEPT ![npc[t]] =
                           AtMostDrift(turn[t].read + DeltaZ(turn[t].way), BoardHeight)]
  BY DEF BtStore
<1>5. x' \in [Objects -> Around(BoardWidth)] /\ \A k \in Objects \ NPCs : x'[k] = x[k]
  BY <1>1, <1>3, <1>4 DEF TypeOK
<1>6. z' \in [Objects -> Around(BoardHeight)] /\ \A k \in Objects \ NPCs : z'[k] = z[k]
  BY <1>1, <1>3, <1>4 DEF TypeOK
<1> QED
  BY <1>5, <1>6 DEF TypeOK

(* A push adds one token at most, and none is lost while the queue is not  *)
(* torn.                                                                   *)
LEMMA PushAdds ==
  ASSUME TypeOK, NEW n, Push(n), torn' \in BOOLEAN
  PROVE  /\ p_queue' \in [NPCs -> 0 .. TokenCap]
         /\ \A k \in NPCs : p_queue[k] > 0 => p_queue'[k] > 0
         /\ ~torn' /\ n \in NPCs => p_queue'[n] > 0
<1>1. PICK kept \in IF torn' THEN BOOLEAN ELSE {TRUE} :
        p_queue' = IF kept /\ p_queue[n] < TokenCap THEN [p_queue EXCEPT ![n] = @ + 1]
                                                    ELSE p_queue
  BY DEF Push
<1>2. p_queue \in [NPCs -> 0 .. TokenCap] /\ TokenCap \in Nat \ {0}
  BY SleepingAssumption DEF TypeOK
<1>3. CASE n \in NPCs
  <2>1. CASE kept /\ p_queue[n] < TokenCap
    <3>1. p_queue' = [p_queue EXCEPT ![n] = p_queue[n] + 1]
      BY <1>1, <2>1
    <3>2. p_queue[n] + 1 \in 0 .. TokenCap /\ p_queue[n] + 1 > 0
      BY <1>2, <1>3, <2>1
    <3> QED BY <1>2, <1>3, <3>1, <3>2
  <2>2. CASE ~(kept /\ p_queue[n] < TokenCap)
    <3>1. p_queue' = p_queue
      BY <1>1, <2>2
    <3>2. ~torn' => kept
      BY <1>1
    <3>3. ~torn' => p_queue[n] > 0
      BY <1>2, <1>3, <2>2, <3>2
    <3> QED BY <1>2, <3>1, <3>3
  <2> QED BY <2>1, <2>2
<1>4. CASE n \notin NPCs
  BY <1>1, <1>2, <1>4
<1> QED BY <1>3, <1>4

LEMMA ClashTypes ==
  ASSUME TypeOK, NEW t, Clash(t)
  PROVE  torn' \in BOOLEAN /\ (torn => torn')
BY DEF TypeOK, Clash

LEMMA InitTypes == Init => TypeOK
<1> SUFFICES ASSUME Init PROVE TypeOK
  OBVIOUS
<1>1. 0 \in 0 .. TokenCap
  BY SleepingAssumption
<1>2. NoTurn \in [way : Moves \cup {"none"}, read : Int]
  BY DEF NoTurn
<1>3. /\ x \in [Objects -> Around(BoardWidth)] /\ z \in [Objects -> Around(BoardHeight)]
      /\ \A o \in Objects \ NPCs : x[o] \in Columns /\ z[o] \in Rows
  BY BoardFacts DEF Init
<1> QED
  BY <1>1, <1>2, <1>3 DEF Init, TypeOK, Labels

-----------------------------------------------------------------------------
(* One lemma per action: types.                                            *)

LEMMA BeatTypes ==
  ASSUME TypeOK, NEW t \in Workers, BeatStep(t) \/ \E n \in NPCs : BtTake(t, n)
  PROVE  TypeOK'
<1> USE DEF where, tokens, Goto, SendThenGoto
<1>1. ASSUME NEW n \in NPCs, BtTake(t, n) PROVE TypeOK'
  <2>1. posted' \in [NPCs -> 0 .. TokenCap]
    BY <1>1, SleepingAssumption DEF TypeOK, BtTake
  <2>2. n \in NPCs \cup {NoOne} /\ n # NoOne
    BY ConstantFacts
  <2> QED BY <1>1, <2>1, <2>2 DEF TypeOK, BtTake, Labels
<1>2. CASE BtCheck(t)
  <2>1. CASE is_active[npc[t]]
    BY <1>2, <2>1 DEF TypeOK, BtCheck, Labels
  <2>2. CASE ~is_active[npc[t]]
    BY <1>2, <2>2 DEF TypeOK, BtCheck, Labels
  <2> QED BY <2>1, <2>2
<1>3. CASE BtTest(t)
  <2>1. PICK m \in Moves :
          IF EdgeLets(npc[t], m)
            THEN turn' = [turn EXCEPT ![t].way = m] /\ pc' = [pc EXCEPT ![t] = "bt_load"]
            ELSE UNCHANGED turn /\ pc' = [pc EXCEPT ![t] = "bt_look"]
    BY <1>3 DEF BtTest
  <2>2. turn' \in [Workers -> [way : Moves \cup {"none"}, read : Int]]
    <3>1. turn' = turn \/ turn' = [turn EXCEPT ![t] = [@ EXCEPT !.way = m]]
      BY <2>1
    <3>2. [turn[t] EXCEPT !.way = m] \in [way : Moves \cup {"none"}, read : Int]
      BY DEF TypeOK
    <3> QED BY <3>1, <3>2 DEF TypeOK
  <2>3. pc' \in [Workers -> Labels] /\ npc[t] \in NPCs
    BY <1>3, <2>1 DEF TypeOK, BtTest, Labels
  <2>4. \A u \in Workers : npc'[u] = NoOne => pc'[u] \in {"gqcs", "pk_scan", "pk_wake", "hung"}
    BY <1>3, <2>1, <2>3, ConstantFacts DEF TypeOK, BtTest
  <2> QED BY <1>3, <2>2, <2>3, <2>4 DEF TypeOK, BtTest
<1>7. CASE BtLoad(t)
  <2>1. npc[t] \in NPCs /\ npc[t] \in Objects
    BY <1>7, ConstantFacts DEF TypeOK, BtLoad
  <2>2. x[npc[t]] \in Int /\ z[npc[t]] \in Int
    BY <2>1, BoardFacts DEF TypeOK
  <2>3. PICK v \in Int : turn' = [turn EXCEPT ![t].read = v]
    BY <1>7, <2>2 DEF BtLoad
  <2>4. turn' \in [Workers -> [way : Moves \cup {"none"}, read : Int]]
    BY <2>3 DEF TypeOK
  <2> QED BY <1>7, <2>1, <2>4, ConstantFacts DEF TypeOK, BtLoad, Labels
<1>8. CASE BtStore(t)
  <2>1. turn' \in [Workers -> [way : Moves \cup {"none"}, read : Int]]
    BY <1>8 DEF TypeOK, BtStore, NoTurn
  <2> QED BY <1>8, <2>1, StoreStays DEF TypeOK, BtStore, Labels
<1>4. CASE BtLook(t)
  <2>1. npc[t] \in NPCs
    BY <1>4 DEF TypeOK, BtLook
  <2>2. todo' \in [Workers -> SUBSET NPCs]
    BY <1>4, <2>1 DEF TypeOK, BtLook
  <2>3. CASE Goto(t, "bt_push")
    BY <1>4, <2>1, <2>2, <2>3, ConstantFacts DEF TypeOK, BtLook, Labels
  <2>4. CASE Goto(t, "hung")
    BY <1>4, <2>1, <2>2, <2>4, ConstantFacts DEF TypeOK, BtLook, Labels
  <2> QED BY <1>4, <2>3, <2>4 DEF BtLook
<1>5. CASE BtPush(t)
  <2>1. torn' \in BOOLEAN /\ Push(npc[t])
    BY <1>5, ClashTypes DEF BtPush
  <2>2. p_queue' \in [NPCs -> 0 .. TokenCap]
    BY <2>1, PushAdds
  <2> QED BY <1>5, <2>1, <2>2 DEF TypeOK, BtPush, Labels
<1>6. CASE BtSleep(t)
  <2>1. npc[t] \in NPCs /\ is_active' \in [NPCs -> BOOLEAN]
    BY <1>6 DEF TypeOK, BtSleep
  <2> QED BY <1>6, <2>1 DEF TypeOK, BtSleep, Labels
<1> QED BY <1>1, <1>2, <1>3, <1>4, <1>5, <1>6, <1>7, <1>8 DEF BeatStep

LEMMA PacketTypes ==
  ASSUME TypeOK, NEW t \in Workers, PacketStep(t) \/ \E p \in Players : PkMove(t, p)
  PROVE  TypeOK'
<1> USE DEF where, tokens, Goto, SendThenGoto
<1>1. ASSUME NEW p \in Players, PkMove(t, p) PROVE TypeOK'
  <2>1. /\ x' \in [Objects -> Around(BoardWidth)] /\ z' \in [Objects -> Around(BoardHeight)]
        /\ \A k \in Objects \ NPCs : x'[k] \in Columns /\ z'[k] \in Rows
    BY <1>1, WalkStays DEF PkMove
  <2>2. PICK label \in {"pk_scan", "hung"} : pc' = [pc EXCEPT ![t] = label]
    BY <1>1 DEF PkMove
  <2> QED BY <1>1, <2>1, <2>2 DEF TypeOK, PkMove, Labels
<1>2. CASE PkScan(t)
  <2>1. todo' \in [Workers -> SUBSET NPCs]
    BY <1>2 DEF TypeOK, PkScan
  <2> QED BY <1>2, <2>1 DEF TypeOK, PkScan, Labels
<1>3. CASE PkWake(t)
  <2>1. CASE AllWoken(t)
    <3>1. /\ npc' = [npc EXCEPT ![t] = NoOne]
          /\ UNCHANGED <<is_active, todo, where, tokens>>
      BY <1>3, <2>1 DEF PkWake, AllWoken
    <3>2. PICK label \in {"gqcs", "hung"} : pc' = [pc EXCEPT ![t] = label]
      BY <2>1 DEF AllWoken
    <3>3. cl' \in [Workers -> Players \cup {NoOne}]
      BY <2>1 DEF AllWoken, TypeOK
    <3> QED BY <3>1, <3>2, <3>3 DEF TypeOK, Labels
  <2>2. ASSUME NEW n \in NPCs, WakeNext(t, n) PROVE TypeOK'
    <3>1. /\ n # NoOne /\ todo' \in [Workers -> SUBSET NPCs]
          /\ UNCHANGED <<is_active, cl, where, tokens>>
      BY <1>3, <2>2, ConstantFacts DEF TypeOK, WakeNext, PkWake
    <3>2. CASE is_active[n]
      BY <2>2, <3>1, <3>2 DEF TypeOK, WakeNext
    <3>3. CASE ~is_active[n]
      <4>1. npc' = [npc EXCEPT ![t] = n] /\ pc' = [pc EXCEPT ![t] = "wk_set"]
        BY <2>2, <3>3 DEF WakeNext
      <4>2. npc' \in [Workers -> NPCs \cup {NoOne}] /\ pc' \in [Workers -> Labels]
        BY <4>1 DEF TypeOK, Labels
      <4>3. \A u \in Workers : npc'[u] = NoOne => pc'[u] \in {"gqcs", "pk_scan", "pk_wake", "hung"}
        BY <3>1, <4>1 DEF TypeOK
      <4> QED BY <3>1, <4>2, <4>3 DEF TypeOK
    <3> QED BY <3>2, <3>3
  <2> QED BY <1>3, <2>1, <2>2 DEF PkWake
<1>4. CASE WkEnter(t)
  <2>1. torn' \in BOOLEAN
    BY <1>4, ClashTypes DEF WkEnter
  <2> QED BY <1>4, <2>1 DEF TypeOK, WkEnter, Labels
<1>5. CASE WkPush(t)
  <2>1. torn' \in BOOLEAN /\ Push(npc[t])
    BY <1>5, ClashTypes DEF WkPush
  <2>2. p_queue' \in [NPCs -> 0 .. TokenCap]
    BY <2>1, PushAdds
  <2> QED BY <1>5, <2>1, <2>2 DEF TypeOK, WkPush, Labels
<1>6. CASE WkSet(t)
  <2>1. npc[t] \in NPCs /\ is_active' \in [NPCs -> BOOLEAN]
    BY <1>6 DEF TypeOK, WkSet
  <2> QED BY <1>6, <2>1 DEF TypeOK, WkSet, Labels
<1> QED BY <1>1, <1>2, <1>3, <1>4, <1>5, <1>6 DEF PacketStep

LEMMA OtherTypes ==
  ASSUME TypeOK, Timer \/ \E p \in Players : Joins(p) \/ Leaves(p)
  PROVE  TypeOK'
<1> USE DEF where, tokens
<1>1. ASSUME NEW n \in NPCs, TimerPops(n) PROVE TypeOK'
  <2>1. p_queue' \in [NPCs -> 0 .. TokenCap]
    BY <1>1, SleepingAssumption DEF TypeOK, TimerPops
  <2> QED BY <1>1, <2>1 DEF TypeOK, TimerPops
<1>2. CASE TimerPosts
  <2>1. posted' \in [NPCs -> 0 .. TokenCap]
    BY <1>2, SleepingAssumption DEF TypeOK, TimerPosts
  <2> QED BY <1>2, <2>1 DEF TypeOK, TimerPosts
<1>3. ASSUME NEW p \in Players, Joins(p) PROVE TypeOK'
  <2>1. /\ x' \in [Objects -> Around(BoardWidth)] /\ z' \in [Objects -> Around(BoardHeight)]
        /\ \A k \in Objects \ NPCs : x'[k] \in Columns /\ z'[k] \in Rows
    BY <1>3, SleepingAssumption, BoardFacts DEF TypeOK, Joins
  <2> QED BY <1>3, <2>1 DEF TypeOK, Joins
<1>4. ASSUME NEW p \in Players, Leaves(p) PROVE TypeOK'
  BY <1>4 DEF TypeOK, Leaves
<1> QED BY <1>1, <1>2, <1>3, <1>4 DEF Timer

LEMMA NextTypes == TypeOK /\ [Next]_vars => TypeOK'
<1>1. TypeOK /\ UNCHANGED vars => TypeOK'
  BY DEF TypeOK, vars
<1> QED BY <1>1, BeatTypes, PacketTypes, OtherTypes DEF Next

(* Every variable keeps its type and no player leaves the board, for any   *)
(* board and any number of workers.                                        *)
THEOREM TypesHold == Spec => []TypeOK
<1> QED BY InitTypes, NextTypes, PTL DEF Spec

-----------------------------------------------------------------------------
(* ActiveHasToken.  A token is in a queue, in the timer's hand, or its     *)
(* successor is in a worker's; every step passes it on.                    *)

Covered(n) == p_queue[n] > 0 \/ held = n \/ posted[n] > 0 \/ \E t \in Workers : WillPush(t, n)

(* A step of t that takes no token away leaves every NPC covered, except   *)
(* those t alone was covering.                                             *)
LEMMA StaysCovered ==
  ASSUME TypeOK, NEW t \in Workers, NEW n \in NPCs, Covered(n),
         \A u \in Workers \ {t} : pc'[u] = pc[u] /\ npc'[u] = npc[u],
         p_queue[n] > 0 => p_queue'[n] > 0, held' = held,
         posted[n] > 0 => posted'[n] > 0,
         WillPush(t, n) => WillPush(t, n)'
  PROVE  Covered(n)'
<1>1. ASSUME NEW u \in Workers, WillPush(u, n) PROVE WillPush(u, n)'
  BY <1>1 DEF WillPush
<1> QED BY <1>1 DEF Covered

LEMMA OnlyWorker ==
  ASSUME TypeOK, NEW t \in Workers, BeatStep(t) \/ PacketStep(t)
         \/ (\E n \in NPCs : BtTake(t, n)) \/ \E p \in Players : PkMove(t, p)
  PROVE  /\ \A u \in Workers \ {t} : pc'[u] = pc[u] /\ npc'[u] = npc[u]
         /\ held' = held
BY DEF TypeOK, BeatStep, PacketStep, BtTake, BtCheck, BtTest, BtLoad, BtStore,
       BtLook, BtPush, BtSleep,
       PkMove, PkScan, PkWake, AllWoken, WakeNext, WkSet, WkEnter, WkPush, Goto,
       SendThenGoto, tokens

LEMMA BeatCovers ==
  ASSUME TypeOK, NEW t \in Workers, NEW n \in NPCs, ~torn', is_active'[n],
         is_active[n] => Covered(n),
         BeatStep(t) \/ \E k \in NPCs : BtTake(t, k)
  PROVE  Covered(n)'
<1> USE DEF tokens, Goto, SendThenGoto
<1>0. /\ held' = held /\ n # NoOne
      /\ \A u \in Workers \ {t} : pc'[u] = pc[u] /\ npc'[u] = npc[u]
  BY OnlyWorker, ConstantFacts
<1>1. ASSUME NEW k \in NPCs, BtTake(t, k) PROVE Covered(n)'
  <2>1. Covered(n) /\ ~WillPush(t, n) /\ p_queue' = p_queue
    BY <1>1 DEF BtTake, WillPush
  <2>2. CASE k = n
    <3>1. WillPush(t, n)'
      BY <1>1, <2>2 DEF TypeOK, BtTake, WillPush
    <3> QED BY <3>1 DEF Covered
  <2>3. CASE k # n
    <3>1. posted'[n] = posted[n]
      BY <1>1, <2>3 DEF TypeOK, BtTake
    <3> QED BY <1>0, <2>1, <3>1, StaysCovered
  <2> QED BY <2>2, <2>3
<1>2. CASE BtCheck(t)
  <2>1. Covered(n) /\ UNCHANGED <<p_queue, posted>>
    BY <1>2 DEF BtCheck
  <2>2. WillPush(t, n) => WillPush(t, n)'
    BY <1>2 DEF TypeOK, BtCheck, WillPush
  <2> QED BY <1>0, <2>1, <2>2, StaysCovered
<1>3. CASE BtTest(t) \/ BtLoad(t) \/ BtStore(t) \/ BtLook(t)
  <2>1. Covered(n) /\ UNCHANGED <<p_queue, posted>>
    BY <1>3 DEF BtTest, BtLoad, BtStore, BtLook
  <2>2. WillPush(t, n) => WillPush(t, n)'
    BY <1>3 DEF TypeOK, BtTest, BtLoad, BtStore, BtLook, WillPush
  <2> QED BY <1>0, <2>1, <2>2, StaysCovered
<1>4. CASE BtPush(t)
  <2>1. Covered(n) /\ posted' = posted /\ Push(npc[t]) /\ torn' \in BOOLEAN
    BY <1>4, ClashTypes DEF BtPush
  <2>2. CASE npc[t] = n
    <3>1. p_queue'[n] > 0
      BY <2>1, <2>2, PushAdds
    <3> QED BY <3>1 DEF Covered
  <2>3. CASE npc[t] # n
    <3>1. ~WillPush(t, n) /\ (p_queue[n] > 0 => p_queue'[n] > 0)
      BY <2>1, <2>3, PushAdds DEF WillPush
    <3> QED BY <1>0, <2>1, <3>1, StaysCovered
  <2> QED BY <2>2, <2>3
<1>5. CASE BtSleep(t)
  <2>1. UNCHANGED <<p_queue, posted>> /\ is_active[n] /\ ~WillPush(t, n)
    BY <1>5 DEF TypeOK, BtSleep, WillPush
  <2> QED BY <1>0, <2>1, StaysCovered
<1> QED BY <1>1, <1>2, <1>3, <1>4, <1>5 DEF BeatStep

LEMMA PacketCovers ==
  ASSUME TypeOK, NEW t \in Workers, NEW n \in NPCs, ~torn', is_active'[n],
         is_active[n] => Covered(n),
         PacketStep(t) \/ \E p \in Players : PkMove(t, p)
  PROVE  Covered(n)'
<1> USE DEF tokens, Goto, SendThenGoto
<1>0. /\ held' = held
      /\ \A u \in Workers \ {t} : pc'[u] = pc[u] /\ npc'[u] = npc[u]
  BY OnlyWorker
<1>1. CASE PkScan(t) \/ \E p \in Players : PkMove(t, p)
  <2>1. Covered(n) /\ UNCHANGED <<p_queue, posted>> /\ ~WillPush(t, n)
    BY <1>1 DEF PkScan, PkMove, WillPush
  <2> QED BY <1>0, <2>1, StaysCovered
<1>2. CASE PkWake(t)
  <2>1. UNCHANGED <<p_queue, posted, is_active>> /\ ~WillPush(t, n)
    BY <1>2 DEF PkWake, AllWoken, WakeNext, WillPush
  <2> QED BY <1>0, <2>1, StaysCovered
<1>3. CASE WkEnter(t)
  <2>1. Covered(n) /\ UNCHANGED <<p_queue, posted>>
    BY <1>3 DEF WkEnter
  <2>2. WillPush(t, n) => WillPush(t, n)'
    BY <1>3 DEF TypeOK, WkEnter, WillPush
  <2> QED BY <1>0, <2>1, <2>2, StaysCovered
<1>4. CASE WkPush(t)
  <2>1. Covered(n) /\ posted' = posted /\ Push(npc[t]) /\ torn' \in BOOLEAN
    BY <1>4, ClashTypes DEF WkPush
  <2>2. CASE npc[t] = n
    <3>1. p_queue'[n] > 0
      BY <2>1, <2>2, PushAdds
    <3> QED BY <3>1 DEF Covered
  <2>3. CASE npc[t] # n
    <3>1. ~WillPush(t, n) /\ (p_queue[n] > 0 => p_queue'[n] > 0)
      BY <2>1, <2>3, PushAdds DEF WillPush
    <3> QED BY <1>0, <2>1, <3>1, StaysCovered
  <2> QED BY <2>2, <2>3
<1>5. CASE WkSet(t)
  <2>1. UNCHANGED <<p_queue, posted>> /\ ~WillPush(t, n)
    BY <1>5 DEF WkSet, WillPush
  <2>2. CASE is_active[n]
    BY <1>0, <2>1, <2>2, StaysCovered
  <2>3. CASE ~is_active[n]
    <3>1. npc[t] = n /\ npc' = npc /\ pc' = [pc EXCEPT ![t] = "wk_push"]
      BY <1>5, <2>3 DEF TypeOK, WkSet
    <3>2. WillPush(t, n)'
      BY <3>1 DEF TypeOK, WillPush
    <3> QED BY <3>2 DEF Covered
  <2> QED BY <2>2, <2>3
<1> QED BY <1>1, <1>2, <1>3, <1>4, <1>5 DEF PacketStep

LEMMA OtherCovers ==
  ASSUME TypeOK, NEW n \in NPCs, is_active'[n], is_active[n] => Covered(n),
         Timer \/ \E p \in Players : Joins(p) \/ Leaves(p)
  PROVE  Covered(n)'
<1> USE DEF tokens
<1>0. Covered(n) /\ UNCHANGED <<pc, npc>> /\ n # NoOne
  BY ConstantFacts DEF Timer, TimerPops, TimerPosts, Joins, Leaves
<1>1. ASSUME NEW k \in NPCs, TimerPops(k) PROVE Covered(n)'
  <2>1. held' = k /\ posted' = posted /\ (k # n => p_queue'[n] = p_queue[n]) /\ held = NoOne
    BY <1>1 DEF TypeOK, TimerPops
  <2> QED BY <1>0, <2>1 DEF Covered, WillPush
<1>2. CASE TimerPosts
  <2>1. p_queue' = p_queue /\ (held = n => posted'[n] > 0) /\ (posted[n] > 0 => posted'[n] > 0)
    BY <1>2, SleepingAssumption DEF TypeOK, TimerPosts
  <2> QED BY <1>0, <2>1 DEF Covered, WillPush
<1>3. CASE \E p \in Players : Joins(p) \/ Leaves(p)
  BY <1>0, <1>3 DEF Covered, WillPush, Joins, Leaves
<1> QED BY <1>1, <1>2, <1>3 DEF Timer

LEMMA TornStays == TypeOK /\ [Next]_vars => (torn => torn')
BY DEF TypeOK, Next, vars, tokens, BeatStep, PacketStep, BtTake, BtCheck, BtTest, BtLoad,
       BtStore, BtLook, BtPush, BtSleep, PkMove, PkScan, PkWake, WkSet, WkEnter, WkPush, Timer, TimerPops,
       TimerPosts, Joins, Leaves, Clash

LEMMA NextCovers == TypeOK /\ ActiveHasToken /\ [Next]_vars => ActiveHasToken'
<1> SUFFICES ASSUME TypeOK, ActiveHasToken, [Next]_vars, ~torn',
                    NEW n \in NPCs, is_active'[n]
             PROVE  Covered(n)'
  BY DEF ActiveHasToken, Covered
<1>1. is_active[n] => Covered(n)
  BY TornStays DEF ActiveHasToken, Covered
<1>2. CASE UNCHANGED vars
  BY <1>1, <1>2 DEF vars, Covered, WillPush
<1>3. CASE Next
  BY <1>1, <1>3, BeatCovers, PacketCovers, OtherCovers DEF Next
<1> QED BY <1>2, <1>3

(* While no two threads change the queue at once, an NPC marked active     *)
(* always has a token that will bring its next beat.                       *)
THEOREM ActiveKeepTokens == Spec => []ActiveHasToken
<1>1. Init => ActiveHasToken
  BY DEF Init, ActiveHasToken
<1> QED BY <1>1, NextCovers, TypesHold, PTL DEF Spec
=============================================================================
