----------------------------- MODULE SleepingNpc -----------------------------
(***************************************************************************)
(* The sleeping NPCs of 2017Server/2016_NPC.cpp.  An NPC beats (do_move)   *)
(* only while a player is near: a player's packet wakes it by setting      *)
(* is_active and pushing a token onto the timer queue; every beat pushes   *)
(* the next token, and a beat that finds nobody near clears is_active, so  *)
(* that the token it has just pushed comes to nothing.                     *)
(*                                                                         *)
(* The beats, the packets and the timer thread run at once.  WakeUpNPC     *)
(* pushes without the lock the others take.  Of the packets and sessions   *)
(* this module keeps what reaches the tokens: where the players are and    *)
(* which slots are connected; SleepServer has their view lists.            *)
(***************************************************************************)
EXTENDS World

CONSTANTS
  Workers,       \* the threads that run worker_thread
  StartX, StartZ,\* the cell every player starts at: (4, 4)
  SendsMayFail,  \* BOOLEAN: may a WSASend return an error, or ERROR_IO_PENDING?
  TokenCap,      \* bound: equal tokens counted in the timer or completion queue
  Drift          \* bound: cells off each edge of the board that are told apart

ASSUME SleepingAssumption ==
  /\ StartX \in Columns /\ StartZ \in Rows
  /\ SendsMayFail \in BOOLEAN /\ TokenCap \in Nat \ {0} /\ Drift \in Nat

VARIABLES
  x, z,          \* clients[o].m_player
  is_connected,  \* clients[p].is_connected of the player slots
  is_active,     \* clients[n].is_active of the NPC slots
  p_queue,       \* tokens in p_queue, by NPC
  held,          \* the token timer_thread has popped and not yet posted
  posted,        \* OP_MOVE completions not yet taken, by NPC
  torn,          \* history: has the queue been changed by two threads at once?
  pc, cl, npc,   \* where a worker is, the player it serves, the NPC it works on
  todo,          \* the part of ProcessPacket's new_list it has yet to wake
  turn           \* the way its NPC turns, and the coordinate read for x++ or the like

vars == <<x, z, is_connected, is_active, p_queue, held, posted, torn, pc, cl,
          npc, todo, turn>>
where  == <<x, z, is_connected, turn>>
tokens == <<p_queue, held, posted, torn>>

NoOne == -1
Players == Users \ NPCs

Labels == {"gqcs", "pk_scan", "pk_wake", "wk_set", "wk_push", "wk_in",
           "bt_check", "bt_test", "bt_load", "bt_store", "bt_look", "bt_push",
           "bt_sleep", "hung"}

NoTurn == [way |-> "none", read |-> 0]

Goto(t, label) == pc' = [pc EXCEPT ![t] = label]

(* SendPacket loops for ever on any error.                                 *)
SendThenGoto(t, label) == Goto(t, label) \/ (SendsMayFail /\ Goto(t, "hung"))

Is_InRange(i, j) == Within(x[i] - x[j], z[i] - z[j])

Near(n) == \E p \in Players : is_connected[p] /\ Is_InRange(n, p)

Init ==
  /\ x \in [Objects -> Columns] /\ z \in [Objects -> Rows]
  /\ \A o \in Objects \ NPCs : x[o] = 0 /\ z[o] = 0
  /\ is_connected = [p \in Players |-> FALSE]
  /\ is_active = [n \in NPCs |-> FALSE]
  /\ p_queue = [n \in NPCs |-> 0] /\ held = NoOne
  /\ posted = [n \in NPCs |-> 0] /\ torn = FALSE
  /\ pc = [t \in Workers |-> "gqcs"]
  /\ cl = [t \in Workers |-> NoOne] /\ npc = [t \in Workers |-> NoOne]
  /\ todo = [t \in Workers |-> {}] /\ turn = [t \in Workers |-> NoTurn]

-----------------------------------------------------------------------------
(* The timer queue.  A push without the lock lasts from wk_in on; whoever  *)
(* changes the queue meanwhile tears it, and from then on a push may be    *)
(* lost.                                                                   *)

Clash(t) == torn' = (torn \/ \E u \in Workers \ {t} : pc[u] = "wk_in")

Push(n) == \E kept \in IF torn' THEN BOOLEAN ELSE {TRUE} :
  p_queue' = IF kept /\ p_queue[n] < TokenCap THEN [p_queue EXCEPT ![n] = @ + 1]
                                              ELSE p_queue

(* timer_thread pops a due token under qlock and posts it after unlocking. *)
(* Every token is pushed for one second ahead: any of them may come due.   *)
TimerPops(n) ==
  /\ held = NoOne /\ p_queue[n] > 0
  /\ held' = n /\ p_queue' = [p_queue EXCEPT ![n] = @ - 1]
  /\ torn' = (torn \/ \E u \in Workers : pc[u] = "wk_in")
  /\ UNCHANGED <<where, is_active, posted, pc, cl, npc, todo>>

TimerPosts ==
  /\ held # NoOne
  /\ posted' = [posted EXCEPT ![held] = IF @ < TokenCap THEN @ + 1 ELSE @]
  /\ held' = NoOne
  /\ UNCHANGED <<where, is_active, p_queue, torn, pc, cl, npc, todo>>

-----------------------------------------------------------------------------
(* A player's packet: move, then scan, then wake the NPCs that are near    *)
(* and not active, one after the other.                                    *)

(* The upper edge is tested off by one.                                    *)
ClampPastEdge(v, n) == IF v < 0 THEN 0 ELSE IF v > n THEN n - 1 ELSE v

Clamp(v, n) == IF v < 0 THEN 0 ELSE IF v >= n THEN n - 1 ELSE v

DeltaX(m) == CASE m = "CS_LEFT" -> -1 [] m = "CS_RIGHT" -> 1 [] OTHER -> 0
DeltaZ(m) == CASE m = "CS_UP" -> -1 [] m = "CS_DOWN" -> 1 [] OTHER -> 0

Walk(o, m) ==
  /\ x' = [x EXCEPT ![o] = Clamp(@ + DeltaX(m), BoardWidth)]
  /\ z' = [z EXCEPT ![o] = Clamp(@ + DeltaZ(m), BoardHeight)]

(* One receive is outstanding for each connection, so one worker serves it. *)
Unserved(p) == \A t \in Workers : cl[t] # p

PkMove(t, p) ==
  /\ pc[t] = "gqcs" /\ is_connected[p] /\ Unserved(p)
  /\ \E m \in Moves : Walk(p, m)
  /\ cl' = [cl EXCEPT ![t] = p] /\ SendThenGoto(t, "pk_scan")
  /\ UNCHANGED <<is_connected, turn, is_active, tokens, npc, todo>>

PkScan(t) ==
  /\ pc[t] = "pk_scan"
  /\ todo' = [todo EXCEPT ![t] = {n \in NPCs : Is_InRange(cl[t], n)}]
  /\ Goto(t, "pk_wake")
  /\ UNCHANGED <<where, is_active, tokens, cl, npc>>

(* The loop over new_list goes up in order of the identifiers.             *)
WakeNext(t, n) ==
  /\ n \in todo[t] /\ \A k \in todo[t] : n <= k
  /\ todo' = [todo EXCEPT ![t] = @ \ {n}]
  /\ IF is_active[n] THEN UNCHANGED <<npc, pc>>
                     ELSE npc' = [npc EXCEPT ![t] = n] /\ Goto(t, "wk_set")
  /\ UNCHANGED <<is_active, cl>>

(* The rest of the handler sends to this player and to others.             *)
AllWoken(t) ==
  /\ todo[t] = {}
  /\ SendThenGoto(t, "gqcs")
  /\ cl' = [cl EXCEPT ![t] = IF pc'[t] = "hung" THEN @ ELSE NoOne]
  /\ npc' = [npc EXCEPT ![t] = NoOne]
  /\ UNCHANGED <<is_active, todo>>

PkWake(t) ==
  /\ pc[t] = "pk_wake"
  /\ AllWoken(t) \/ \E n \in NPCs : WakeNext(t, n)
  /\ UNCHANGED <<where, tokens>>

(* WakeUpNPC: another worker may have woken the NPC since the test.        *)
WkSet(t) ==
  /\ pc[t] = "wk_set"
  /\ is_active' = [is_active EXCEPT ![npc[t]] = TRUE] /\ Goto(t, "wk_push")
  /\ UNCHANGED <<where, tokens, cl, npc, todo>>

(* Its push: begun without the lock, ...                                   *)
WkEnter(t) ==
  /\ pc[t] = "wk_push"
  /\ Clash(t) /\ Goto(t, "wk_in")
  /\ UNCHANGED <<where, is_active, p_queue, held, posted, cl, npc, todo>>

(* The NPC is marked active and its token forgotten.                       *)
WkPushForgotten(t) ==
  /\ pc[t] = "wk_in"
  /\ Clash(t) /\ Goto(t, "pk_wake")
  /\ UNCHANGED <<where, is_active, p_queue, held, posted, cl, npc, todo>>

(* ... and ended.                                                          *)
WkPush(t) ==
  /\ pc[t] = "wk_in"
  /\ Clash(t) /\ Push(npc[t]) /\ Goto(t, "pk_wake")
  /\ UNCHANGED <<where, is_active, held, posted, cl, npc, todo>>

-----------------------------------------------------------------------------
(* do_move.                                                                *)

BtTake(t, n) ==
  /\ pc[t] = "gqcs" /\ posted[n] > 0
  /\ posted' = [posted EXCEPT ![n] = @ - 1]
  /\ npc' = [npc EXCEPT ![t] = n] /\ Goto(t, "bt_check")
  /\ UNCHANGED <<where, is_active, p_queue, held, torn, cl, todo>>

BtCheck(t) ==
  /\ pc[t] = "bt_check"
  /\ IF is_active[npc[t]]
       THEN Goto(t, "bt_test") /\ UNCHANGED npc
       ELSE Goto(t, "gqcs") /\ npc' = [npc EXCEPT ![t] = NoOne]
  /\ UNCHANGED <<where, is_active, tokens, cl, todo>>

(* rand() % 4, and a test of the edge on that side; then x++ or the like,   *)
(* which loads the coordinate again and stores it.  Nothing is locked: two *)
(* beats of one NPC may both pass the test, and one may overwrite what the *)
(* other has stored, so that the NPC leaves the board.                     *)
Sideways == {"CS_LEFT", "CS_RIGHT"}

EdgeLets(n, m) ==
  CASE m = "CS_RIGHT" -> x[n] < BoardWidth - 1
    [] m = "CS_LEFT"  -> x[n] > 0
    [] m = "CS_DOWN"  -> z[n] < BoardHeight - 1
    [] m = "CS_UP"    -> z[n] > 0

BtTest(t) ==
  /\ pc[t] = "bt_test"
  /\ \E m \in Moves :
       IF EdgeLets(npc[t], m)
         THEN turn' = [turn EXCEPT ![t].way = m] /\ Goto(t, "bt_load")
         ELSE UNCHANGED turn /\ Goto(t, "bt_look")
  /\ UNCHANGED <<x, z, is_connected, is_active, tokens, cl, npc, todo>>

BtLoad(t) ==
  /\ pc[t] = "bt_load"
  /\ turn' = [turn EXCEPT ![t].read = IF turn[t].way \in Sideways THEN x[npc[t]] ELSE z[npc[t]]]
  /\ Goto(t, "bt_store")
  /\ UNCHANGED <<x, z, is_connected, is_active, tokens, cl, npc, todo>>

(* Cells further off the board than Drift count as the last of them.       *)
AtMostDrift(v, n) ==
  IF v < -Drift THEN -Drift ELSE IF v >= n + Drift THEN n + Drift - 1 ELSE v

BtStore(t) ==
  /\ pc[t] = "bt_store"
  /\ IF turn[t].way \in Sideways
       THEN /\ x' = [x EXCEPT ![npc[t]] =
                       AtMostDrift(turn[t].read + DeltaX(turn[t].way), BoardWidth)]
            /\ UNCHANGED z
       ELSE /\ z' = [z EXCEPT ![npc[t]] =
                       AtMostDrift(turn[t].read + DeltaZ(turn[t].way), BoardHeight)]
            /\ UNCHANGED x
  /\ turn' = [turn EXCEPT ![t] = NoTurn]
  /\ Goto(t, "bt_look")
  /\ UNCHANGED <<is_connected, is_active, tokens, cl, npc, todo>>

(* new_list, and the packets to the players in it and in the old list.     *)
(* todo keeps player_exist: the NPC itself when there is a player, nothing *)
(* when there is none.                                                     *)
BtLook(t) ==
  /\ pc[t] = "bt_look"
  /\ todo' = [todo EXCEPT ![t] = IF Near(npc[t]) THEN {npc[t]} ELSE {}]
  /\ SendThenGoto(t, "bt_push")
  /\ UNCHANGED <<where, is_active, tokens, cl, npc>>

(* A beat that found nobody near pushes nothing.                           *)
BtPushNear(t) ==
  /\ pc[t] = "bt_push"
  /\ IF todo[t] # {} THEN Clash(t) /\ Push(npc[t]) ELSE UNCHANGED <<p_queue, torn>>
  /\ Goto(t, "bt_sleep")
  /\ UNCHANGED <<where, is_active, held, posted, cl, npc, todo>>

BtPush(t) ==
  /\ pc[t] = "bt_push"
  /\ Clash(t) /\ Push(npc[t]) /\ Goto(t, "bt_sleep")
  /\ UNCHANGED <<where, is_active, held, posted, cl, npc, todo>>

(* The NPC never goes to sleep.                                            *)
BtSleepForgotten(t) ==
  /\ pc[t] = "bt_sleep"
  /\ npc' = [npc EXCEPT ![t] = NoOne] /\ todo' = [todo EXCEPT ![t] = {}]
  /\ Goto(t, "gqcs")
  /\ UNCHANGED <<where, is_active, tokens, cl>>

BtSleep(t) ==
  /\ pc[t] = "bt_sleep"
  /\ is_active' = [is_active EXCEPT ![npc[t]] = @ /\ todo[t] # {}]
  /\ npc' = [npc EXCEPT ![t] = NoOne] /\ todo' = [todo EXCEPT ![t] = {}]
  /\ Goto(t, "gqcs")
  /\ UNCHANGED <<where, tokens, cl>>

-----------------------------------------------------------------------------
(* Sessions, as far as the tokens feel them.  accept_thread starts a       *)
(* player at the start cell and wakes no NPC.                              *)

Joins(p) ==
  /\ ~is_connected[p]
  /\ is_connected' = [is_connected EXCEPT ![p] = TRUE]
  /\ x' = [x EXCEPT ![p] = StartX] /\ z' = [z EXCEPT ![p] = StartZ]
  /\ UNCHANGED <<turn, is_active, tokens, pc, cl, npc, todo>>

Leaves(p) ==
  /\ is_connected[p] /\ Unserved(p)
  /\ is_connected' = [is_connected EXCEPT ![p] = FALSE]
  /\ UNCHANGED <<x, z, turn, is_active, tokens, pc, cl, npc, todo>>

BeatStep(t) ==
  \/ BtCheck(t) \/ BtTest(t) \/ BtLoad(t) \/ BtStore(t)
  \/ BtLook(t) \/ BtPush(t) \/ BtSleep(t)

PacketStep(t) ==
  PkScan(t) \/ PkWake(t) \/ WkSet(t) \/ WkEnter(t) \/ WkPush(t)

Timer == TimerPosts \/ \E n \in NPCs : TimerPops(n)

Next ==
  \/ \E t \in Workers :
       \/ BeatStep(t) \/ PacketStep(t)
       \/ (\E n \in NPCs : BtTake(t, n)) \/ (\E p \in Players : PkMove(t, p))
  \/ Timer
  \/ \E p \in Players : Joins(p) \/ Leaves(p)

Spec == Init /\ [][Next]_vars

(* The timer thread runs, and every worker that is in a handler goes on.   *)
(* The timer queue is ordered by time and the completion queue is first    *)
(* in, first out: a token is popped, and taken, as long as the timer       *)
(* thread and the workers keep coming back for the next one.               *)
Fairness ==
  /\ WF_vars(TimerPosts)
  /\ \A n \in NPCs : SF_vars(TimerPops(n)) /\ SF_vars(\E t \in Workers : BtTake(t, n))
  /\ \A t \in Workers : WF_vars(BeatStep(t) \/ PacketStep(t))

LiveSpec == Spec /\ Fairness

-----------------------------------------------------------------------------
Around(n) == -Drift .. n + Drift - 1

(* Every variable keeps its type; a player never leaves the board, although *)
(* an NPC may; and a worker in a beat or a wake-up has an NPC to work on.  *)
TypeOK ==
  /\ x \in [Objects -> Around(BoardWidth)] /\ z \in [Objects -> Around(BoardHeight)]
  /\ \A o \in Objects \ NPCs : x[o] \in Columns /\ z[o] \in Rows
  /\ is_connected \in [Players -> BOOLEAN] /\ is_active \in [NPCs -> BOOLEAN]
  /\ p_queue \in [NPCs -> 0 .. TokenCap] /\ posted \in [NPCs -> 0 .. TokenCap]
  /\ held \in NPCs \cup {NoOne} /\ torn \in BOOLEAN
  /\ pc \in [Workers -> Labels] /\ cl \in [Workers -> Players \cup {NoOne}]
  /\ npc \in [Workers -> NPCs \cup {NoOne}]
  /\ todo \in [Workers -> SUBSET NPCs]
  /\ turn \in [Workers -> [way : Moves \cup {"none"}, read : Int]]
  /\ \A t \in Workers : npc[t] = NoOne => pc[t] \in {"gqcs", "pk_scan", "pk_wake", "hung"}

(* A worker is about to push a token of n, or is lost on the way to it.    *)
WillPush(t, n) ==
  npc[t] = n /\ pc[t] \in {"wk_push", "wk_in", "bt_check", "bt_test", "bt_load",
                           "bt_store", "bt_look", "bt_push", "hung"}

(* An NPC that is marked active, and that no packet would therefore wake,  *)
(* has a token in one of the queues, in the timer thread's hand or about   *)
(* to be pushed: only a clash of two pushes can leave it active and        *)
(* frozen.                                                                 *)
ActiveHasToken == ~torn => \A n \in NPCs :
  is_active[n] => \/ p_queue[n] > 0 \/ held = n \/ posted[n] > 0
                  \/ \E t \in Workers : WillPush(t, n)

-----------------------------------------------------------------------------
NoFaults == ~torn /\ \A t \in Workers : pc[t] # "hung"

Scanning(p) == \E t \in Workers : pc[t] = "pk_scan" /\ cl[t] = p
Beating(n)  == \E t \in Workers : pc[t] = "bt_push" /\ npc[t] = n

Beside(p, n) == is_connected[p] /\ Is_InRange(p, n)

(* An NPC that again and again is beside a player about to scan, whoever   *)
(* that is each time, goes on beating, although a beat may put it to sleep *)
(* just after that player arrived.                                         *)
KeepsMoving == \A n \in NPCs :
  []NoFaults /\ []<>(\E p \in Players : Scanning(p) /\ Beside(p, n))
    => []<>Beating(n)

(* An NPC that stays alone goes to sleep, and its tokens run out, however  *)
(* many chains of beats had been started.                                  *)
FallsAsleep == \A n \in NPCs :
  []NoFaults /\ <>[](~Near(n)) =>
    <>[](~is_active[n] /\ p_queue[n] = 0 /\ posted[n] = 0)
=============================================================================
