------------------------------ MODULE ViewServer ------------------------------
(***************************************************************************)
(* The 2017Server game server: its worker threads, accept thread and timer *)
(* thread over the shared slots, and the connections it serves.  What the  *)
(* program is for is that every client sees the objects near it: its view  *)
(* list, and the display it builds from Put and Remove packets, agree with *)
(* the board.                                                              *)
(***************************************************************************)
EXTENDS Session

(* gclients is zeroed memory; InitializeServer frees the user slots, then  *)
(* InitializeNPC scatters the NPCs over the board.                         *)
Init ==
  /\ x \in [Objects -> Columns] /\ y \in [Objects -> Rows]
  /\ \A o \in Objects \ NPCs : x[o] = 0 /\ y[o] = 0
  /\ bConnected = [o \in Objects |-> FALSE]
  /\ bIsAlive = [o \in Objects |-> o \in NPCs]
  /\ bIsActive = [o \in Objects |-> FALSE]
  /\ view_list = [p \in Users |-> {}]
  /\ open = [p \in Users |-> FALSE]
  /\ peer = [p \in Users |-> "fin"]
  /\ recv = [p \in Users |-> 0]
  /\ lost = [p \in Users |-> 0]
  /\ aborted = [p \in Users |-> 0]
  /\ timer_queue = [o \in Objects |-> 0]
  /\ posted = [o \in Objects |-> 0]
  /\ shown = [p \in Users |-> {}]
  /\ pc = [t \in Threads |-> IF t = Acceptor THEN "accept" ELSE "gqcs"]
  /\ frame = [t \in Threads |-> NoFrame]
  /\ beat = [t \in Threads |-> NoBeat]

ThreadStep(t) ==
  \/ t \in Workers /\ WorkerStep(t)
  \/ t = Acceptor /\ AcceptStep(t)
  \/ HeartBeatStep(t)

EnvironmentStep ==
  \/ \E n \in Objects : TimerFires(n)
  \/ \E p \in Users : PeerFin(p) \/ PeerReset(p)

Next == (\E t \in Threads : ThreadStep(t)) \/ EnvironmentStep

Spec == Init /\ [][Next]_vars

-----------------------------------------------------------------------------
(* Schedules.  A handler runs from the completion or the connection it     *)
(* takes to its thread's next wait, or until the thread hangs in           *)
(* error_display.  SerialSpec starts a handler only when no other runs; it *)
(* shows what the view-list algorithm computes by itself.  WorkersSpec     *)
(* lets the workers overlap one another but not the accept thread.  Every  *)
(* behaviour of either is a behaviour of Spec.                             *)

Running(t) == pc[t] \notin {"gqcs", "accept", "hung"}
Starts(t)  == ~Running(t) /\ Running(t)'

SerialNext ==
  \/ \E t \in Threads :
       ThreadStep(t) /\ (Starts(t) => \A u \in Threads : ~Running(u))
  \/ EnvironmentStep

WorkersNext ==
  \/ \E t \in Workers  : ThreadStep(t) /\ (Starts(t) => ~Running(Acceptor))
  \/ ThreadStep(Acceptor) /\ (Starts(Acceptor) => \A u \in Workers : ~Running(u))
  \/ EnvironmentStep

SerialSpec  == Init /\ [][SerialNext]_vars
WorkersSpec == Init /\ [][WorkersNext]_vars

(* The operating system lets every thread that is inside a handler go on.  *)
(* Nothing is assumed of the clients or of the timer.                      *)
Fairness == \A t \in Threads : WF_vars(Running(t) /\ ThreadStep(t))

LiveSpec        == Spec /\ Fairness
LiveWorkersSpec == WorkersSpec /\ Fairness

-----------------------------------------------------------------------------
(* Invariants.                                                             *)

FrameType ==
  [cl : Users, left : 0 .. RecvPackets, idx : 0 .. NumOfNpc, seen : SUBSET Objects,
   ovl : SUBSET Objects, todo : SUBSET Objects, id : Objects, again : BOOLEAN]

BeatType ==
  [npc : Objects, dir : Directions, tmp : Int, pi : 0 .. MaxUser,
   back : {"gqcs", "pp_unsee", "ac_see"}]

SharedType ==
  /\ x \in [Objects -> Int] /\ y \in [Objects -> Int]
  /\ bConnected \in [Objects -> BOOLEAN]
  /\ bIsAlive \in [Objects -> BOOLEAN] /\ bIsActive \in [Objects -> BOOLEAN]
  /\ view_list \in [Users -> SUBSET Objects] /\ shown \in [Users -> SUBSET Objects]
  /\ open \in [Users -> BOOLEAN] /\ peer \in [Users -> {"up", "fin", "rst"}]
  /\ recv \in [Users -> Nat] /\ lost \in [Users -> Nat] /\ aborted \in [Users -> Nat]
  /\ timer_queue \in [Objects -> 0 .. QueueCap] /\ posted \in [Objects -> 0 .. QueueCap]

CodeOf(t) ==
  BeatLabels \cup {"hung"} \cup (IF t = Acceptor THEN AcceptLabels ELSE WorkerLabels)

(* Every variable, shared or local to a thread, keeps its type, and every  *)
(* thread runs only the code of its own thread function.                   *)
TypeOK ==
  /\ SharedType
  /\ frame \in [Threads -> FrameType] /\ beat \in [Threads -> BeatType]
  /\ pc \in [Threads -> UNION {CodeOf(t) : t \in Threads}]
  /\ \A t \in Threads : pc[t] \in CodeOf(t)

(* A worker serves p from the receive it took to the re-armed receive, or  *)
(* to the moment DisconnectClient gives the slot away.                     *)
Serving(w, p) ==
  /\ frame[w].cl = p
  /\ \/ pc[w] \in {"parse", "rearm", "dc_close", "dc_free"} \cup PacketLabels
     \/ pc[w] \in BeatLabels /\ beat[w].back = "pp_unsee"

(* A connection has one owner: the posted receive, or the one worker that  *)
(* took it.  So prev_recv_size, curr_packet_size, packet_buf and the       *)
(* client's coordinates, which no lock guards, are never used by two       *)
(* threads at once, and the owner's slot is still the client's own.        *)
OneOwner == \A p \in Users :
  /\ recv[p] <= 1
  /\ \A w \in Workers : Serving(w, p) =>
       /\ recv[p] = 0 /\ bConnected[p]
       /\ pc[w] # "dc_free" => open[p]
       /\ \A v \in Workers : Serving(v, p) => v = w

(* While connections end in good order, no thread is ever caught in        *)
(* error_display: every WSARecv finds its socket open, and no receive is   *)
(* aborted by closesocket.                                                 *)
NoThreadHangs == \A t \in Threads : pc[t] # "hung"

(* The slots that serve players and are no NPC's: those below NPC_START.   *)
Players == Users \ NPCs

Beating(n) == \E t \in Threads : pc[t] \in BeatLabels /\ beat[t].npc = n

Busy(p) == \E t \in Threads :
  /\ frame[t].cl = p /\ ~Idle(t)
  /\ ~(pc[t] \in BeatLabels /\ beat[t].back = "gqcs")

(* When a living NPC's presence in a client's view list disagrees with     *)
(* where it stands, and nobody is working on either, another beat of that  *)
(* NPC is already in the timer or completion queue.  Scans, stale merges   *)
(* and beats may interleave in any order and never strand the pair.  It is *)
(* said of players and of NPCs whose slot is not also the other's, as the  *)
(* slots from NPC_START to MAX_USER are: there a beat moves and kills a    *)
(* player, and a player's packets move an NPC without a beat.              *)
NpcSightSettles == \A p \in Players, n \in NPCs \ Users :
  (/\ bConnected[p] /\ ~Busy(p) /\ ~Beating(n) /\ bIsAlive[n]
   /\ (n \in view_list[p]) # IsNear(p, n))
  => timer_queue[n] + posted[n] > 0

(* No handler is under way.  A worker may be lost to error_display; an     *)
(* accept thread lost there leaves a half-made client behind.              *)
Quiescent == \A t \in Threads : Idle(t) \/ (t \in Workers /\ pc[t] = "hung")

(* Between handlers that do not overlap, a client's view list holds        *)
(* exactly the other connected clients near it: sight is mutual, and no    *)
(* client that left lingers.  It is said of the players in slots that are  *)
(* not also an NPC's: a beat there moves the player and corrects the other *)
(* players' lists, but not the player's own.                               *)
ViewsMatchBoard == Quiescent => \A p, q \in Players :
  bConnected[p] /\ p # q => (q \in view_list[p] <=> bConnected[q] /\ IsNear(p, q))

(* Between handlers that do not overlap, what a client displays is what    *)
(* its view list records, NPCs included.                                   *)
DisplayMatchesViews == Quiescent => \A p \in Users :
  bConnected[p] => shown[p] \ {p} = view_list[p] \ {p}

-----------------------------------------------------------------------------
(* Action properties.                                                      *)

(* While connections end in good order, a slot is freed only after its own *)
(* remote end has closed: no live client is ever thrown out.               *)
DroppedOnlyWhenGone ==
  [][\A p \in Users : bConnected[p] /\ ~bConnected'[p] => peer[p] # "up"]_vars

-----------------------------------------------------------------------------
(* Liveness.                                                               *)

Merging(p) == \E w \in Workers : pc[w] = "pp_merge" /\ frame[w].cl = p

Sees(p, o)     == bIsAlive[o] /\ IsNear(p, o)
Together(p, q) == bConnected[p] /\ bConnected[q] /\ Sees(p, q) /\ Sees(q, p)
Apart(p, q)    == bConnected[p] /\ bConnected[q] /\ ~IsNear(p, q)
Gone(p, q)     == bConnected[p] /\ ~bConnected[q]

(* However handlers overlap, a client that keeps sending moves comes to    *)
(* have in its view list, for good, every living client that stays near.   *)
ComesToSee == \A p, q \in Users :
  p # q /\ []<>Merging(p) /\ <>[]Together(p, q) => <>[](q \in view_list[p])

(* However handlers overlap, a client that keeps sending moves loses from  *)
(* its view list, for good, every client that stays away or has left.      *)
LosesSight == \A p, q \in Users :
  p # q /\ []<>Merging(p) /\ (<>[]Apart(p, q) \/ <>[]Gone(p, q))
  => <>[](q \notin view_list[p])

-----------------------------------------------------------------------------
(* Refinement: each slot lives the life SlotLife describes.                *)

Joining(p) ==
  /\ frame[Acceptor].cl = p
  /\ pc[Acceptor] \in {"ac_clear", "ac_open", "ac_connect", "ac_live", "ac_recv"}

Leaving(w, p) == Serving(w, p) /\ pc[w] \in {"dc_close", "dc_free"}

SlotStage == [p \in Users |->
  CASE Joining(p)                         -> "joining"
    [] recv[p] > 0                        -> "waiting"
    [] \E w \in Workers : Leaving(w, p)   -> "leaving"
    [] \E w \in Workers : Serving(w, p) /\ ~Leaving(w, p) -> "serving"
    [] OTHER                              -> "free"]

Life == INSTANCE SlotLife WITH Slots <- Users, stage <- SlotStage

(* While connections end in good order, every slot is passed from owner to *)
(* owner as SlotLife says, however the handlers overlap.                   *)
SlotsLiveOrderly == Life!SlSpec

-----------------------------------------------------------------------------
(* What comments in the source say, and the code does not keep.            *)

(* "보이다가 보이지 않게된 객체 처리 : 시야리스트에 존재했던 객체": the objects  *)
(* a client saw and no longer sees are those of its view list.  So all it  *)
(* displays must be in the list, or it could never be taken off.           *)
DisplayedIsListed == Quiescent => \A p, q \in Users :
  bConnected[p] /\ p # q /\ q \in shown[p] => q \in view_list[p]
=============================================================================
