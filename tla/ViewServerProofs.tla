--------------------------- MODULE ViewServerProofs ---------------------------
(***************************************************************************)
(* Theorems about ViewServer, for every number of users, NPCs and workers, *)
(* every board and every bound.                                            *)
(***************************************************************************)
EXTENDS ViewServer, TLAPS

(* There is a player slot, and every player slot is a slot.                *)
LEMMA UsersAreObjects == 0 \in Users /\ Users \subseteq Objects
  BY SlotsAssumption DEF Users, Objects

(* IsNear does not depend on who looks at whom: sight is mutual.           *)
THEOREM SightIsMutual ==
  ASSUME NEW dx \in Int, NEW dy \in Int
  PROVE  Within(dx, dy) <=> Within(-dx, -dy)
<1>1. Square(-dx) = Square(dx) /\ Square(-dy) = Square(dy)
  BY DEF Square
<1> QED
  BY <1>1 DEF Within

(* A player's packet leaves a player that is on the board on the board:    *)
(* the guards of ProcessPacket's switch are the board's edges.             *)
THEOREM MovesStayOnBoard ==
  ASSUME NEW m \in Moves, NEW px \in Columns, NEW py \in Rows
  PROVE  MoveX(m, px) \in Columns /\ MoveY(m, py) \in Rows
  BY BoardAssumption DEF Moves, MoveX, MoveY, Columns, Rows

(* A move changes one coordinate, by one cell at most.                     *)
LEMMA MoveType ==
  ASSUME NEW m \in Moves, NEW px \in Int, NEW py \in Int
  PROVE  MoveX(m, px) \in Int /\ MoveY(m, py) \in Int
  BY BoardAssumption DEF Moves, MoveX, MoveY

LEMMA ClampType ==
  ASSUME NEW dir \in Directions, NEW px \in Int, NEW py \in Int
  PROVE  ClampX(dir, px, py) \in Int /\ ClampY(dir, py) \in Int
  BY BoardAssumption DEF Directions, ClampX, ClampY

-----------------------------------------------------------------------------
(* TypeOK is not inductive by itself: what a step adds to an index or      *)
(* stores through one depends on where the thread is.                      *)
PlaceOK(t) ==
  /\ pc[t] = "dc_remove" => frame[t].idx < MaxUser
  /\ pc[t] \in {"ac_see", "ac_peer", "ac_peer_put"} => frame[t].idx < NumOfNpc
  /\ pc[t] \in {"hb_near", "hb_far", "hb_put", "hb_remove"} => beat[t].pi < MaxUser
  /\ pc[t] \in BeatLabels =>
       IF t = Acceptor THEN beat[t].back = "ac_see" /\ frame[t].idx < NumOfNpc
                       ELSE beat[t].back \in {"gqcs", "pp_unsee"}

LocalInv(t) ==
  frame[t] \in FrameType /\ beat[t] \in BeatType /\ pc[t] \in CodeOf(t) /\ PlaceOK(t)

Functional ==
  pc = [t \in Threads |-> pc[t]] /\ frame = [t \in Threads |-> frame[t]]
  /\ beat = [t \in Threads |-> beat[t]]

TypeInv == SharedType /\ Functional /\ \A t \in Threads : LocalInv(t)

-----------------------------------------------------------------------------
(* A thread's step touches no other thread's locals.                       *)

OnlySelf(t) ==
  /\ pc' = [pc EXCEPT ![t] = pc'[t]]
  /\ frame' = [frame EXCEPT ![t] = frame'[t]]
  /\ beat' = [beat EXCEPT ![t] = beat'[t]]

LEMMA LocalStep ==
  ASSUME TypeInv, NEW t \in Threads, OnlySelf(t), SharedType', LocalInv(t)'
  PROVE  TypeInv'
<1>1. Functional'
  BY DEF TypeInv, Functional, OnlySelf
<1>2. ASSUME NEW u \in Threads  PROVE LocalInv(u)'
  <2>1. CASE u # t
    <3>1. pc'[u] = pc[u] /\ frame'[u] = frame[u] /\ beat'[u] = beat[u]
      BY <2>1 DEF TypeInv, Functional, OnlySelf
    <3> QED
      BY <3>1 DEF TypeInv, LocalInv, PlaceOK
  <2> QED
    BY <2>1
<1> QED
  BY <1>1, <1>2 DEF TypeInv

LEMMA HeartBeatLocal ==
  ASSUME TypeInv, NEW t \in Threads, HeartBeatStep(t)
  PROVE  OnlySelf(t)
<1> USE DEF TypeInv, Functional, OnlySelf, Goto, NextUser, HbReturn
<1> QED
  BY DEF HeartBeatStep, HbLoad, HbStore, HbClamp, HbView, HbNear, HbFar, HbPut, HbRemove, HbAlive, HbRevive, HbPush

LEMMA PacketLocal ==
  ASSUME TypeInv, NEW t \in Threads, PacketStep(t)
  PROVE  OnlySelf(t)
  BY DEF TypeInv, Functional, OnlySelf, Goto, WakeUpNPC, EnterHeartBeat,
         PacketStep, PpMove, PpScan, PpCopy, PpEach, PpPut, PpPeer, PpPeerPut, PpOld, PpRemove, PpUnsee, PpPeerRemove, PpMerge

LEMMA WorkerLocal ==
  ASSUME TypeInv, NEW t \in Threads, WorkerStep(t)
  PROVE  OnlySelf(t)
  BY PacketLocal DEF TypeInv, Functional, OnlySelf, Goto, StartFrame, EnterHeartBeat,
         WorkerStep, RecvData, RecvEof, LostCompletion, AbortedCompletion, DoAi, Parse, Rearm, DcClose, DcFree, DcDead, DcScan, DcRemove, DcReturn

LEMMA AcceptLocal ==
  ASSUME TypeInv, NEW t \in Threads, AcceptStep(t)
  PROVE  OnlySelf(t)
  BY DEF TypeInv, Functional, OnlySelf, Goto, StartFrame, WakeUpNPC, EnterHeartBeat, NextSlot,
         AcceptStep, Accept, AcClear, AcOpen, AcConnect, AcLive, AcRecv, AcSelf, AcScan, AcSee, AcPeer, AcPeerPut, AcMerge

-----------------------------------------------------------------------------
(* A step keeps the types of what is shared, and of the thread's locals.   *)

LEMMA HeartBeatShared ==
  ASSUME TypeInv, NEW t \in Threads, HeartBeatStep(t)
  PROVE  SharedType'
<1>1. beat[t] \in BeatType /\ SharedType
  BY DEF TypeInv, LocalInv
<1> USE <1>1 DEF SharedType, board, slots, net, ai
<1>2. CASE HbStore(t)
  BY <1>2 DEF HbStore, BeatType, StepOf
<1>3. CASE HbClamp(t)
  BY <1>3, ClampType DEF HbClamp, BeatType
<1>4. CASE HbLoad(t) \/ HbView(t)
  BY <1>4 DEF HbLoad, HbView
<1>5. CASE HbNear(t) \/ HbFar(t)
  BY <1>5 DEF HbNear, HbFar, See, Unsee, HbNpc, BeatType
<1>6. CASE HbPut(t) \/ HbRemove(t)
  BY <1>6 DEF HbPut, HbRemove, SendPutPlayerPacket, SendRemovePlayerPacket, HbNpc, BeatType
<1>7. CASE HbAlive(t) \/ HbRevive(t)
  BY <1>7 DEF HbAlive, HbRevive
<1>8. CASE HbPush(t)
  BY <1>8, BoundsAssumption DEF HbPush, Capped, HbNpc, BeatType
<1> QED
  BY <1>2, <1>3, <1>4, <1>5, <1>6, <1>7, <1>8 DEF HeartBeatStep

LEMMA HeartBeatLocals ==
  ASSUME TypeInv, NEW t \in Threads, HeartBeatStep(t)
  PROVE  LocalInv(t)'
<1>1. frame[t] \in FrameType /\ beat[t] \in BeatType /\ PlaceOK(t) /\ Functional
  BY DEF TypeInv, LocalInv
<1> USE <1>1, SlotsAssumption
    DEF LocalInv, BeatType, PlaceOK, CodeOf, BeatLabels, Goto, HbNpc, NextUser, Functional
<1>2. CASE HbLoad(t)
  BY <1>2 DEF HbLoad, SharedType, TypeInv, AxisIsX
<1>3. CASE HbStore(t) \/ HbRevive(t)
  BY <1>3 DEF HbStore, HbRevive
<1>4. CASE HbClamp(t)
  BY <1>4 DEF HbClamp, Directions
<1>5. CASE HbView(t)
  BY <1>5 DEF HbView
<1>6. CASE HbNear(t)
  BY <1>6 DEF HbNear
<1>7. CASE HbFar(t)
  BY <1>7 DEF HbFar
<1>8. CASE HbPut(t) \/ HbRemove(t)
  BY <1>8 DEF HbPut, HbRemove
<1>9. ASSUME HbReturn(t), pc[t] \in BeatLabels, frame' = frame
      PROVE  LocalInv(t)'
  BY <1>9, UsersAreObjects DEF HbReturn, NoBeat, Directions, WorkerLabels, PacketLabels, AcceptLabels
<1>10. CASE HbAlive(t)
  BY <1>9, <1>10 DEF HbAlive
<1>11. CASE HbPush(t)
  BY <1>9, <1>11 DEF HbPush
<1> QED
  BY <1>2, <1>3, <1>4, <1>5, <1>6, <1>7, <1>8, <1>10, <1>11 DEF HeartBeatStep

(* The records ProcessPacket and the others keep in `frame`.               *)
LEMMA FrameFields ==
  ASSUME NEW f \in FrameType
  PROVE  /\ f.cl \in Users /\ f.left \in 0 .. RecvPackets /\ f.idx \in 0 .. NumOfNpc
         /\ f.seen \in SUBSET Objects /\ f.ovl \in SUBSET Objects
         /\ f.todo \in SUBSET Objects /\ f.id \in Objects /\ f.again \in BOOLEAN
  BY DEF FrameType

LEMMA NoFrameType == NoFrame \in FrameType
  BY UsersAreObjects, SlotsAssumption, BoundsAssumption DEF NoFrame, FrameType

LEMMA NoBeatType == NoBeat \in BeatType
  BY UsersAreObjects, SlotsAssumption DEF NoBeat, BeatType, Directions

LEMMA PacketShared ==
  ASSUME TypeInv, NEW t \in Threads, PacketStep(t)
  PROVE  SharedType'
<1>1. /\ frame[t].cl \in Users /\ frame[t].id \in Objects /\ frame[t].cl \in Objects
      /\ frame[t].ovl \in SUBSET Objects
  BY FrameFields, UsersAreObjects DEF TypeInv, LocalInv
<1>2. SharedType
  BY DEF TypeInv
<1> USE <1>1, <1>2 DEF SharedType, board, slots, net, ai, Cl
<1>3. CASE PpMove(t)
  BY <1>3, MoveType DEF PpMove
<1>4. CASE PpScan(t) \/ PpCopy(t) \/ PpEach(t) \/ PpOld(t)
  BY <1>4 DEF PpScan, PpCopy, PpEach, PpOld
<1>5. CASE PpPut(t) \/ PpPeerPut(t)
  BY <1>5 DEF PpPut, PpPeerPut, SendPutPlayerPacket
<1>6. CASE PpRemove(t) \/ PpPeerRemove(t)
  BY <1>6 DEF PpRemove, PpPeerRemove, SendRemovePlayerPacket
<1>7. CASE PpPeer(t) \/ PpUnsee(t)
  BY <1>7 DEF PpPeer, PpUnsee, See, Unsee
<1>8. CASE PpMerge(t)
  BY <1>8 DEF PpMerge
<1> QED
  BY <1>3, <1>4, <1>5, <1>6, <1>7, <1>8 DEF PacketStep

(* The client's own view list, and what it copies, are sets of objects.    *)
LEMMA PacketFrame ==
  ASSUME TypeInv, NEW t \in Threads, PacketStep(t)
  PROVE  frame'[t] \in FrameType
<1>1. frame[t] \in FrameType /\ Functional
  BY DEF TypeInv, LocalInv
<1> USE <1>1 DEF Functional, Cl
<1>2. CASE frame' = frame
  BY <1>2
<1>3. CASE PpScan(t)
  BY <1>3, SlotsAssumption DEF PpScan, FrameType, Objects
<1>4. CASE PpCopy(t)
  <2>1. view_list[frame[t].cl] \in SUBSET Objects
    BY FrameFields DEF TypeInv, SharedType
  <2> QED
    BY <1>4, <2>1 DEF PpCopy, FrameType
<1>5. CASE PpEach(t)
  <2>1. CASE frame' = [frame EXCEPT ![t].todo = frame[t].ovl \ frame[t].seen]
    BY <2>1 DEF FrameType
  <2>2. ASSUME NEW o \in frame[t].todo,
               frame' = [frame EXCEPT ![t].todo = @ \ {o}, ![t].id = o,
                                      ![t].ovl = @ \cup {o}]
        PROVE  frame'[t] \in FrameType
    <3>1. frame'[t] = [frame[t] EXCEPT !.todo = frame[t].todo \ {o}, !.id = o,
                                       !.ovl = frame[t].ovl \cup {o}]
      BY <2>2
    <3>2. /\ o \in Objects /\ frame[t].todo \ {o} \in SUBSET Objects
          /\ frame[t].ovl \cup {o} \in SUBSET Objects
      BY <2>2, FrameFields
    <3> QED
      BY <3>1, <3>2 DEF FrameType
  <2> QED
    BY <1>5, <2>1, <2>2 DEF PpEach
<1>6. CASE PpOld(t)
  <2>1. ASSUME NEW o \in frame[t].todo,
               frame' = [frame EXCEPT ![t].todo = @ \ {o}, ![t].id = o]
        PROVE  frame'[t] \in FrameType
    <3>1. frame'[t] = [frame[t] EXCEPT !.todo = frame[t].todo \ {o}, !.id = o]
      BY <2>1
    <3>2. o \in Objects /\ frame[t].todo \ {o} \in SUBSET Objects
      BY <2>1, FrameFields
    <3> QED
      BY <3>1, <3>2 DEF FrameType
  <2> QED
    BY <1>2, <1>6, <2>1 DEF PpOld
<1>7. CASE PpMerge(t)
  <2>1. frame'[t] = [NoFrame EXCEPT !.cl = frame[t].cl, !.left = frame[t].left]
    BY <1>7 DEF PpMerge
  <2> QED
    BY <2>1, NoFrameType, FrameFields DEF FrameType
<1> QED
  BY <1>2, <1>3, <1>4, <1>5, <1>6, <1>7
  DEF PacketStep, PpMove, PpPut, PpPeer, PpPeerPut, PpRemove, PpUnsee, PpPeerRemove

LEMMA PacketLocals ==
  ASSUME TypeInv, NEW t \in Workers, PacketStep(t)
  PROVE  LocalInv(t)'
<1>1. beat[t] \in BeatType /\ t # Acceptor /\ t \in Threads /\ Functional
  BY ThreadsAssumption DEF TypeInv, LocalInv, Threads
<1>2. frame'[t] \in FrameType
  BY <1>1, PacketFrame
<1> USE <1>1, <1>2 DEF LocalInv, PlaceOK, CodeOf, WorkerLabels, PacketLabels, BeatLabels,
        Goto, Functional
<1>3. CASE PpRemove(t) /\ Goto(t, "pp_unsee") /\ beat' = beat
  BY <1>3 DEF PpRemove
<1>4. CASE PpRemove(t) /\ EnterHeartBeat(t, frame[t].id, "pp_unsee")
  <2>1. beat'[t] = [NoBeat EXCEPT !.npc = frame[t].id, !.back = "pp_unsee"]
    BY <1>4 DEF EnterHeartBeat
  <2>2. frame[t].id \in Objects
    BY FrameFields DEF TypeInv
  <2>3. beat'[t] \in BeatType
    BY <2>1, <2>2, NoBeatType DEF BeatType
  <2>4. beat'[t].back = "pp_unsee"
    BY <2>1 DEF NoBeat
  <2>5. pc'[t] = "hb_load"
    BY <1>4 DEF EnterHeartBeat
  <2> QED
    BY <2>3, <2>4, <2>5
<1>5. CASE ~PpRemove(t)
  BY <1>5 DEF PacketStep, PpMove, PpScan, PpCopy, PpEach, PpPut, PpPeer, PpPeerPut,
              PpOld, PpUnsee, PpPeerRemove, PpMerge
<1> QED
  BY <1>3, <1>4, <1>5 DEF PpRemove, WakeUpNPC

LEMMA WorkerShared ==
  ASSUME TypeInv, NEW t \in Threads, WorkerStep(t)
  PROVE  SharedType'
<1>1. /\ frame[t].cl \in Users /\ frame[t].cl \in Objects /\ frame[t].idx \in Nat
      /\ SharedType
  BY FrameFields, UsersAreObjects, SlotsAssumption DEF TypeInv, LocalInv
<1> USE <1>1 DEF SharedType, board, slots, net, ai, Cl
<1>2. ASSUME NEW p \in Users, recv[p] > 0, recv' = [recv EXCEPT ![p] = @ - 1],
             UNCHANGED <<board, slots, view_list, open, peer, lost, aborted, ai, shown>>
      PROVE  SharedType'
  BY <1>2
<1>3. ASSUME NEW p \in Users, RecvData(t, p) \/ RecvEof(t, p)  PROVE SharedType'
  BY <1>2, <1>3 DEF RecvData, RecvEof
<1>4. ASSUME NEW p \in Users, LostCompletion(t, p) \/ AbortedCompletion(t, p)
      PROVE  SharedType'
  BY <1>4 DEF LostCompletion, AbortedCompletion
<1>5. ASSUME NEW n \in Objects, DoAi(t, n)  PROVE SharedType'
  BY <1>5, BoundsAssumption DEF DoAi
<1>6. CASE Parse(t) \/ Rearm(t)
  BY <1>6 DEF Parse, Rearm
<1>7. CASE DcClose(t)
  BY <1>7, BoundsAssumption DEF DcClose, Capped
<1>8. CASE DcFree(t)
  BY <1>8 DEF DcFree
<1>9. CASE DcDead(t)
  BY <1>9 DEF DcDead
<1>10. CASE DcScan(t)
  BY <1>10 DEF DcScan, Unsee
<1>11. CASE DcRemove(t)
  BY <1>11 DEF DcRemove, SendRemovePlayerPacket
<1> QED
  BY <1>3, <1>4, <1>5, <1>6, <1>7, <1>8, <1>9, <1>10, <1>11, PacketShared DEF WorkerStep

LEMMA WorkerFrame ==
  ASSUME TypeInv, NEW t \in Workers, WorkerStep(t)
  PROVE  frame'[t] \in FrameType
<1>1. t \in Threads /\ Functional /\ frame[t] \in FrameType /\ frame[t].cl \in Users
      /\ PlaceOK(t)
  BY FrameFields DEF TypeInv, LocalInv, Threads
<1> USE <1>1 DEF Functional, StartFrame
<1>2. ASSUME NEW p \in Users, RecvData(t, p)  PROVE frame'[t] \in FrameType
  <2>1. PICK n \in 0 .. RecvPackets : frame'[t] = [NoFrame EXCEPT !.cl = p, !.left = n]
    BY <1>2 DEF RecvData
  <2> QED
    BY <2>1, NoFrameType DEF FrameType
<1>3. ASSUME NEW p \in Users, frame'[t] = [NoFrame EXCEPT !.cl = p]
      PROVE  frame'[t] \in FrameType
  BY <1>3, NoFrameType DEF FrameType
<1>4. ASSUME NEW p \in Users, RecvEof(t, p)  PROVE frame'[t] \in FrameType
  <2>1. frame'[t] = [NoFrame EXCEPT !.cl = p]
    BY <1>4 DEF RecvEof
  <2> QED
    BY <1>3, <2>1
<1>5. ASSUME NEW p \in Users, LostCompletion(t, p)  PROVE frame'[t] \in FrameType
  <2>1. frame'[t] = [NoFrame EXCEPT !.cl = p, !.again = TRUE]
    BY <1>5 DEF LostCompletion
  <2> QED
    BY <2>1, NoFrameType DEF FrameType
<1>6. CASE Parse(t) /\ frame[t].left > 0
  <2>1. frame'[t] = [frame[t] EXCEPT !.left = @ - 1]
    BY <1>6 DEF Parse
  <2> QED
    BY <1>6, <2>1, BoundsAssumption DEF FrameType
<1>7. CASE Rearm(t)
  BY <1>7, NoFrameType DEF Rearm
<1>8. ASSUME frame' = [frame EXCEPT ![t].idx = @ + 1], frame[t].idx < MaxUser
      PROVE  frame'[t] \in FrameType
  <2>1. frame'[t] = [frame[t] EXCEPT !.idx = @ + 1]
    BY <1>8
  <2> QED
    BY <1>8, <2>1, SlotsAssumption DEF FrameType
<1>9. CASE DcReturn(t)
  <2>1. frame'[t] = [NoFrame EXCEPT !.cl = frame[t].cl] \/ frame'[t] = NoFrame
    BY <1>9 DEF DcReturn, Cl
  <2> QED
    BY <1>3, <2>1, NoFrameType
<1>10. CASE DcScan(t)
  BY <1>8, <1>9, <1>10 DEF DcScan
<1>11. CASE DcRemove(t)
  BY <1>8, <1>11 DEF DcRemove, PlaceOK
<1>12. CASE frame' = frame
  BY <1>12
<1> QED
  BY <1>2, <1>4, <1>5, <1>6, <1>7, <1>10, <1>11, <1>12, PacketFrame
  DEF WorkerStep, AbortedCompletion, DoAi, Parse, DcClose, DcFree, DcDead

LEMMA WorkerLocals ==
  ASSUME TypeInv, NEW t \in Workers, WorkerStep(t)
  PROVE  LocalInv(t)'
<1>1. beat[t] \in BeatType /\ t # Acceptor /\ t \in Threads /\ Functional
  BY ThreadsAssumption DEF TypeInv, LocalInv, Threads
<1>2. frame'[t] \in FrameType
  BY WorkerFrame
<1> USE <1>1, <1>2 DEF LocalInv, PlaceOK, CodeOf, WorkerLabels, CloseLabels, BeatLabels,
        Goto, Functional
<1>3. ASSUME NEW p \in Users, RecvData(t, p) \/ RecvEof(t, p) \/ LostCompletion(t, p)
                              \/ AbortedCompletion(t, p)
      PROVE  LocalInv(t)'
  BY <1>3 DEF RecvData, RecvEof, LostCompletion, AbortedCompletion
<1>4. ASSUME NEW n \in Objects, DoAi(t, n)  PROVE LocalInv(t)'
  <2>1. beat'[t] = [NoBeat EXCEPT !.npc = n, !.back = "gqcs"]
    BY <1>4 DEF DoAi, EnterHeartBeat
  <2>2. beat'[t] \in BeatType
    BY <2>1, NoBeatType DEF BeatType
  <2>3. beat'[t].back = "gqcs"
    BY <2>1 DEF NoBeat
  <2>4. pc'[t] = "hb_load"
    BY <1>4 DEF DoAi, EnterHeartBeat
  <2> QED
    BY <2>2, <2>3, <2>4
<1>5. CASE Parse(t) \/ Rearm(t)
  BY <1>5 DEF Parse, Rearm, PacketLabels
<1>6. CASE DcClose(t) \/ DcFree(t) \/ DcDead(t) \/ DcRemove(t)
  BY <1>6 DEF DcClose, DcFree, DcDead, DcRemove
<1>7. CASE DcScan(t)
  <2>1. beat' = beat /\ pc'[t] \in {"gqcs", "dc_close", "dc_scan", "dc_remove"}
    BY <1>7 DEF DcScan, DcReturn
  <2>2. pc'[t] = "dc_remove" => frame'[t].idx < MaxUser
    BY <1>7 DEF DcScan, DcReturn
  <2> QED
    BY <2>1, <2>2
<1> QED
  BY <1>3, <1>4, <1>5, <1>6, <1>7, PacketLocals DEF WorkerStep

LEMMA AcceptShared ==
  ASSUME TypeInv, NEW t \in Threads, AcceptStep(t)
  PROVE  SharedType'
<1>1. /\ frame[t].cl \in Users /\ frame[t].cl \in Objects /\ frame[t].idx \in Nat
      /\ frame[t].seen \in SUBSET Objects /\ SharedType /\ PlaceOK(t)
  BY FrameFields, UsersAreObjects, SlotsAssumption DEF TypeInv, LocalInv
<1> USE <1>1 DEF SharedType, board, slots, net, ai, Cl
<1>2. ASSUME NEW p \in Users, Accept(t, p)  PROVE SharedType'
  BY <1>2 DEF Accept
<1>3. CASE AcClear(t)
  BY <1>3 DEF AcClear
<1>4. CASE AcOpen(t)
  BY <1>4 DEF AcOpen
<1>5. CASE AcConnect(t)
  BY <1>5 DEF AcConnect
<1>6. CASE AcLive(t)
  BY <1>6 DEF AcLive
<1>7. CASE AcRecv(t)
  BY <1>7 DEF AcRecv
<1>8. CASE AcSelf(t)
  BY <1>8 DEF AcSelf, SendPutPlayerPacket
<1>9. CASE AcScan(t)
  BY <1>9 DEF AcScan
<1>10. CASE AcSee(t)
  <2>1. frame[t].idx \in Objects
    BY <1>10, SlotsAssumption DEF AcSee, PlaceOK, Objects
  <2> QED
    BY <1>10, <2>1 DEF AcSee, SendPutPlayerPacket
<1>11. CASE AcPeer(t)
  BY <1>11 DEF AcPeer, See
<1>12. CASE AcPeerPut(t)
  BY <1>12 DEF AcPeerPut, SendPutPlayerPacket
<1>13. CASE AcMerge(t)
  BY <1>13 DEF AcMerge
<1> QED
  BY <1>2, <1>3, <1>4, <1>5, <1>6, <1>7, <1>8, <1>9, <1>10, <1>11, <1>12, <1>13
  DEF AcceptStep

LEMMA AcceptFrame ==
  ASSUME TypeInv, NEW t \in Threads, AcceptStep(t)
  PROVE  frame'[t] \in FrameType
<1>1. Functional /\ frame[t] \in FrameType /\ PlaceOK(t)
  BY DEF TypeInv, LocalInv
<1> USE <1>1 DEF Functional, StartFrame
<1>2. ASSUME NEW p \in Users, Accept(t, p)  PROVE frame'[t] \in FrameType
  <2>1. frame'[t] = [NoFrame EXCEPT !.cl = p]
    BY <1>2 DEF Accept
  <2> QED
    BY <2>1, NoFrameType DEF FrameType
<1>3. ASSUME NextSlot(t), frame[t].idx < NumOfNpc  PROVE frame'[t] \in FrameType
  <2>1. frame'[t] = [frame[t] EXCEPT !.idx = @ + 1]
    BY <1>3 DEF NextSlot
  <2> QED
    BY <1>3, <2>1, SlotsAssumption DEF FrameType
<1>4. CASE AcScan(t)
  BY <1>3, <1>4 DEF AcScan
<1>5. CASE AcSee(t)
  <2>1. frame'[t] = [frame[t] EXCEPT !.seen = frame[t].seen \cup {frame[t].idx}]
    BY <1>5 DEF AcSee
  <2>2. frame[t].seen \cup {frame[t].idx} \in SUBSET Objects
    BY <1>5, FrameFields, SlotsAssumption DEF AcSee, PlaceOK, Objects
  <2> QED
    BY <2>1, <2>2 DEF FrameType
<1>6. CASE AcPeer(t) \/ AcPeerPut(t)
  BY <1>3, <1>6 DEF AcPeer, AcPeerPut, PlaceOK
<1>7. CASE AcMerge(t)
  BY <1>7, NoFrameType DEF AcMerge
<1>8. CASE frame' = frame
  BY <1>8
<1> QED
  BY <1>2, <1>4, <1>5, <1>6, <1>7, <1>8
  DEF AcceptStep, AcClear, AcOpen, AcConnect, AcLive, AcRecv, AcSelf

LEMMA AcceptLocals ==
  ASSUME TypeInv, NEW t \in Threads, t = Acceptor, AcceptStep(t)
  PROVE  LocalInv(t)'
<1>1. beat[t] \in BeatType /\ PlaceOK(t) /\ Functional
  BY DEF TypeInv, LocalInv
<1>2. frame'[t] \in FrameType
  BY AcceptFrame
<1> USE <1>1, <1>2 DEF LocalInv, PlaceOK, CodeOf, AcceptLabels, BeatLabels, Goto, Functional
<1>3. ASSUME NEW p \in Users, Accept(t, p)  PROVE LocalInv(t)'
  BY <1>3 DEF Accept
<1>4. CASE AcScan(t) /\ Goto(t, "ac_see") /\ UNCHANGED <<beat, frame>> /\ frame[t].idx < NumOfNpc
  BY <1>4
<1>5. CASE AcScan(t) /\ EnterHeartBeat(t, frame[t].idx, "ac_see") /\ UNCHANGED frame
           /\ frame[t].idx < NumOfNpc
  <2>1. beat'[t] = [NoBeat EXCEPT !.npc = frame[t].idx, !.back = "ac_see"]
    BY <1>5 DEF EnterHeartBeat
  <2>2. frame[t].idx \in Objects
    BY <1>5, FrameFields, SlotsAssumption DEF TypeInv, LocalInv, Objects
  <2>3. beat'[t] \in BeatType
    BY <2>1, <2>2, NoBeatType DEF BeatType
  <2>4. beat'[t].back = "ac_see"
    BY <2>1 DEF NoBeat
  <2>5. pc'[t] = "hb_load" /\ frame'[t].idx < NumOfNpc
    BY <1>5 DEF EnterHeartBeat
  <2> QED
    BY <2>3, <2>4, <2>5
<1>6. CASE AcScan(t) /\ UNCHANGED beat /\ pc'[t] \in {"ac_scan", "ac_merge"}
  BY <1>6
<1>7. CASE AcScan(t)
  BY <1>4, <1>5, <1>6, <1>7 DEF AcScan, WakeUpNPC
<1>8. CASE AcSee(t)
  <2>1. frame'[t].idx = frame[t].idx
    BY <1>8 DEF AcSee, FrameType, TypeInv
  <2> QED
    BY <1>8, <2>1 DEF AcSee
<1>9. CASE AcPeer(t) \/ AcPeerPut(t) \/ AcMerge(t)
  BY <1>9 DEF AcPeer, AcPeerPut, AcMerge
<1>10. CASE AcClear(t) \/ AcOpen(t) \/ AcConnect(t) \/ AcLive(t) \/ AcRecv(t) \/ AcSelf(t)
  BY <1>10 DEF AcClear, AcOpen, AcConnect, AcLive, AcRecv, AcSelf
<1> QED
  BY <1>3, <1>7, <1>8, <1>9, <1>10 DEF AcceptStep

(* The timer thread and the remote ends touch no thread's locals.          *)
LEMMA EnvironmentType ==
  ASSUME TypeInv, EnvironmentStep
  PROVE  TypeInv'
<1>1. UNCHANGED <<pc, frame, beat>>
  BY DEF EnvironmentStep, TimerFires, PeerFin, PeerReset
<1>2. SharedType
  BY DEF TypeInv
<1> USE <1>2 DEF SharedType, board, slots, net, ai
<1>3. ASSUME NEW n \in Objects, TimerFires(n)  PROVE SharedType'
  BY <1>3, BoundsAssumption DEF TimerFires, Capped
<1>4. ASSUME NEW p \in Users, PeerFin(p)  PROVE SharedType'
  BY <1>4 DEF PeerFin
<1>5. ASSUME NEW p \in Users, PeerReset(p)  PROVE SharedType'
  BY <1>5, BoundsAssumption DEF PeerReset, Capped
<1>6. SharedType'
  BY <1>3, <1>4, <1>5 DEF EnvironmentStep
<1> QED
  BY <1>1, <1>6 DEF TypeInv, Functional, LocalInv, PlaceOK

-----------------------------------------------------------------------------

LEMMA TypeInit == Init => TypeInv
<1> SUFFICES ASSUME Init PROVE TypeInv
  OBVIOUS
<1>1. SharedType
  BY UsersAreObjects, BoundsAssumption DEF Init, SharedType, Columns, Rows
<1>2. Functional
  BY DEF Init, Functional
<1>3. ASSUME NEW t \in Threads  PROVE LocalInv(t)
  <2>1. frame[t] = NoFrame /\ beat[t] = NoBeat
    BY <1>3 DEF Init
  <2>2. pc[t] = IF t = Acceptor THEN "accept" ELSE "gqcs"
    BY <1>3 DEF Init
  <2> QED
    BY <2>1, <2>2, NoFrameType, NoBeatType
    DEF LocalInv, PlaceOK, CodeOf, AcceptLabels, WorkerLabels, BeatLabels
<1> QED
  BY <1>1, <1>2, <1>3 DEF TypeInv

LEMMA TypeNext == TypeInv /\ [Next]_vars => TypeInv'
<1> SUFFICES ASSUME TypeInv, [Next]_vars PROVE TypeInv'
  OBVIOUS
<1>1. ASSUME NEW t \in Threads, ThreadStep(t)  PROVE TypeInv'
  <2>1. CASE HeartBeatStep(t)
    BY <2>1, HeartBeatLocal, HeartBeatShared, HeartBeatLocals, LocalStep
  <2>2. CASE t \in Workers /\ WorkerStep(t)
    BY <2>2, WorkerLocal, WorkerShared, WorkerLocals, LocalStep
  <2>3. CASE t = Acceptor /\ AcceptStep(t)
    BY <2>3, AcceptLocal, AcceptShared, AcceptLocals, LocalStep
  <2> QED
    BY <1>1, <2>1, <2>2, <2>3 DEF ThreadStep
<1>2. CASE UNCHANGED vars
  BY <1>2 DEF vars, TypeInv, SharedType, Functional, LocalInv, PlaceOK
<1> QED
  BY <1>1, <1>2, EnvironmentType DEF Next

LEMMA TypeInvariant == Spec => []TypeInv
  BY TypeInit, TypeNext, PTL DEF Spec

(* Every variable keeps its type and every thread its own code, for any    *)
(* number of users, NPCs and workers: no index leaves its array.           *)
THEOREM TypesHold == Spec => []TypeOK
<1>1. TypeInv => TypeOK
  BY DEF TypeInv, TypeOK, Functional, LocalInv
<1> QED
  BY <1>1, TypeInvariant, PTL
=============================================================================
