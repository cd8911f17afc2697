---------------------------- MODULE ViewListProofs ----------------------------
(***************************************************************************)
(* The NPCs in the players' view lists, whatever overlaps.                 *)
(***************************************************************************)
EXTENDS SessionProofs

(* Where a thread is in its own handler: a beat is the call it returns to. *)
Phase(t) == IF pc[t] \in BeatLabels THEN beat[t].back ELSE pc[t]

(* An NPC that somebody beats, or is to beat, or that is dead.             *)
Covered(n) ==
  \/ timer_queue[n] + posted[n] > 0
  \/ Beating(n)
  \/ ~bIsAlive[n]

(* Only NPCs are ever beaten, and WakeUpNPC always beats.                  *)
NpcsOnly ==
  /\ \A t \in Threads : pc[t] \in BeatLabels => beat[t].npc \in NPCs
  /\ \A o \in Objects : (timer_queue[o] + posted[o] > 0 => o \in NPCs) /\ ~bIsActive[o]

Listed(p, n) == n \in view_list[p]

(* A worker is between the client's last move and its merge.               *)
Fixing(p) == \E w \in Workers :
  frame[w].cl = p /\ Phase(w) \in PacketLabels \ {"pp_move"}

(* The accept thread has yet to look at n for its new client p.            *)
Ahead(p, n) ==
  /\ Phase(Acceptor) \in AcceptLabels \ {"accept", "ac_merge"}
  /\ frame[Acceptor].cl = p /\ frame[Acceptor].idx <= n

Settling(p, n) == bConnected[p] =>
  \/ Listed(p, n) <=> IsNear(p, n)
  \/ Fixing(p)
  \/ Ahead(p, n) /\ ~Listed(p, n)

AcceptorKnows(p, n) ==
  LET f == frame[Acceptor]
      at == Phase(Acceptor)
  IN /\ n \notin f.seen
     /\ at \in {"ac_see", "ac_peer", "ac_peer_put"} => f.idx # n
     /\ at \in {"ac_clear", "ac_open", "ac_connect"} => f.idx = 0
     /\ at \in {"ac_open", "ac_connect"} /\ f.cl = p => ~Listed(p, n)

(* What the copies of a worker that serves p say of n, phase by phase.     *)
WorkerKnows(w, p, n) ==
  LET f == frame[w]
      at == Phase(w)
  IN /\ at \in {"parse", "pp_move"} => f.idx = 0 /\ n \notin f.seen
     /\ at = "pp_scan" => (n \in f.seen <=> n < f.idx /\ IsNear(p, n))
     /\ at \in PacketLabels \ {"pp_move", "pp_scan"} => (n \in f.seen <=> IsNear(p, n))
     /\ at \in {"pp_each", "pp_put", "pp_peer", "pp_peer_put"} =>
          /\ Listed(p, n) => n \in f.ovl
          /\ n \in f.seen => n \in f.ovl \cup f.todo
     /\ at \in {"pp_old", "pp_remove", "pp_unsee", "pp_peer_remove", "pp_merge"} =>
          /\ Listed(p, n) \/ n \in f.seen => n \in f.ovl
          /\ n \in f.ovl /\ n \notin f.seen => n \in f.todo \/ (at = "pp_remove" /\ f.id = n)
     /\ at = "pp_merge" => f.todo = {}

Sight(p, n) == ~Covered(n) =>
  /\ Settling(p, n) /\ AcceptorKnows(p, n)
  /\ \A w \in Workers : frame[w].cl = p => WorkerKnows(w, p, n)

SightInv == \A p \in Players, n \in NPCs \ Users : Sight(p, n)

-----------------------------------------------------------------------------
(* A beat leaves its thread's phase, and everything but its NPC, alone.    *)

LEMMA BeatStep ==
  ASSUME TypeInv, NEW t \in Threads, HeartBeatStep(t)
  PROVE  /\ Phase(t)' = Phase(t) /\ frame' = frame
         /\ UNCHANGED <<bConnected, bIsActive, net, posted>>
         /\ pc[t] \in BeatLabels
         /\ \A o \in Objects \ {beat[t].npc} :
              /\ x'[o] = x[o] /\ y'[o] = y[o] /\ bIsAlive'[o] = bIsAlive[o]
              /\ timer_queue'[o] = timer_queue[o]
              /\ \A p \in Users : Listed(p, o)' <=> Listed(p, o)
         /\ \/ pc'[t] \in BeatLabels /\ beat'[t].npc = beat[t].npc
            \/ pc'[t] \notin BeatLabels /\ ~bIsAlive'[beat[t].npc]
            \/ pc'[t] \notin BeatLabels /\ timer_queue'[beat[t].npc] > 0
<1>1. Functional /\ beat[t] \in BeatType /\ pc[t] \in BeatLabels /\ SharedType
      /\ beat[t].back \in {"gqcs", "pp_unsee", "ac_see"} /\ beat[t].npc \in Objects
  BY DEF TypeInv, LocalInv, BeatType, HeartBeatStep, HbLoad, HbStore, HbClamp, HbView,
         HbNear, HbFar, HbPut, HbRemove, HbAlive, HbRevive, HbPush, BeatLabels
<1>2. frame' = frame /\ UNCHANGED <<bConnected, bIsActive, net, posted>>
  BY DEF HeartBeatStep, HbLoad, HbStore, HbClamp, HbView, HbNear, HbFar, HbPut,
         HbRemove, HbAlive, HbRevive, HbPush, slots, ai
<1>3. \/ /\ pc'[t] \in BeatLabels /\ beat'[t].back = beat[t].back /\ beat'[t].npc = beat[t].npc
      \/ HbReturn(t) /\ HbAlive(t) /\ ~bIsAlive'[beat[t].npc]
      \/ HbReturn(t) /\ HbPush(t) /\ timer_queue'[beat[t].npc] > 0
  <2> USE <1>1 DEF Functional, Goto, BeatLabels, BeatType
  <2>1. CASE NextUser(t) /\ pc'[t] \in BeatLabels
    BY <2>1 DEF NextUser
  <2>2. CASE beat' = beat /\ pc'[t] \in BeatLabels
    BY <2>2
  <2>3. CASE HbLoad(t)
    BY <2>3 DEF HbLoad
  <2>4. CASE HbClamp(t)
    BY <2>4 DEF HbClamp
  <2>5. CASE HbView(t)
    BY <2>1, <2>2, <2>5 DEF HbView
  <2>6. CASE HbAlive(t)
    BY <2>1, <2>2, <2>6 DEF HbAlive, SharedType, HbNpc
  <2>7. CASE HbPush(t)
    <3>1. timer_queue' = [timer_queue EXCEPT ![beat[t].npc] = Capped(@ + 1)]
      BY <2>7 DEF HbPush, HbNpc
    <3>2. timer_queue'[beat[t].npc] > 0
      BY <3>1, BoundsAssumption DEF Capped, SharedType
    <3> QED
      BY <2>7, <3>2 DEF HbPush
  <2> QED
    BY <2>1, <2>2, <2>3, <2>4, <2>5, <2>6, <2>7 DEF HeartBeatStep, HbStore, HbNear,
       HbFar, HbPut, HbRemove, HbRevive
<1>4. HbReturn(t) => pc'[t] = beat[t].back
  BY <1>1 DEF HbReturn, Goto, Functional
<1>5. Phase(t)' = Phase(t)
  BY <1>1, <1>3, <1>4 DEF Phase, BeatLabels
<1>6. ASSUME NEW o \in Objects \ {beat[t].npc}
      PROVE  /\ x'[o] = x[o] /\ y'[o] = y[o] /\ bIsAlive'[o] = bIsAlive[o]
             /\ timer_queue'[o] = timer_queue[o]
             /\ \A p \in Users : Listed(p, o)' <=> Listed(p, o)
  <2> USE <1>1 DEF SharedType, HbNpc, slots, ai, board, Listed
  <2>1. CASE HbStore(t) \/ HbClamp(t)
    BY <2>1 DEF HbStore, HbClamp
  <2>2. CASE HbNear(t) \/ HbFar(t)
    BY <2>2 DEF HbNear, HbFar, See, Unsee
  <2>3. CASE HbAlive(t) \/ HbRevive(t) \/ HbPush(t)
    BY <2>3 DEF HbAlive, HbRevive, HbPush
  <2>4. CASE UNCHANGED <<board, slots, view_list, ai>>
    BY <2>4
  <2> QED
    BY <2>1, <2>2, <2>3, <2>4 DEF HeartBeatStep, HbLoad, HbView, HbPut, HbRemove
<1> QED
  BY <1>1, <1>2, <1>3, <1>4, <1>5, <1>6 DEF BeatLabels

(* WakeUpNPC goes on as if it had returned.                                *)
LEMMA WakeStep ==
  ASSUME TypeInv, NEW t \in Threads, NEW n \in Objects, NEW b \in {"pp_unsee", "ac_see"},
         ~bIsActive[n], WakeUpNPC(t, n, b)
  PROVE  /\ Phase(t)' = b /\ pc'[t] = "hb_load" /\ beat'[t].npc = n
<1>1. beat' = [beat EXCEPT ![t] = [NoBeat EXCEPT !.npc = n, !.back = b]] /\ Goto(t, "hb_load")
  BY DEF WakeUpNPC, EnterHeartBeat
<1>2. pc'[t] = "hb_load" /\ beat'[t] = [NoBeat EXCEPT !.npc = n, !.back = b]
  BY <1>1 DEF TypeInv, Functional, Goto
<1> QED
  BY <1>2 DEF NoBeat, Phase, BeatLabels

(* A step of WorkerThread's or AcceptThread's own code.                    *)
OwnStep(t) ==
  \/ t \in Workers /\ WorkerStep(t)
  \/ t = Acceptor /\ AcceptStep(t)

(* It moves and revives players only, takes completions only, and starts   *)
(* a beat for an NPC only.                                                 *)
LEMMA OwnStepShared ==
  ASSUME TypeInv, NpcsOnly, NEW t \in Threads, OwnStep(t)
  PROVE  /\ pc[t] \notin BeatLabels /\ OnlySelf(t)
         /\ bIsActive' = bIsActive /\ timer_queue' = timer_queue
         /\ \A o \in Objects \ Users : x'[o] = x[o] /\ y'[o] = y[o] /\ bIsAlive'[o] = bIsAlive[o]
         /\ pc'[t] \in BeatLabels => beat'[t].npc \in NPCs
         /\ \A o \in Objects : \/ posted'[o] = posted[o]
                               \/ /\ posted[o] > 0 /\ posted'[o] \in Nat
                                  /\ pc'[t] \in BeatLabels /\ beat'[t].npc = o
<1>1. OnlySelf(t) /\ Functional /\ SharedType /\ frame[t].cl \in Users /\ frame[t].id \in Objects
      /\ frame[t].idx \in 0 .. NumOfNpc
  BY WorkerLocal, AcceptLocal, FrameFields DEF OwnStep, TypeInv, LocalInv
<1>2. pc[t] \notin BeatLabels
  BY DEF OwnStep, WorkerStep, RecvData, RecvEof, LostCompletion, AbortedCompletion, DoAi, Parse,
     Rearm, DcClose, DcFree, DcDead, DcScan, DcRemove, PacketStep, PpMove, PpScan, PpCopy, PpEach,
     PpPut, PpPeer, PpPeerPut, PpOld, PpRemove, PpUnsee, PpPeerRemove, PpMerge, AcceptStep, Accept,
     AcClear, AcOpen, AcConnect, AcLive, AcRecv, AcSelf, AcScan, AcSee, AcPeer, AcPeerPut, AcMerge,
     BeatLabels
<1>3. bIsActive' = bIsActive /\ timer_queue' = timer_queue
  BY DEF OwnStep, WorkerStep, RecvData, RecvEof, LostCompletion, AbortedCompletion, DoAi, Parse,
     Rearm, DcClose, DcFree, DcDead, DcScan, DcRemove, PacketStep, PpMove, PpScan, PpCopy, PpEach,
     PpPut, PpPeer, PpPeerPut, PpOld, PpRemove, PpUnsee, PpPeerRemove, PpMerge, AcceptStep, Accept,
     AcClear, AcOpen, AcConnect, AcLive, AcRecv, AcSelf, AcScan, AcSee, AcPeer, AcPeerPut, AcMerge,
     slots, ai
<1>4. UNCHANGED board \/ PpMove(t)
  BY DEF OwnStep, WorkerStep, RecvData, RecvEof, LostCompletion, AbortedCompletion, DoAi, Parse,
     Rearm, DcClose, DcFree, DcDead, DcScan, DcRemove, PacketStep, PpScan, PpCopy, PpEach,
     PpPut, PpPeer, PpPeerPut, PpOld, PpRemove, PpUnsee, PpPeerRemove, PpMerge, AcceptStep, Accept,
     AcClear, AcOpen, AcConnect, AcLive, AcRecv, AcSelf, AcScan, AcSee, AcPeer, AcPeerPut, AcMerge
<1>5. bIsAlive' = bIsAlive \/ DcDead(t) \/ AcLive(t)
  BY DEF OwnStep, WorkerStep, RecvData, RecvEof, LostCompletion, AbortedCompletion, DoAi, Parse,
     Rearm, DcClose, DcFree, DcScan, DcRemove, PacketStep, PpMove, PpScan, PpCopy, PpEach,
     PpPut, PpPeer, PpPeerPut, PpOld, PpRemove, PpUnsee, PpPeerRemove, PpMerge, AcceptStep, Accept,
     AcClear, AcOpen, AcConnect, AcRecv, AcSelf, AcScan, AcSee, AcPeer, AcPeerPut, AcMerge, slots
<1>6. ASSUME NEW o \in Objects \ Users
      PROVE  x'[o] = x[o] /\ y'[o] = y[o] /\ bIsAlive'[o] = bIsAlive[o]
  BY <1>1, <1>4, <1>5 DEF SharedType, board, PpMove, Cl, DcDead, AcLive
<1>7. posted' = posted \/ \E o \in Objects : t \in Workers /\ DoAi(t, o)
  BY DEF OwnStep, WorkerStep, RecvData, RecvEof, LostCompletion, AbortedCompletion, Parse,
     Rearm, DcClose, DcFree, DcDead, DcScan, DcRemove, PacketStep, PpMove, PpScan, PpCopy, PpEach,
     PpPut, PpPeer, PpPeerPut, PpOld, PpRemove, PpUnsee, PpPeerRemove, PpMerge, AcceptStep, Accept,
     AcClear, AcOpen, AcConnect, AcLive, AcRecv, AcSelf, AcScan, AcSee, AcPeer, AcPeerPut, AcMerge, ai
<1>8. ASSUME NEW o \in Objects, DoAi(t, o)
      PROVE  pc'[t] = "hb_load" /\ beat'[t].npc = o /\ posted' = [posted EXCEPT ![o] = @ - 1]
             /\ o \in NPCs /\ posted[o] > 0 /\ posted'[o] \in Nat
  <2>1. beat'[t] = [NoBeat EXCEPT !.npc = o, !.back = "gqcs"] /\ pc'[t] = "hb_load"
    BY <1>1, <1>8 DEF DoAi, EnterHeartBeat, Goto, Functional
  <2>2. posted[o] \in Nat /\ timer_queue[o] \in Nat /\ posted[o] > 0
    BY <1>1, <1>8, BoundsAssumption DEF SharedType, DoAi
  <2>3. posted' = [posted EXCEPT ![o] = @ - 1]
    BY <1>8 DEF DoAi
  <2> QED
    BY <1>1, <2>1, <2>2, <2>3 DEF NoBeat, NpcsOnly, SharedType
<1>9. \/ \E o \in Objects : t \in Workers /\ DoAi(t, o)
      \/ pc'[t] \notin BeatLabels
      \/ PpRemove(t) /\ isNPC(frame[t].id) /\ WakeUpNPC(t, frame[t].id, "pp_unsee")
      \/ /\ AcScan(t) /\ frame[t].idx < NumOfNpc /\ isNPC(frame[t].idx)
         /\ WakeUpNPC(t, frame[t].idx, "ac_see")
  <2> USE <1>1 DEF Goto, Functional, BeatLabels
  <2>1. CASE t \in Workers /\ WorkerStep(t)
    BY <2>1 DEF WorkerStep, RecvData, RecvEof, LostCompletion, AbortedCompletion, Parse,
       Rearm, DcClose, DcFree, DcDead, DcScan, DcRemove, DcReturn, PacketStep, PpMove, PpScan, PpCopy, PpEach,
       PpPut, PpPeer, PpPeerPut, PpOld, PpRemove, PpUnsee, PpPeerRemove, PpMerge
  <2>2. CASE t = Acceptor /\ AcceptStep(t)
    BY <2>2 DEF AcceptStep, Accept, AcClear, AcOpen, AcConnect, AcLive, AcRecv, AcSelf, AcScan, AcSee,
       AcPeer, AcPeerPut, AcMerge
  <2> QED
    BY <2>1, <2>2 DEF OwnStep
<1>10. pc'[t] \in BeatLabels => beat'[t].npc \in NPCs
  <2>1. CASE PpRemove(t) /\ isNPC(frame[t].id) /\ WakeUpNPC(t, frame[t].id, "pp_unsee")
    BY <1>1, <2>1, WakeStep, SlotsAssumption DEF NpcsOnly, NPCs, isNPC, Objects
  <2>2. CASE /\ AcScan(t) /\ frame[t].idx < NumOfNpc /\ isNPC(frame[t].idx)
             /\ WakeUpNPC(t, frame[t].idx, "ac_see")
    BY <1>1, <2>2, WakeStep, SlotsAssumption DEF NpcsOnly, NPCs, isNPC, Objects
  <2> QED
    BY <1>8, <1>9, <2>1, <2>2
<1>11. \A o \in Objects : \/ posted'[o] = posted[o]
                          \/ /\ posted[o] > 0 /\ posted'[o] \in Nat
                             /\ pc'[t] \in BeatLabels /\ beat'[t].npc = o
  BY <1>1, <1>7, <1>8 DEF SharedType, BeatLabels
<1> QED
  BY <1>1, <1>2, <1>3, <1>6, <1>10, <1>11

LEMMA TimerStep ==
  ASSUME TypeInv, EnvironmentStep
  PROVE  /\ UNCHANGED <<board, bIsAlive, bIsActive, bConnected, view_list, pc, frame, beat>>
         /\ \A o \in Objects : timer_queue'[o] + posted'[o] > 0 <=> timer_queue[o] + posted[o] > 0
<1>1. UNCHANGED <<board, bIsAlive, bIsActive, bConnected, view_list, pc, frame, beat>>
  BY DEF EnvironmentStep, TimerFires, PeerFin, PeerReset, slots
<1>2. ASSUME NEW n \in Objects, TimerFires(n), NEW o \in Objects
      PROVE  timer_queue'[o] + posted'[o] > 0 <=> timer_queue[o] + posted[o] > 0
  <2>1. timer_queue[o] \in Nat /\ posted[o] \in Nat /\ timer_queue[n] \in Nat /\ posted[n] \in Nat
    BY BoundsAssumption DEF TypeInv, SharedType
  <2>2. CASE o = n
    <3>1. timer_queue'[o] = timer_queue[o] - 1 /\ posted'[o] = Capped(posted[o] + 1)
          /\ timer_queue[o] > 0
      BY <1>2, <2>2 DEF TimerFires, TypeInv, SharedType
    <3> QED
      BY <2>1, <3>1, BoundsAssumption DEF Capped
  <2>3. CASE o # n
    BY <1>2, <2>3 DEF TimerFires, TypeInv, SharedType
  <2> QED
    BY <2>2, <2>3
<1> QED
  BY <1>1, <1>2 DEF EnvironmentStep, PeerFin, PeerReset, ai

LEMMA NpcsOnlyInit == Init => NpcsOnly
  BY DEF Init, NpcsOnly, BeatLabels

LEMMA NpcsOnlyNext == TypeInv /\ NpcsOnly /\ [Next]_vars => NpcsOnly'
<1> SUFFICES ASSUME TypeInv, NpcsOnly, [Next]_vars  PROVE NpcsOnly'
  OBVIOUS
<1> USE DEF NpcsOnly
<1>1. SharedType /\ Functional
  BY DEF TypeInv
<1>2. ASSUME NEW t \in Threads, HeartBeatStep(t)  PROVE NpcsOnly'
  <2>1. OnlySelf(t) /\ beat[t].npc \in NPCs
    BY <1>2, HeartBeatLocal, BeatStep
  <2>2. ASSUME NEW u \in Threads, pc'[u] \in BeatLabels  PROVE beat'[u].npc \in NPCs
    BY <1>1, <1>2, <2>1, <2>2, BeatStep DEF OnlySelf, Functional
  <2>3. ASSUME NEW o \in Objects
        PROVE  (timer_queue'[o] + posted'[o] > 0 => o \in NPCs) /\ ~bIsActive'[o]
    BY <1>2, <2>1, BeatStep
  <2> QED
    BY <2>2, <2>3
<1>3. ASSUME NEW t \in Threads, OwnStep(t)  PROVE NpcsOnly'
  <2>1. ASSUME NEW u \in Threads, pc'[u] \in BeatLabels  PROVE beat'[u].npc \in NPCs
    BY <1>1, <1>3, <2>1, OwnStepShared DEF OnlySelf, Functional
  <2>2. ASSUME NEW o \in Objects
        PROVE  (timer_queue'[o] + posted'[o] > 0 => o \in NPCs) /\ ~bIsActive'[o]
    BY <1>1, <1>3, OwnStepShared, BoundsAssumption DEF SharedType
  <2> QED
    BY <2>1, <2>2
<1>4. CASE EnvironmentStep
  BY <1>4, TimerStep
<1>5. CASE UNCHANGED vars
  BY <1>5 DEF vars
<1> QED
  BY <1>2, <1>3, <1>4, <1>5 DEF Next, ThreadStep, OwnStep

(* Once covered, for good: every beat ends in another one queued, or in    *)
(* the NPC's death, and only a beat brings it back.  So an NPC that is not *)
(* covered after a step has not been touched by it.                        *)
LEMMA CoveredStays ==
  ASSUME TypeInv, NpcsOnly, [Next]_vars, NEW n \in NPCs \ Users, ~Covered(n)'
  PROVE  ~Covered(n) /\ x'[n] = x[n] /\ y'[n] = y[n]
<1>1. SharedType /\ Functional /\ n \in Objects
  BY SlotsAssumption DEF TypeInv, NPCs, Objects
<1>2. ~(timer_queue'[n] + posted'[n] > 0) /\ bIsAlive'[n]
      /\ \A t \in Threads : ~(pc'[t] \in BeatLabels /\ beat'[t].npc = n)
  BY DEF Covered, Beating
<1>3. timer_queue[n] \in Nat /\ posted[n] \in Nat
  BY <1>1, BoundsAssumption DEF SharedType
<1>4. ASSUME NEW t \in Threads, OnlySelf(t), NEW u \in Threads, u # t
      PROVE  ~(pc[u] \in BeatLabels /\ beat[u].npc = n)
  BY <1>1, <1>2, <1>4 DEF OnlySelf, Functional
<1>5. ASSUME NEW t \in Threads, HeartBeatStep(t)
      PROVE  ~Covered(n) /\ x'[n] = x[n] /\ y'[n] = y[n]
  <2>1. OnlySelf(t) /\ SharedType'
    BY <1>5, HeartBeatLocal, HeartBeatShared
  <2>2. timer_queue'[n] \in Nat /\ posted'[n] \in Nat
    BY <1>1, <2>1, BoundsAssumption DEF SharedType
  <2>3. beat[t].npc # n
    BY <1>2, <1>5, <2>2, BeatStep
  <2> QED
    BY <1>1, <1>2, <1>4, <1>5, <2>1, <2>3, BeatStep DEF Covered, Beating
<1>6. ASSUME NEW t \in Threads, OwnStep(t)
      PROVE  ~Covered(n) /\ x'[n] = x[n] /\ y'[n] = y[n]
  BY <1>1, <1>2, <1>4, <1>6, OwnStepShared DEF Covered, Beating
<1>7. CASE EnvironmentStep
  BY <1>1, <1>2, <1>7, TimerStep DEF Covered, Beating, board
<1>8. CASE UNCHANGED vars
  BY <1>2, <1>8 DEF vars, Covered, Beating
<1> QED
  BY <1>5, <1>6, <1>7, <1>8 DEF Next, ThreadStep, OwnStep

-----------------------------------------------------------------------------
(* What a step does to one pair, a player's slot p and an NPC n that is    *)
(* not covered.                                                            *)

Pair(p, n) == p \in Players /\ n \in NPCs \ Users

LEMMA PairFacts ==
  ASSUME NEW p, NEW n, Pair(p, n)
  PROVE  /\ p \in Users /\ p \in Objects /\ p \notin NPCs /\ n \in Objects /\ n \notin Users
         /\ p # n /\ n \in Nat /\ n < NumOfNpc /\ isNPC(n)
  BY SlotsAssumption, UsersAreObjects DEF Pair, Players, NPCs, Objects, isNPC

LEMMA OthersSamePhase ==
  ASSUME TypeInv, NEW t \in Threads, OnlySelf(t), NEW u \in Threads, u # t
  PROVE  frame'[u] = frame[u] /\ Phase(u)' = Phase(u)
<1>1. pc'[u] = pc[u] /\ frame'[u] = frame[u] /\ beat'[u] = beat[u]
  BY DEF TypeInv, Functional, OnlySelf
<1> QED
  BY <1>1 DEF Phase

(* Only the client's own move changes how it stands to an NPC at rest.     *)
LEMMA NearKept ==
  ASSUME TypeInv, NpcsOnly, [Next]_vars, NEW p, NEW n, Pair(p, n), ~Covered(n)',
         \A t \in Workers : ~(PpMove(t) /\ frame[t].cl = p)
  PROVE  IsNear(p, n)' <=> IsNear(p, n)
<1>1. ~Covered(n) /\ x'[n] = x[n] /\ y'[n] = y[n]
  BY CoveredStays DEF Pair
<1>2. SharedType /\ p \in Objects /\ p \notin NPCs
  BY PairFacts DEF TypeInv
<1>3. x'[p] = x[p] /\ y'[p] = y[p]
  <2>1. ASSUME NEW t \in Threads, HeartBeatStep(t)  PROVE x'[p] = x[p] /\ y'[p] = y[p]
    <3>1. beat[t].npc \in NPCs
      BY <2>1, BeatStep DEF NpcsOnly
    <3> QED
      BY <1>2, <2>1, <3>1, BeatStep
  <2>2. ASSUME NEW t \in Threads, OwnStep(t)  PROVE x'[p] = x[p] /\ y'[p] = y[p]
    <3>1. UNCHANGED board \/ (t \in Workers /\ PpMove(t))
      BY <2>2 DEF OwnStep, WorkerStep, RecvData, RecvEof, LostCompletion, AbortedCompletion, DoAi,
         Parse, Rearm, DcClose, DcFree, DcDead, DcScan, DcRemove, PacketStep, PpScan, PpCopy, PpEach,
         PpPut, PpPeer, PpPeerPut, PpOld, PpRemove, PpUnsee, PpPeerRemove, PpMerge, AcceptStep,
         Accept, AcClear, AcOpen, AcConnect, AcLive, AcRecv, AcSelf, AcScan, AcSee, AcPeer,
         AcPeerPut, AcMerge
    <3> QED
      BY <1>2, <3>1 DEF PpMove, Cl, board, SharedType
  <2>3. EnvironmentStep \/ UNCHANGED vars => x'[p] = x[p] /\ y'[p] = y[p]
    BY TimerStep DEF board, vars
  <2> QED
    BY <2>1, <2>2, <2>3 DEF Next, ThreadStep, OwnStep
<1> QED
  BY <1>1, <1>3 DEF IsNear

(* Only the client's own merges and its acceptance change what its view    *)
(* list says of an NPC at rest: everybody else corrects players only.      *)
LEMMA ListedKept ==
  ASSUME TypeInv, NpcsOnly, [Next]_vars, NEW p, NEW n, Pair(p, n), ~Covered(n)',
         \A t \in Threads : frame[t].cl = p => ~PpMerge(t) /\ ~AcClear(t),
         n \notin frame[Acceptor].seen
  PROVE  Listed(p, n)' <=> Listed(p, n)
<1>1. ~Covered(n)
  BY CoveredStays DEF Pair
<1>2. SharedType /\ p \in Users /\ n \in Objects /\ n \notin Users
  BY PairFacts DEF TypeInv
<1>3. ASSUME NEW t \in Threads, HeartBeatStep(t)  PROVE Listed(p, n)' <=> Listed(p, n)
  <2>1. beat[t].npc # n
    BY <1>1, <1>3, BeatStep DEF Covered, Beating
  <2> QED
    BY <1>2, <1>3, <2>1, BeatStep
<1>4. ASSUME NEW t \in Threads, OwnStep(t)  PROVE Listed(p, n)' <=> Listed(p, n)
  <2>1. frame[t].cl \in Users
    BY FrameFields DEF TypeInv, LocalInv
  <2>2. \/ UNCHANGED view_list
        \/ DcScan(t) \/ PpPeer(t) \/ PpUnsee(t) \/ PpMerge(t) \/ AcClear(t) \/ AcPeer(t)
        \/ t = Acceptor /\ AcMerge(t)
    BY <1>4 DEF OwnStep, WorkerStep, RecvData, RecvEof, LostCompletion, AbortedCompletion, DoAi,
       Parse, Rearm, DcClose, DcFree, DcDead, DcRemove, PacketStep, PpMove, PpScan, PpCopy, PpEach,
       PpPut, PpPeerPut, PpOld, PpRemove, PpPeerRemove, AcceptStep,
       Accept, AcOpen, AcConnect, AcLive, AcRecv, AcSelf, AcScan, AcSee, AcPeerPut
  <2> USE <1>2, <2>1 DEF Listed, Cl, SharedType
  <2>3. CASE DcScan(t) \/ PpPeer(t) \/ PpUnsee(t) \/ AcPeer(t)
    <3>1. view_list' = view_list \/ \E q : See(q, frame[t].cl) \/ Unsee(q, frame[t].cl)
      BY <2>3 DEF DcScan, PpPeer, PpUnsee, AcPeer
    <3> QED
      BY <3>1 DEF See, Unsee
  <2>4. CASE PpMerge(t) \/ AcClear(t)
    BY <2>4 DEF PpMerge, AcClear
  <2>5. CASE t = Acceptor /\ AcMerge(t)
    BY <2>5 DEF AcMerge
  <2> QED
    BY <2>2, <2>3, <2>4, <2>5
<1>5. EnvironmentStep \/ UNCHANGED vars => (Listed(p, n)' <=> Listed(p, n))
  BY TimerStep DEF Listed, vars
<1> QED
  BY <1>3, <1>4, <1>5 DEF Next, ThreadStep, OwnStep

(* A thread that holds no slot has nothing to know.                        *)
LEMMA OnlyHoldersKnow ==
  ASSUME TypeInv, NEW w \in Workers, NEW p, NEW n, ~Holds(w)
  PROVE  WorkerKnows(w, p, n)
<1>1. w \in Threads /\ w # Acceptor /\ LocalInv(w)
  BY ThreadsAssumption DEF TypeInv, Threads
<1>2. Phase(w) \notin {"parse"} \cup PacketLabels
  BY <1>1 DEF Holds, Role, Phase, LocalInv, PlaceOK, HoldingLabels, ServingLabels, PacketLabels,
              BeatLabels
<1> QED
  BY <1>2 DEF WorkerKnows, PacketLabels

(* A step that leaves a pair and its other threads as they were.           *)
PairKept(p, n) ==
  /\ Listed(p, n)' <=> Listed(p, n)
  /\ IsNear(p, n)' <=> IsNear(p, n)

LEMMA KnowsKept ==
  ASSUME NEW w \in Workers, NEW p, NEW n, WorkerKnows(w, p, n), PairKept(p, n),
         frame'[w] = frame[w], Phase(w)' = Phase(w)
  PROVE  WorkerKnows(w, p, n)'
  BY DEF WorkerKnows, PairKept

LEMMA AcceptorKept ==
  ASSUME NEW p, NEW n, AcceptorKnows(p, n), Listed(p, n)' => Listed(p, n),
         frame'[Acceptor] = frame[Acceptor], Phase(Acceptor)' = Phase(Acceptor)
  PROVE  AcceptorKnows(p, n)' /\ (Ahead(p, n)' <=> Ahead(p, n))
  BY DEF AcceptorKnows, Ahead

(* Beats, the timer thread and the remote ends.                            *)
LEMMA QuietSight ==
  ASSUME TypeInv, NpcsOnly, [Next]_vars, NEW p, NEW n, Pair(p, n), ~Covered(n)', Sight(p, n),
         frame' = frame, bConnected' = bConnected,
         \A t \in Threads : Phase(t)' = Phase(t),
         \A t \in Threads : ~PpMerge(t) /\ ~AcClear(t) /\ ~PpMove(t)
  PROVE  Sight(p, n)'
<1>1. ~Covered(n)
  BY CoveredStays DEF Pair
<1>2. /\ Settling(p, n) /\ AcceptorKnows(p, n)
      /\ \A w \in Workers : frame[w].cl = p => WorkerKnows(w, p, n)
  BY <1>1 DEF Sight
<1>3. PairKept(p, n)
  BY <1>2, NearKept, ListedKept DEF PairKept, AcceptorKnows, Threads
<1>4. AcceptorKnows(p, n)' /\ (Ahead(p, n)' <=> Ahead(p, n))
  BY <1>2, <1>3, AcceptorKept DEF PairKept, Threads
<1>5. \A w \in Workers : frame'[w].cl = p => WorkerKnows(w, p, n)'
  BY <1>2, <1>3, KnowsKept DEF Threads
<1>6. Fixing(p)' <=> Fixing(p)
  BY DEF Fixing, Threads
<1>7. Settling(p, n)'
  BY <1>2, <1>3, <1>4, <1>6 DEF Settling, PairKept
<1> QED
  BY <1>4, <1>5, <1>7 DEF Sight

(* A worker's step that is not about p, or not ProcessPacket's.            *)
LEMMA OtherWorkerSight ==
  ASSUME TypeInv, OwnerInv, NpcsOnly, [Next]_vars, NEW p, NEW n, Pair(p, n), ~Covered(n)',
         Sight(p, n), NEW t \in Workers, WorkerStep(t),
         PacketStep(t) => frame[t].cl # p
  PROVE  Sight(p, n)'
<1>1. ~Covered(n) /\ p \in Users /\ n \in Nat
  BY CoveredStays, PairFacts DEF Pair
<1>2. /\ Settling(p, n) /\ AcceptorKnows(p, n)
      /\ \A w \in Workers : frame[w].cl = p => WorkerKnows(w, p, n)
  BY <1>1 DEF Sight
<1>3. /\ t \in Threads /\ t # Acceptor /\ OnlySelf(t) /\ Functional /\ OwnStep(t) /\ SharedType
      /\ frame[t] \in FrameType /\ Acceptor \in Threads
  BY WorkerLocal, ThreadsAssumption DEF Threads, OwnStep, TypeInv, LocalInv
<1>4. \A u \in Threads : u # t => ~PpMerge(u) /\ ~AcClear(u) /\ ~PpMove(u)
  <2> SUFFICES ASSUME NEW u \in Threads, u # t, PpMerge(u) \/ AcClear(u) \/ PpMove(u)  PROVE FALSE
    OBVIOUS
  <2>1. pc'[u] = pc[u] /\ pc'[u] # pc[u]
    BY <1>3 DEF OnlySelf, Functional, PpMerge, AcClear, PpMove, Goto
  <2> QED
    BY <2>1
<1>5. frame[t].cl = p => ~PpMerge(t) /\ ~AcClear(t) /\ ~PpMove(t)
  <2>1. AcClear(t) => FALSE
    BY <1>3 DEF AcClear, TypeInv, LocalInv, CodeOf, BeatLabels, WorkerLabels, PacketLabels, CloseLabels
  <2> QED
    BY <2>1 DEF PacketStep
<1>6. PairKept(p, n)
  BY <1>2, <1>4, <1>5, NearKept, ListedKept DEF PairKept, AcceptorKnows, Threads
<1>7. AcceptorKnows(p, n)' /\ (Ahead(p, n)' <=> Ahead(p, n))
  BY <1>2, <1>3, <1>6, AcceptorKept, OthersSamePhase DEF PairKept
<1>8. \A w \in Workers \ {t} : frame'[w] = frame[w] /\ Phase(w)' = Phase(w)
  BY <1>3, OthersSamePhase DEF Threads
<1>9. bConnected'[p] => bConnected[p]
  <2>1. bConnected' = bConnected \/ DcFree(t)
    BY DEF WorkerStep, RecvData, RecvEof, LostCompletion, AbortedCompletion, DoAi,
       Parse, Rearm, DcClose, DcDead, DcScan, DcRemove, PacketStep, PpMove, PpScan, PpCopy, PpEach,
       PpPut, PpPeer, PpPeerPut, PpOld, PpRemove, PpUnsee, PpPeerRemove, PpMerge, slots
  <2> QED
    BY <1>1, <1>3, <2>1, UsersAreObjects DEF DcFree, SharedType
<1>10. pc[t] \notin BeatLabels
  BY <1>3, OwnStepShared
<1>11. frame[t].cl = p => Phase(t) \notin PacketLabels \ {"pp_move"}
  BY <1>10 DEF Phase, PacketLabels, WorkerStep, RecvData, RecvEof, LostCompletion, AbortedCompletion, DoAi,
       Parse, Rearm, DcClose, DcFree, DcDead, DcScan, DcRemove
<1>12. Fixing(p) => Fixing(p)'
  BY <1>8, <1>11 DEF Fixing
<1>13. Settling(p, n)'
  BY <1>2, <1>6, <1>7, <1>9, <1>12 DEF Settling, PairKept
<1>14. frame'[t].cl = p => WorkerKnows(t, p, n)'
  <2>1. CASE PacketStep(t)
    <3>1. frame'[t].cl = frame[t].cl
      <4>1. Holds(t)
        BY <1>10, <2>1 DEF PacketStep, PpMove, PpScan, PpCopy, PpEach, PpPut, PpPeer, PpPeerPut,
           PpOld, PpRemove, PpUnsee, PpPeerRemove, PpMerge, Holds, Role, HoldingLabels, ServingLabels,
           PacketLabels
      <4> QED
        BY <2>1, <4>1, PacketRole DEF SameRole
    <3> QED
      BY <2>1, <3>1
  <2>2. ASSUME NEW q \in Users, RecvData(t, q), frame'[t].cl = p  PROVE WorkerKnows(t, p, n)'
    <3>1. pc'[t] = "parse" /\ frame'[t].idx = 0 /\ frame'[t].seen = {}
      BY <1>3, <2>2 DEF RecvData, StartFrame, NoFrame, Goto, Functional
    <3> QED
      BY <3>1 DEF WorkerKnows, Phase, BeatLabels, PacketLabels
  <2>3. CASE Parse(t)
    <3>1. /\ pc'[t] \in {"pp_move", "rearm"} /\ frame'[t].idx = frame[t].idx
          /\ frame'[t].seen = frame[t].seen /\ frame'[t].cl = frame[t].cl /\ pc[t] = "parse"
      BY <1>3, <2>3 DEF Parse, Goto, Functional, FrameType
    <3>2. frame'[t].cl = p => frame'[t].idx = 0 /\ n \notin frame'[t].seen
      BY <1>2, <1>10, <3>1 DEF WorkerKnows, Phase
    <3> QED
      BY <3>1, <3>2 DEF WorkerKnows, Phase, BeatLabels, PacketLabels
  <2>4. ASSUME pc'[t] \in {"gqcs", "hung"} \cup CloseLabels  PROVE WorkerKnows(t, p, n)'
    BY <2>4 DEF WorkerKnows, Phase, BeatLabels, PacketLabels, CloseLabels
  <2>5. ASSUME NEW o \in Objects, DoAi(t, o)  PROVE WorkerKnows(t, p, n)'
    <3>1. pc'[t] = "hb_load" /\ beat'[t] = [NoBeat EXCEPT !.npc = o, !.back = "gqcs"]
      BY <1>3, <2>5 DEF DoAi, EnterHeartBeat, Goto, Functional
    <3>2. Phase(t)' = "gqcs"
      BY <3>1 DEF NoBeat, Phase, BeatLabels
    <3> QED
      BY <3>2 DEF WorkerKnows, PacketLabels
  <2>6. ASSUME NEW q \in Users, RecvEof(t, q) \/ LostCompletion(t, q) \/ AbortedCompletion(t, q)
        PROVE  pc'[t] \in {"gqcs", "hung"} \cup CloseLabels
    BY <1>3, <2>6 DEF RecvEof, LostCompletion, AbortedCompletion, Goto, Functional, CloseLabels
  <2>7. ASSUME Rearm(t) \/ DcClose(t) \/ DcFree(t) \/ DcDead(t) \/ DcScan(t) \/ DcRemove(t)
        PROVE  pc'[t] \in {"gqcs", "hung"} \cup CloseLabels \/ pc'[t] = pc[t]
    BY <1>3, <2>7 DEF Rearm, DcClose, DcFree, DcDead, DcScan, DcRemove, DcReturn, Goto, Functional,
       CloseLabels
  <2>8. pc'[t] = pc[t] /\ DcScan(t) => pc'[t] \in CloseLabels
    BY DEF DcScan, CloseLabels
  <2>9. Rearm(t) \/ DcClose(t) \/ DcFree(t) \/ DcDead(t) \/ DcRemove(t) => pc'[t] # pc[t]
    BY <1>3 DEF Rearm, DcClose, DcFree, DcDead, DcRemove, Goto, Functional
  <2> QED
    BY <2>1, <2>2, <2>3, <2>4, <2>5, <2>6, <2>7, <2>8, <2>9 DEF WorkerStep
<1>15. ASSUME NEW w \in Workers, frame'[w].cl = p  PROVE WorkerKnows(w, p, n)'
  BY <1>2, <1>6, <1>8, <1>14, <1>15, KnowsKept
<1> QED
  BY <1>7, <1>13, <1>15 DEF Sight

(* ProcessPacket for p: what the worker's copies say of n, step by step.   *)
LEMMA PacketKnows ==
  ASSUME TypeInv, NpcsOnly, NEW p, NEW n, Pair(p, n), ~Covered(n), ~Covered(n)',
         NEW t \in Workers, PacketStep(t), frame[t].cl = p, WorkerKnows(t, p, n),
         ~PpMerge(t) => (Listed(p, n)' <=> Listed(p, n)),
         ~PpMove(t) => (IsNear(p, n)' <=> IsNear(p, n))
  PROVE  /\ WorkerKnows(t, p, n)'
         /\ IF PpMerge(t) THEN Listed(p, n)' <=> IsNear(p, n)'
                          ELSE Phase(t)' \in PacketLabels \ {"pp_move"}
<1>1. /\ t \in Threads /\ Functional /\ SharedType /\ frame[t] \in FrameType /\ n \in Nat
      /\ p \in Users /\ n < NumOfNpc /\ n \in Objects /\ frame[t].idx \in Nat /\ bIsAlive[n]
      /\ OwnStep(t)
  BY PairFacts, FrameFields, SlotsAssumption
     DEF Threads, TypeInv, LocalInv, Covered, OwnStep, WorkerStep
<1>2. pc[t] \notin BeatLabels /\ Phase(t) = pc[t]
  BY <1>1, OwnStepShared DEF Phase
<1> DEFINE f == frame[t]
           g == frame'[t]
<1>3. ASSUME pc'[t] \notin BeatLabels  PROVE Phase(t)' = pc'[t]
  BY <1>3 DEF Phase
<1> USE <1>1, <1>2, <1>3 DEF Functional, Goto, Cl
<1>4. CASE PpMove(t)
  <2>1. Phase(t)' = "pp_scan" /\ pc[t] = "pp_move" /\ g = f
    BY <1>4 DEF PpMove, BeatLabels
  <2> QED
    BY <1>4, <2>1 DEF WorkerKnows, PacketLabels, PpMerge
<1>5. CASE PpScan(t)
  <2>1. pc[t] = "pp_scan" /\ ~PpMerge(t) /\ (n \in f.seen <=> n < f.idx /\ IsNear(p, n))
    BY <1>5 DEF PpScan, PpMerge, WorkerKnows, PacketLabels
  <2>2. CASE f.idx = NumOfNpc
    <3>1. Phase(t)' = "pp_copy" /\ g.seen = f.seen
      BY <1>5, <2>2 DEF PpScan, FrameType, BeatLabels
    <3> QED
      BY <1>5, <2>1, <2>2, <3>1 DEF WorkerKnows, PacketLabels, PpMove, PpScan
  <2>3. CASE f.idx # NumOfNpc
    <3>1. Phase(t)' = "pp_scan" /\ g.idx = f.idx + 1
          /\ g.seen = IF bIsAlive[f.idx] /\ IsNear(p, f.idx) THEN f.seen \cup {f.idx} ELSE f.seen
      BY <1>5, <2>3 DEF PpScan, FrameType, BeatLabels
    <3>2. n \in g.seen <=> n < g.idx /\ IsNear(p, n)
      BY <2>1, <3>1
    <3> QED
      BY <1>5, <2>1, <3>1, <3>2 DEF WorkerKnows, PacketLabels, PpMove, PpScan
  <2> QED
    BY <2>2, <2>3
<1>6. CASE PpCopy(t)
  <2>1. pc[t] = "pp_copy" /\ ~PpMerge(t) /\ (n \in f.seen <=> IsNear(p, n)) /\ ~PpMove(t)
    BY <1>6 DEF PpCopy, PpMerge, PpMove, WorkerKnows, PacketLabels
  <2>2. Phase(t)' = "pp_each" /\ g.seen = f.seen /\ g.ovl = view_list[p] /\ g.todo = f.seen
    BY <1>6 DEF PpCopy, FrameType, BeatLabels
  <2> QED
    BY <2>1, <2>2 DEF WorkerKnows, PacketLabels, Listed
<1>7. CASE PpEach(t)
  <2>1. pc[t] = "pp_each" /\ ~PpMerge(t) /\ (n \in f.seen <=> IsNear(p, n)) /\ ~PpMove(t)
        /\ (Listed(p, n) => n \in f.ovl) /\ (n \in f.seen => n \in f.ovl \cup f.todo)
    BY <1>7 DEF PpEach, PpMerge, PpMove, WorkerKnows, PacketLabels
  <2>2. ASSUME NEW o \in f.todo,
               frame' = [frame EXCEPT ![t].todo = @ \ {o}, ![t].id = o, ![t].ovl = @ \cup {o}],
               pc'[t] \in {"pp_put", "pp_peer", "pp_each"}
        PROVE  WorkerKnows(t, p, n)' /\ Phase(t)' \in PacketLabels \ {"pp_move"}
    <3>1. g = [f EXCEPT !.todo = f.todo \ {o}, !.id = o, !.ovl = f.ovl \cup {o}]
      BY <2>2
    <3>2. g.seen = f.seen /\ g.todo = f.todo \ {o} /\ g.ovl = f.ovl \cup {o}
      BY <3>1 DEF FrameType
    <3>3. Phase(t)' = pc'[t]
      BY <2>2 DEF BeatLabels
    <3> QED
      BY <2>1, <2>2, <3>2, <3>3 DEF WorkerKnows, PacketLabels
  <2>3. ASSUME f.todo = {}, frame' = [frame EXCEPT ![t].todo = frame[t].ovl \ frame[t].seen],
               pc'[t] = "pp_old"
        PROVE  WorkerKnows(t, p, n)' /\ Phase(t)' \in PacketLabels \ {"pp_move"}
    <3>1. g.seen = f.seen /\ g.todo = f.ovl \ f.seen /\ g.ovl = f.ovl
      BY <2>3 DEF FrameType
    <3>2. Phase(t)' = "pp_old"
      BY <2>3 DEF BeatLabels
    <3> QED
      BY <2>1, <2>3, <3>1, <3>2 DEF WorkerKnows, PacketLabels
  <2> QED
    BY <1>7, <2>1, <2>2, <2>3 DEF PpEach
<1>8. CASE PpPut(t) \/ PpPeer(t) \/ PpPeerPut(t)
  <2>1. pc[t] \in {"pp_put", "pp_peer", "pp_peer_put"} /\ g = f /\ ~PpMerge(t) /\ ~PpMove(t)
        /\ pc'[t] \in {"pp_each", "pp_peer", "pp_peer_put"}
    BY <1>8 DEF PpPut, PpPeer, PpPeerPut, PpMerge, PpMove
  <2>2. Phase(t)' = pc'[t]
    BY <2>1 DEF BeatLabels
  <2> QED
    BY <2>1, <2>2 DEF WorkerKnows, PacketLabels
<1>9. CASE PpOld(t)
  <2>1. pc[t] = "pp_old" /\ ~PpMerge(t) /\ (n \in f.seen <=> IsNear(p, n)) /\ ~PpMove(t)
        /\ (Listed(p, n) \/ n \in f.seen => n \in f.ovl)
        /\ (n \in f.ovl /\ n \notin f.seen => n \in f.todo)
    BY <1>9 DEF PpOld, PpMerge, PpMove, WorkerKnows, PacketLabels
  <2>2. ASSUME NEW o \in f.todo, pc'[t] = "pp_remove",
               frame' = [frame EXCEPT ![t].todo = @ \ {o}, ![t].id = o]
        PROVE  WorkerKnows(t, p, n)' /\ Phase(t)' \in PacketLabels \ {"pp_move"}
    <3>1. g = [f EXCEPT !.todo = f.todo \ {o}, !.id = o]
      BY <2>2
    <3>2. g.seen = f.seen /\ g.todo = f.todo \ {o} /\ g.ovl = f.ovl /\ g.id = o
      BY <3>1 DEF FrameType
    <3>3. Phase(t)' = "pp_remove"
      BY <2>2 DEF BeatLabels
    <3> QED
      BY <2>1, <3>2, <3>3 DEF WorkerKnows, PacketLabels
  <2>3. ASSUME f.todo = {}, frame' = frame, pc'[t] = "pp_merge"
        PROVE  WorkerKnows(t, p, n)' /\ Phase(t)' \in PacketLabels \ {"pp_move"}
    BY <2>1, <2>3 DEF WorkerKnows, PacketLabels, BeatLabels
  <2> QED
    BY <1>9, <2>1, <2>2, <2>3 DEF PpOld
<1>10. CASE PpRemove(t)
  <2>1. pc[t] = "pp_remove" /\ g = f /\ ~PpMerge(t) /\ ~PpMove(t)
    BY <1>10 DEF PpRemove, PpMerge, PpMove
  <2>2. f.id \in Objects /\ ~bIsActive[f.id]
    BY FrameFields DEF NpcsOnly
  <2>3. Phase(t)' = "pp_unsee" /\ (isNPC(f.id) => pc'[t] \in BeatLabels /\ beat'[t].npc = f.id)
    BY <1>10, <2>2, WakeStep DEF PpRemove, BeatLabels
  <2>4. f.id # n
    BY <1>1, <2>3, PairFacts DEF Covered, Beating
  <2> QED
    BY <2>1, <2>3, <2>4 DEF WorkerKnows, PacketLabels
<1>11. CASE PpUnsee(t) \/ PpPeerRemove(t)
  <2>1. pc[t] \in {"pp_unsee", "pp_peer_remove"} /\ g = f /\ ~PpMerge(t) /\ ~PpMove(t)
        /\ pc'[t] \in {"pp_old", "pp_peer_remove"}
    BY <1>11 DEF PpUnsee, PpPeerRemove, PpMerge, PpMove
  <2>2. Phase(t)' = pc'[t]
    BY <2>1 DEF BeatLabels
  <2> QED
    BY <2>1, <2>2 DEF WorkerKnows, PacketLabels
<1>12. CASE PpMerge(t)
  <2>1. pc[t] = "pp_merge" /\ ~PpMove(t)
    BY <1>12 DEF PpMerge, PpMove
  <2>2. /\ n \in f.seen <=> IsNear(p, n)
        /\ Listed(p, n) \/ n \in f.seen => n \in f.ovl
        /\ n \in f.ovl => n \in f.seen
    BY <2>1 DEF WorkerKnows, PacketLabels
  <2>3. view_list'[p] = (view_list[p] \cup f.ovl) \ (f.ovl \ f.seen)
    BY <1>12 DEF PpMerge, SharedType
  <2>4. Phase(t)' = "parse" /\ g.idx = 0 /\ g.seen = {}
    BY <1>12 DEF PpMerge, NoFrame, BeatLabels
  <2> QED
    BY <1>12, <2>1, <2>2, <2>3, <2>4 DEF WorkerKnows, PacketLabels, Listed
<1> QED
  BY <1>4, <1>5, <1>6, <1>7, <1>8, <1>9, <1>10, <1>11, <1>12 DEF PacketStep

LEMMA PacketSight ==
  ASSUME TypeInv, OwnerInv, NpcsOnly, [Next]_vars, NEW p, NEW n, Pair(p, n), ~Covered(n)',
         Sight(p, n), NEW t \in Workers, PacketStep(t), frame[t].cl = p
  PROVE  Sight(p, n)'
<1>1. ~Covered(n)
  BY CoveredStays DEF Pair
<1>2. /\ Settling(p, n) /\ AcceptorKnows(p, n)
      /\ \A w \in Workers : frame[w].cl = p => WorkerKnows(w, p, n)
  BY <1>1 DEF Sight
<1>3. /\ t \in Threads /\ t # Acceptor /\ OnlySelf(t) /\ Functional /\ Acceptor \in Threads
      /\ LocalInv(Acceptor)
  BY PacketLocal, ThreadsAssumption DEF Threads, TypeInv
<1>4. Holds(t) /\ frame'[t].cl = p
  <2>1. Holds(t)
    BY DEF PacketStep, PpMove, PpScan, PpCopy, PpEach, PpPut, PpPeer, PpPeerPut, PpOld, PpRemove,
       PpUnsee, PpPeerRemove, PpMerge, Holds, Role, HoldingLabels, ServingLabels, PacketLabels
  <2> QED
    BY <2>1, PacketRole DEF SameRole
<1>5. \A u \in Threads : u # t /\ frame[u].cl = p => ~Holds(u)
  BY <1>3, <1>4 DEF OwnerInv, OneHolder
<1>6. \A u \in Threads : u # t => frame'[u] = frame[u] /\ Phase(u)' = Phase(u)
                                  /\ (Holds(u)' <=> Holds(u))
  BY <1>3, OthersSamePhase, OthersSameRole DEF Holds
<1>7. \A u \in Threads : u # t => ~PpMerge(u) /\ ~AcClear(u) /\ ~PpMove(u)
  <2> SUFFICES ASSUME NEW u \in Threads, u # t, PpMerge(u) \/ AcClear(u) \/ PpMove(u)  PROVE FALSE
    OBVIOUS
  <2>1. pc'[u] = pc[u] /\ pc'[u] # pc[u]
    BY <1>3 DEF OnlySelf, Functional, PpMerge, AcClear, PpMove, Goto
  <2> QED
    BY <2>1
<1>8. ~AcClear(t)
  BY <1>3 DEF AcClear, TypeInv, LocalInv, CodeOf, BeatLabels, WorkerLabels, PacketLabels, CloseLabels
<1>9. ~PpMerge(t) => (Listed(p, n)' <=> Listed(p, n))
  BY <1>2, <1>7, <1>8, ListedKept DEF AcceptorKnows, Threads
<1>10. ~PpMove(t) => (IsNear(p, n)' <=> IsNear(p, n))
  BY <1>7, NearKept DEF Threads
<1>11. /\ WorkerKnows(t, p, n)'
       /\ IF PpMerge(t) THEN Listed(p, n)' <=> IsNear(p, n)'
                        ELSE Phase(t)' \in PacketLabels \ {"pp_move"}
  BY <1>1, <1>2, <1>9, <1>10, PacketKnows
<1>12. Settling(p, n)'
  BY <1>4, <1>11 DEF Settling, Fixing
<1>13. AcceptorKnows(p, n)'
  <2>1. Phase(Acceptor) \in {"ac_open", "ac_connect"} => Holds(Acceptor)
    BY <1>3 DEF Phase, LocalInv, PlaceOK, Holds, Role, HoldingLabels
  <2> QED
    BY <1>2, <1>3, <1>5, <1>6, <2>1 DEF AcceptorKnows
<1>14. ASSUME NEW w \in Workers, frame'[w].cl = p  PROVE WorkerKnows(w, p, n)'
  <2>1. CASE w = t
    BY <1>11, <2>1
  <2>2. CASE w # t
    <3>1. ~Holds(w)'
      BY <1>5, <1>6, <1>14, <2>2 DEF Threads
    <3>2. TypeInv'
      BY TypeNext
    <3>3. w \in Threads /\ w # Acceptor /\ LocalInv(w)'
      BY <3>2, ThreadsAssumption DEF TypeInv, Threads
    <3>4. (Phase(w) \notin {"parse"} \cup PacketLabels)'
      BY <3>1, <3>3 DEF Holds, Role, Phase, LocalInv, PlaceOK, HoldingLabels, ServingLabels,
         PacketLabels, BeatLabels
    <3> QED
      BY <3>4 DEF WorkerKnows, PacketLabels
  <2> QED
    BY <2>1, <2>2
<1> QED
  BY <1>12, <1>13, <1>14 DEF Sight

(* AcceptThread: n is before the scan, or is beaten when the scan gets to  *)
(* it, or is not near the new client.                                      *)
LEMMA AcceptSight ==
  ASSUME TypeInv, OwnerInv, NpcsOnly, [Next]_vars, NEW p, NEW n, Pair(p, n), ~Covered(n)',
         Sight(p, n), AcceptStep(Acceptor)
  PROVE  Sight(p, n)'
<1> DEFINE t == Acceptor
           f == frame[t]
           g == frame'[t]
<1>1. ~Covered(n) /\ p \in Users /\ n \in Nat /\ n < NumOfNpc /\ isNPC(n) /\ n \notin Users
      /\ n \in Objects /\ p \in Objects
  BY CoveredStays, PairFacts DEF Pair
<1>2. /\ Settling(p, n) /\ AcceptorKnows(p, n)
      /\ \A w \in Workers : frame[w].cl = p => WorkerKnows(w, p, n)
  BY <1>1 DEF Sight
<1>3. /\ t \in Threads /\ OnlySelf(t) /\ Functional /\ OwnStep(t) /\ SharedType
      /\ f \in FrameType /\ t \notin Workers /\ f.idx \in Nat /\ f.cl \in Users
  BY AcceptLocal, ThreadsAssumption, FrameFields, SlotsAssumption DEF Threads, OwnStep, TypeInv, LocalInv
<1>4. \A w \in Workers : frame'[w] = frame[w] /\ Phase(w)' = Phase(w)
  BY <1>3, OthersSamePhase DEF Threads
<1>5. Fixing(p)' <=> Fixing(p)
  BY <1>4 DEF Fixing
<1>6. \A u \in Workers : ~PpMerge(u) /\ ~AcClear(u) /\ ~PpMove(u)
  <2> SUFFICES ASSUME NEW u \in Workers, PpMerge(u) \/ AcClear(u) \/ PpMove(u)  PROVE FALSE
    OBVIOUS
  <2>1. pc'[u] = pc[u] /\ pc'[u] # pc[u]
    BY <1>3 DEF OnlySelf, Functional, PpMerge, AcClear, PpMove, Goto, Threads
  <2> QED
    BY <2>1
<1>7. IsNear(p, n)' <=> IsNear(p, n)
  BY <1>6, NearKept
<1>8. ~PpMerge(t)
  BY <1>3 DEF PpMerge, TypeInv, LocalInv, CodeOf, BeatLabels, AcceptLabels
<1>9. (f.cl = p /\ AcClear(t)) \/ (Listed(p, n)' <=> Listed(p, n))
  BY <1>2, <1>6, <1>8, ListedKept DEF AcceptorKnows, Threads
<1>10. pc[t] \notin BeatLabels /\ Phase(t) = pc[t]
  BY <1>3, OwnStepShared DEF Phase
<1>11. ASSUME pc'[t] \notin BeatLabels  PROVE Phase(t)' = pc'[t]
  BY <1>11 DEF Phase
<1>12. ASSUME Listed(p, n)' <=> Listed(p, n)
       PROVE  \A w \in Workers : frame'[w].cl = p => WorkerKnows(w, p, n)'
  BY <1>2, <1>4, <1>7, <1>12, KnowsKept DEF PairKept
<1>13. ASSUME bConnected' = bConnected, AcceptorKnows(p, n)', Listed(p, n)' <=> Listed(p, n),
              Ahead(p, n) => Ahead(p, n)' \/ Listed(p, n) \/ ~IsNear(p, n)
       PROVE  Sight(p, n)'
  <2>1. Settling(p, n)'
    BY <1>2, <1>5, <1>7, <1>13 DEF Settling
  <2> QED
    BY <1>12, <1>13, <2>1 DEF Sight
<1> USE <1>1, <1>3, <1>10, <1>11 DEF Functional, Goto, Cl
<1>14. ASSUME NEW q \in Users, Accept(t, q)  PROVE Sight(p, n)'
  <2>1. /\ pc[t] = "accept" /\ g.idx = 0 /\ g.seen = {} /\ bConnected' = bConnected
        /\ Phase(t)' = "ac_clear"
    BY <1>14 DEF Accept, StartFrame, NoFrame, BeatLabels, slots
  <2>2. AcceptorKnows(p, n)' /\ ~Ahead(p, n)
    BY <2>1 DEF AcceptorKnows, Ahead
  <2>3. Listed(p, n)' <=> Listed(p, n)
    BY <1>9, <2>1 DEF AcClear
  <2> QED
    BY <1>13, <2>1, <2>2, <2>3
<1>15. CASE AcClear(t)
  <2>1. pc[t] = "ac_clear" /\ frame' = frame /\ bConnected' = bConnected /\ Phase(t)' = "ac_open"
    BY <1>15 DEF AcClear, BeatLabels, slots
  <2>2. CASE f.cl = p
    <3>1. Holds(t) /\ Role(t) = "ac_clear"
      BY <2>1 DEF Holds, Role, HoldingLabels
    <3>2. ~bConnected[p] /\ \A w \in Workers : frame[w].cl = p => ~Holds(w)
      BY <2>2, <3>1 DEF OwnerInv, OneHolder, HolderKnows, Threads
    <3>3. ~Listed(p, n)'
      BY <1>15, <2>2 DEF AcClear, Listed, SharedType
    <3>4. AcceptorKnows(p, n)'
      BY <1>2, <2>1, <3>3 DEF AcceptorKnows
    <3>5. Settling(p, n)'
      BY <2>1, <3>2 DEF Settling
    <3>6. ASSUME NEW w \in Workers, frame'[w].cl = p  PROVE WorkerKnows(w, p, n)'
      <4>1. ~Holds(w) /\ w \in Threads /\ w # Acceptor /\ LocalInv(w)
        BY <1>4, <3>2, <3>6 DEF TypeInv, Threads
      <4>2. Phase(w) \notin {"parse"} \cup PacketLabels
        BY <4>1 DEF Holds, Role, Phase, LocalInv, PlaceOK, HoldingLabels, ServingLabels,
           PacketLabels, BeatLabels
      <4> QED
        BY <1>4, <4>2 DEF WorkerKnows, PacketLabels
    <3> QED
      BY <3>4, <3>5, <3>6 DEF Sight
  <2>3. CASE f.cl # p
    <3>1. Listed(p, n)' <=> Listed(p, n)
      BY <1>9, <2>3
    <3>2. AcceptorKnows(p, n)' /\ (Ahead(p, n) => Ahead(p, n)')
      BY <1>2, <2>1, <2>3 DEF AcceptorKnows, Ahead
    <3> QED
      BY <1>13, <2>1, <3>1, <3>2
  <2> QED
    BY <2>2, <2>3
<1>16. ASSUME ~AcClear(t)  PROVE Listed(p, n)' <=> Listed(p, n)
  BY <1>9, <1>16
<1>17. CASE AcConnect(t)
  <2>1. /\ pc[t] = "ac_connect" /\ frame' = frame /\ Phase(t)' = "ac_live"
        /\ bConnected' = [bConnected EXCEPT ![f.cl] = TRUE]
    BY <1>17 DEF AcConnect, BeatLabels
  <2>2. Listed(p, n)' <=> Listed(p, n)
    BY <1>16, <2>1 DEF AcClear
  <2>3. AcceptorKnows(p, n)'
    BY <1>2, <2>1 DEF AcceptorKnows
  <2>4. CASE f.cl = p
    <3>1. ~Listed(p, n)' /\ Ahead(p, n)'
      BY <1>2, <2>1, <2>2, <2>4 DEF AcceptorKnows, Ahead, AcceptLabels
    <3> QED
      BY <1>12, <2>2, <2>3, <3>1 DEF Sight, Settling
  <2>5. CASE f.cl # p
    <3>1. bConnected'[p] = bConnected[p] /\ ~Ahead(p, n)
      BY <2>1, <2>5 DEF SharedType, Ahead
    <3> QED
      BY <1>2, <1>5, <1>7, <1>12, <2>2, <2>3, <3>1 DEF Sight, Settling
  <2> QED
    BY <2>4, <2>5
<1>18. CASE AcOpen(t) \/ AcLive(t) \/ AcRecv(t) \/ AcSelf(t)
  <2>1. frame' = frame /\ bConnected' = bConnected /\ ~AcClear(t)
    BY <1>18 DEF AcOpen, AcLive, AcRecv, AcSelf, AcClear, slots
  <2>2. /\ pc[t] = "ac_open" => Phase(t)' = "ac_connect"
        /\ pc[t] = "ac_live" => Phase(t)' = "ac_recv"
        /\ pc[t] = "ac_self" => Phase(t)' = "ac_scan"
    BY <1>18 DEF AcOpen, AcLive, AcRecv, AcSelf, BeatLabels
  <2>3. pc[t] = "ac_recv" => Phase(t)' = "ac_self"
    <3> SUFFICES ASSUME pc[t] = "ac_recv"  PROVE Phase(t)' = "ac_self"
      OBVIOUS
    <3>1. Role(t) = "ac_recv"
      BY DEF Role, HoldingLabels
    <3>2. CanPost(f.cl)
      BY <3>1 DEF OwnerInv, HolderKnows, Orderly, CanPost
    <3> QED
      BY <1>18, <3>2 DEF AcOpen, AcLive, AcRecv, AcSelf, BeatLabels
  <2>4. pc[t] \in {"ac_open", "ac_live", "ac_recv", "ac_self"}
    BY <1>18 DEF AcOpen, AcLive, AcRecv, AcSelf
  <2>5. AcceptorKnows(p, n)' /\ (Ahead(p, n) => Ahead(p, n)')
    BY <1>2, <1>16, <2>1, <2>2, <2>3, <2>4 DEF AcceptorKnows, Ahead, AcceptLabels
  <2> QED
    BY <1>13, <1>16, <2>1, <2>5
<1>19. ASSUME AcScan(t) \/ AcSee(t) \/ AcPeer(t) \/ AcPeerPut(t) \/ AcMerge(t)
       PROVE  bConnected' = bConnected /\ ~AcClear(t)
  BY <1>19 DEF AcScan, AcSee, AcPeer, AcPeerPut, AcMerge, AcClear, slots
<1>20. NextSlot(t) => g.idx = f.idx + 1 /\ g.seen = f.seen /\ g.cl = f.cl
  BY DEF NextSlot, FrameType
<1>21. CASE AcScan(t)
  <2> DEFINE i    == f.idx
             sees == i < NumOfNpc /\ bIsAlive[i] /\ i # f.cl /\ IsNear(i, f.cl)
  <2>1. pc[t] = "ac_scan"
    BY <1>21 DEF AcScan
  <2>2. i = n /\ f.cl = p => (sees <=> IsNear(p, n))
    <3>1. IsNear(p, n) <=> IsNear(n, p)
      <4>1. x[p] - x[n] \in Int /\ y[p] - y[n] \in Int
            /\ -(x[p] - x[n]) = x[n] - x[p] /\ -(y[p] - y[n]) = y[n] - y[p]
        BY DEF SharedType
      <4> QED
        BY <4>1, SightIsMutual DEF IsNear
    <3> QED
      BY <3>1 DEF Covered
  <2>3. CASE sees /\ isNPC(i) /\ WakeUpNPC(t, i, "ac_see") /\ frame' = frame
    <3>1. i \in Objects /\ ~bIsActive[i]
      BY <2>3, SlotsAssumption DEF NpcsOnly, Objects
    <3>2. Phase(t)' = "ac_see" /\ pc'[t] \in BeatLabels /\ beat'[t].npc = i
      BY <2>3, <3>1, WakeStep DEF BeatLabels
    <3>3. i # n
      BY <3>2 DEF Covered, Beating
    <3>4. AcceptorKnows(p, n)' /\ (Ahead(p, n) => Ahead(p, n)')
      BY <1>2, <2>1, <2>3, <3>2, <3>3 DEF AcceptorKnows, Ahead, AcceptLabels
    <3> QED
      BY <1>13, <1>16, <1>19, <1>21, <3>4
  <2>4. CASE sees /\ ~isNPC(i) /\ pc'[t] = "ac_see" /\ frame' = frame
    <3>1. Phase(t)' = "ac_see" /\ i # n
      BY <2>4 DEF BeatLabels
    <3>2. AcceptorKnows(p, n)' /\ (Ahead(p, n) => Ahead(p, n)')
      BY <1>2, <2>1, <2>4, <3>1 DEF AcceptorKnows, Ahead, AcceptLabels
    <3> QED
      BY <1>13, <1>16, <1>19, <1>21, <3>2
  <2>5. CASE ~sees /\ i < NumOfNpc /\ NextSlot(t) /\ pc' = pc
    <3>1. Phase(t)' = "ac_scan" /\ g.idx = i + 1 /\ g.seen = f.seen /\ g.cl = f.cl
      BY <1>20, <2>1, <2>5 DEF BeatLabels
    <3>2. AcceptorKnows(p, n)'
      BY <1>2, <2>1, <3>1 DEF AcceptorKnows
    <3>3. Ahead(p, n) => Ahead(p, n)' \/ ~IsNear(p, n)
      BY <2>1, <2>2, <2>5, <3>1 DEF Ahead, AcceptLabels
    <3> QED
      BY <1>13, <1>16, <1>19, <1>21, <3>2, <3>3
  <2>6. CASE i = NumOfNpc /\ pc'[t] = "ac_merge" /\ frame' = frame
    <3>1. Phase(t)' = "ac_merge"
      BY <2>6 DEF BeatLabels
    <3>2. AcceptorKnows(p, n)' /\ ~Ahead(p, n)
      BY <1>2, <2>1, <2>6, <3>1, SlotsAssumption DEF AcceptorKnows, Ahead
    <3> QED
      BY <1>13, <1>16, <1>19, <1>21, <3>2
  <2> QED
    BY <1>21, <2>3, <2>4, <2>5, <2>6 DEF AcScan
<1>22. CASE AcSee(t)
  <2>1. /\ pc[t] = "ac_see" /\ g.seen = f.seen \cup {f.idx} /\ g.idx = f.idx /\ g.cl = f.cl
        /\ Phase(t)' = "ac_peer"
    BY <1>22 DEF AcSee, FrameType, BeatLabels
  <2>2. AcceptorKnows(p, n)' /\ (Ahead(p, n) => Ahead(p, n)')
    BY <1>2, <2>1 DEF AcceptorKnows, Ahead, AcceptLabels
  <2> QED
    BY <1>13, <1>16, <1>19, <1>22, <2>2
<1>23. CASE AcPeer(t) \/ AcPeerPut(t)
  <2>1. pc[t] \in {"ac_peer", "ac_peer_put"} /\ f.idx # n
    BY <1>2, <1>23 DEF AcPeer, AcPeerPut, AcceptorKnows
  <2>2. \/ NextSlot(t) /\ Phase(t)' = "ac_scan"
        \/ frame' = frame /\ Phase(t)' = "ac_peer_put"
    BY <1>23 DEF AcPeer, AcPeerPut, BeatLabels
  <2>3. AcceptorKnows(p, n)' /\ (Ahead(p, n) => Ahead(p, n)')
    BY <1>2, <1>20, <2>1, <2>2 DEF AcceptorKnows, Ahead, AcceptLabels
  <2> QED
    BY <1>13, <1>16, <1>19, <1>23, <2>3
<1>24. CASE AcMerge(t)
  <2>1. pc[t] = "ac_merge" /\ g.seen = {} /\ Phase(t)' = "accept"
    BY <1>24 DEF AcMerge, StartFrame, NoFrame, BeatLabels
  <2>2. AcceptorKnows(p, n)' /\ ~Ahead(p, n)
    BY <2>1 DEF AcceptorKnows, Ahead
  <2> QED
    BY <1>13, <1>16, <1>19, <1>24, <2>2
<1> QED
  BY <1>14, <1>15, <1>17, <1>18, <1>21, <1>22, <1>23, <1>24 DEF AcceptStep

LEMMA SightNext ==
  ASSUME HardResets = FALSE
  PROVE  TypeInv /\ OwnerInv /\ NpcsOnly /\ SightInv /\ [Next]_vars => SightInv'
<1> SUFFICES ASSUME TypeInv, OwnerInv, NpcsOnly, SightInv, [Next]_vars,
                    NEW p \in Players, NEW n \in NPCs \ Users, ~Covered(n)'
    PROVE  Sight(p, n)'
  BY DEF SightInv, Sight
<1>1. Pair(p, n) /\ Sight(p, n)
  BY DEF Pair, SightInv
<1>2. ASSUME NEW t \in Threads, HeartBeatStep(t)  PROVE Sight(p, n)'
  <2>1. OnlySelf(t) /\ frame' = frame /\ bConnected' = bConnected /\ Phase(t)' = Phase(t)
        /\ pc[t] \in BeatLabels
    BY <1>2, HeartBeatLocal, BeatStep
  <2>2. \A u \in Threads : Phase(u)' = Phase(u)
    BY <2>1, OthersSamePhase
  <2>3. ASSUME NEW u \in Threads, PpMerge(u) \/ AcClear(u) \/ PpMove(u)  PROVE FALSE
    <3>1. u # t
      BY <2>1, <2>3 DEF PpMerge, AcClear, PpMove, BeatLabels
    <3>2. pc'[u] = pc[u] /\ pc'[u] # pc[u]
      BY <2>1, <2>3, <3>1 DEF TypeInv, OnlySelf, Functional, PpMerge, AcClear, PpMove, Goto
    <3> QED
      BY <3>2
  <2> QED
    BY <1>1, <2>1, <2>2, <2>3, QuietSight
<1>3. ASSUME UNCHANGED <<frame, bConnected, pc, beat>>  PROVE Sight(p, n)'
  <2>1. \A u \in Threads : Phase(u)' = Phase(u)
    BY <1>3 DEF Phase
  <2>2. \A u \in Threads : ~PpMerge(u) /\ ~AcClear(u) /\ ~PpMove(u)
    BY <1>3 DEF TypeInv, Functional, PpMerge, AcClear, PpMove, Goto
  <2> QED
    BY <1>1, <1>3, <2>1, <2>2, QuietSight
<1>4. ASSUME NEW t \in Workers, WorkerStep(t)  PROVE Sight(p, n)'
  BY <1>1, <1>4, OtherWorkerSight, PacketSight
<1>5. CASE AcceptStep(Acceptor)
  BY <1>1, <1>5, AcceptSight
<1>6. EnvironmentStep \/ UNCHANGED vars => UNCHANGED <<frame, bConnected, pc, beat>>
  BY TimerStep DEF vars
<1> QED
  BY <1>2, <1>3, <1>4, <1>5, <1>6 DEF Next, ThreadStep

LEMMA SightInit == Init => SightInv
<1> SUFFICES ASSUME Init, NEW p \in Players, NEW n \in NPCs \ Users  PROVE Sight(p, n)
  BY DEF SightInv
<1>1. Pair(p, n) /\ p \in Users /\ p \in Objects
  BY PairFacts DEF Pair
<1>2. \A t \in Threads : frame[t] = NoFrame
                         /\ Phase(t) = (IF t = Acceptor THEN "accept" ELSE "gqcs")
  BY DEF Init, Phase, BeatLabels
<1>3. ~bConnected[p]
  BY <1>1 DEF Init
<1>4. AcceptorKnows(p, n)
  BY <1>2 DEF AcceptorKnows, NoFrame, Threads
<1>5. \A w \in Workers : WorkerKnows(w, p, n)
  BY <1>2, ThreadsAssumption DEF WorkerKnows, Threads, PacketLabels
<1> QED
  BY <1>3, <1>4, <1>5 DEF Sight, Settling

(* Scans, merges and beats of any number of workers, clients and NPCs      *)
(* interleave as they like, and a disagreement that nobody is working on   *)
(* has a beat of that NPC waiting in a queue, which will look at every     *)
(* client again.                                                           *)
THEOREM StrandedSightIsQueued ==
  ASSUME HardResets = FALSE
  PROVE  Spec => []NpcSightSettles
<1>1. TypeInv /\ SightInv => NpcSightSettles
  <2> SUFFICES ASSUME TypeInv, SightInv, NEW p \in Players, NEW n \in NPCs \ Users,
                      bConnected[p], ~Busy(p), ~Covered(n)
      PROVE  (n \in view_list[p]) = IsNear(p, n)
    BY DEF NpcSightSettles, Covered
  <2>1. Settling(p, n)
    BY DEF SightInv, Sight
  <2>2. ~Fixing(p)
    <3> SUFFICES ASSUME NEW w \in Workers, frame[w].cl = p, Phase(w) \in PacketLabels  PROVE FALSE
      BY DEF Fixing
    <3>1. ~Idle(w) /\ ~(pc[w] \in BeatLabels /\ beat[w].back = "gqcs")
      BY DEF Idle, Phase, PacketLabels, BeatLabels
    <3> QED
      BY <3>1 DEF Busy, Threads
  <2>3. ~Ahead(p, n)
    <3> SUFFICES ASSUME frame[Acceptor].cl = p, Phase(Acceptor) \in AcceptLabels \ {"accept"}
        PROVE  FALSE
      BY DEF Ahead
    <3>1. ~Idle(Acceptor) /\ ~(pc[Acceptor] \in BeatLabels /\ beat[Acceptor].back = "gqcs")
      BY DEF Idle, Phase, AcceptLabels, BeatLabels
    <3> QED
      BY <3>1 DEF Busy, Threads
  <2> QED
    BY <2>1, <2>2, <2>3 DEF Settling, Listed, IsNear, Within
<1>2. Spec => []NpcsOnly
  BY TypeInvariant, NpcsOnlyInit, NpcsOnlyNext, PTL DEF Spec
<1>3. Spec => []SightInv
  BY <1>2, OwnerInvariant, SightInit, SightNext, PTL DEF Spec
<1> QED
  BY <1>1, <1>3, TypeInvariant, PTL
=============================================================================
