------------------------------ MODULE HeartBeat ------------------------------
(***************************************************************************)
(* HEART_BEAT: one beat of an NPC.  It runs on a worker that took an       *)
(* E_DOAI completion, and nested inside ProcessPacket and AcceptThread     *)
(* through WakeUpNPC.  Nothing stops two threads from beating the same NPC.*)
(***************************************************************************)
EXTENDS ServerState

HbNpc(t) == beat[t].npc

AxisIsX(dir) == dir \in {0, 2}

(* gclients[i].x++ is a load and a store; another beat may come between.   *)
(* So may another beat's clamp, and a stale store after it leaves the NPC  *)
(* outside the board; the wrong clamp of direction 1 does so on its own.   *)
(* NpcOverrun bounds how far out a further step outwards is drawn.         *)
InBounds(dir, n) ==
  /\ dir = 0 => x[n] < BoardWidth + NpcOverrun
  /\ dir = 1 => y[n] < BoardHeight + NpcOverrun
  /\ dir = 2 => x[n] >= -NpcOverrun
  /\ dir = 3 => y[n] >= -NpcOverrun

HbLoad(t) ==
  /\ pc[t] = "hb_load"
  /\ \E dir \in Directions :
       /\ InBounds(dir, HbNpc(t))
       /\ beat' = [beat EXCEPT ![t].dir = dir,
                     ![t].tmp = IF AxisIsX(dir) THEN x[HbNpc(t)] ELSE y[HbNpc(t)]]
  /\ Goto(t, "hb_store")
  /\ UNCHANGED <<board, slots, view_list, net, ai, shown, frame>>

HbStore(t) ==
  LET b == beat[t]
      v == b.tmp + StepOf(b.dir)
  IN /\ pc[t] = "hb_store"
     /\ x' = IF AxisIsX(b.dir) THEN [x EXCEPT ![b.npc] = v] ELSE x
     /\ y' = IF AxisIsX(b.dir) THEN y ELSE [y EXCEPT ![b.npc] = v]
     /\ Goto(t, "hb_clamp")
     /\ UNCHANGED <<slots, view_list, net, ai, shown, frame, beat>>

HbClamp(t) ==
  LET b == beat[t]
  IN /\ pc[t] = "hb_clamp"
     /\ x' = [x EXCEPT ![b.npc] = ClampX(b.dir, @, y[b.npc])]
     /\ y' = [y EXCEPT ![b.npc] = ClampY(b.dir, @)]
     /\ beat' = [beat EXCEPT ![t].dir = 0, ![t].tmp = 0]
     /\ Goto(t, "hb_view")
     /\ UNCHANGED <<slots, view_list, net, ai, shown, frame>>

-----------------------------------------------------------------------------
(* First loop: correct the view list of every connected user.              *)

NextUser(t) == beat' = [beat EXCEPT ![t].pi = @ + 1]

(* bConnected and the coordinates are read in one step; the critical       *)
(* section is another, and does not look at the coordinates again.         *)
HbView(t) ==
  LET p == beat[t].pi
  IN /\ pc[t] = "hb_view"
     /\ \/ /\ p = MaxUser
           /\ beat' = [beat EXCEPT ![t].pi = 0]
           /\ Goto(t, "hb_alive")
        \/ /\ p < MaxUser /\ ~bConnected[p]
           /\ NextUser(t)
           /\ UNCHANGED pc
        \/ /\ p < MaxUser /\ bConnected[p]
           /\ Goto(t, IF IsNear(p, HbNpc(t)) THEN "hb_near" ELSE "hb_far")
           /\ UNCHANGED beat
     /\ UNCHANGED <<board, slots, view_list, net, ai, shown, frame>>

HbNear(t) ==
  LET p == beat[t].pi
  IN /\ pc[t] = "hb_near"
     /\ IF HbNpc(t) \in view_list[p]
          THEN NextUser(t) /\ Goto(t, "hb_view") /\ UNCHANGED view_list
          ELSE See(p, HbNpc(t)) /\ Goto(t, "hb_put") /\ UNCHANGED beat
     /\ UNCHANGED <<board, slots, net, ai, shown, frame>>

HbFar(t) ==
  LET p == beat[t].pi
  IN /\ pc[t] = "hb_far"
     /\ IF HbNpc(t) \in view_list[p]
          THEN Unsee(p, HbNpc(t)) /\ Goto(t, "hb_remove") /\ UNCHANGED beat
          ELSE NextUser(t) /\ Goto(t, "hb_view") /\ UNCHANGED view_list
     /\ UNCHANGED <<board, slots, net, ai, shown, frame>>

HbPut(t) ==
  /\ pc[t] = "hb_put"
  /\ SendPutPlayerPacket(beat[t].pi, HbNpc(t))
  /\ NextUser(t) /\ Goto(t, "hb_view")
  /\ UNCHANGED <<board, slots, view_list, net, ai, frame>>

HbRemove(t) ==
  /\ pc[t] = "hb_remove"
  /\ SendRemovePlayerPacket(beat[t].pi, HbNpc(t))
  /\ NextUser(t) /\ Goto(t, "hb_view")
  /\ UNCHANGED <<board, slots, view_list, net, ai, frame>>

-----------------------------------------------------------------------------
(* Second loop: stay alive, and be called again, while a user is near.     *)

(* The beat always returns to the worker loop.                             *)
HbReturnToLoop(t) ==
  /\ beat' = [beat EXCEPT ![t] = NoBeat]
  /\ Goto(t, "gqcs")

HbReturn(t) ==
  /\ beat' = [beat EXCEPT ![t] = NoBeat]
  /\ Goto(t, beat[t].back)

(* An NPC that finds nobody near is not marked dead.                       *)
HbAliveForever(t) ==
  LET p == beat[t].pi
  IN /\ pc[t] = "hb_alive"
     /\ \/ /\ p < MaxUser /\ bConnected[p] /\ IsNear(p, HbNpc(t))
           /\ Goto(t, "hb_revive") /\ UNCHANGED beat
        \/ /\ p < MaxUser /\ ~(bConnected[p] /\ IsNear(p, HbNpc(t)))
           /\ NextUser(t) /\ UNCHANGED pc
        \/ p = MaxUser /\ HbReturn(t)
     /\ UNCHANGED <<board, slots, view_list, net, ai, shown, frame>>

HbAlive(t) ==
  LET p == beat[t].pi
  IN /\ pc[t] = "hb_alive"
     /\ \/ /\ p < MaxUser /\ bConnected[p] /\ IsNear(p, HbNpc(t))
           /\ Goto(t, "hb_revive")
           /\ UNCHANGED <<bIsAlive, beat>>
        \/ /\ p < MaxUser /\ ~(bConnected[p] /\ IsNear(p, HbNpc(t)))
           /\ NextUser(t)
           /\ UNCHANGED <<bIsAlive, pc>>
        \/ /\ p = MaxUser
           /\ bIsAlive' = [bIsAlive EXCEPT ![HbNpc(t)] = FALSE]
           /\ HbReturn(t)
     /\ UNCHANGED <<board, bConnected, bIsActive, view_list, net, ai, shown, frame>>

HbRevive(t) ==
  /\ pc[t] = "hb_revive"
  /\ bIsAlive' = [bIsAlive EXCEPT ![HbNpc(t)] = TRUE]
  /\ Goto(t, "hb_push")
  /\ UNCHANGED <<board, bConnected, bIsActive, view_list, net, ai, shown, frame, beat>>

(* The next beat is not scheduled.                                         *)
HbPushForgotten(t) ==
  /\ pc[t] = "hb_push"
  /\ HbReturn(t)
  /\ UNCHANGED <<board, slots, view_list, net, ai, shown, frame>>

HbPush(t) ==
  /\ pc[t] = "hb_push"
  /\ timer_queue' = [timer_queue EXCEPT ![HbNpc(t)] = Capped(@ + 1)]
  /\ HbReturn(t)
  /\ UNCHANGED <<board, slots, view_list, net, posted, shown, frame>>

HeartBeatStep(t) ==
  \/ HbLoad(t) \/ HbStore(t) \/ HbClamp(t)
  \/ HbView(t) \/ HbNear(t) \/ HbFar(t) \/ HbPut(t) \/ HbRemove(t)
  \/ HbAlive(t) \/ HbRevive(t) \/ HbPush(t)
=============================================================================
