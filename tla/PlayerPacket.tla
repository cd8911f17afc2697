----------------------------- MODULE PlayerPacket -----------------------------
(***************************************************************************)
(* ProcessPacket: a client's move packet.  The worker moves the client,    *)
(* scans every slot for what it can see now, copies its old view list, and *)
(* compares the two: what came into view, what stays, what went out.  It   *)
(* corrects the other players' view lists as it goes and its own at the    *)
(* end, from the copies.                                                   *)
(***************************************************************************)
EXTENDS HeartBeat

Cl(t) == frame[t].cl

(* switch (packet[1]).  The repository's clients send the four moves only; *)
(* any other type ends the server (exit).                                  *)
PpMove(t) ==
  /\ pc[t] = "pp_move"
  /\ \E m \in Moves :
       /\ x' = [x EXCEPT ![Cl(t)] = MoveX(m, @)]
       /\ y' = [y EXCEPT ![Cl(t)] = MoveY(m, @)]
  /\ Goto(t, "pp_scan")
  /\ UNCHANGED <<slots, view_list, net, ai, shown, frame, beat>>

(* new_view_list, one slot at a time; the client finds itself too.         *)
PpScan(t) ==
  LET i == frame[t].idx
  IN /\ pc[t] = "pp_scan"
     /\ IF i = NumOfNpc
          THEN Goto(t, "pp_copy") /\ frame' = [frame EXCEPT ![t].idx = 0]
          ELSE /\ frame' = [frame EXCEPT ![t].idx = @ + 1,
                              ![t].seen = IF bIsAlive[i] /\ IsNear(Cl(t), i)
                                            THEN @ \cup {i} ELSE @]
               /\ UNCHANGED pc
     /\ UNCHANGED <<board, slots, view_list, net, ai, shown, beat>>

(* The old view list is not copied.                                        *)
PpCopyForgotten(t) ==
  /\ pc[t] = "pp_copy"
  /\ frame' = [frame EXCEPT ![t].todo = frame[t].seen]
  /\ Goto(t, "pp_each")
  /\ UNCHANGED <<board, slots, view_list, net, ai, shown, beat>>

PpCopy(t) ==
  /\ pc[t] = "pp_copy"
  /\ frame' = [frame EXCEPT ![t].ovl = view_list[Cl(t)], ![t].todo = frame[t].seen]
  /\ Goto(t, "pp_each")
  /\ UNCHANGED <<board, slots, view_list, net, ai, shown, beat>>

-----------------------------------------------------------------------------
(* for (auto id : new_view_list), in the set's own order.                  *)

PpEach(t) ==
  /\ pc[t] = "pp_each"
  /\ \/ \E o \in frame[t].todo :
          /\ frame' = [frame EXCEPT ![t].todo = @ \ {o}, ![t].id = o,
                                    ![t].ovl = @ \cup {o}]
          /\ Goto(t, IF o \notin frame[t].ovl THEN "pp_put"
                     ELSE IF IsPlayer(o) THEN "pp_peer" ELSE "pp_each")
     \/ /\ frame[t].todo = {}
        /\ frame' = [frame EXCEPT ![t].todo = frame[t].ovl \ frame[t].seen]
        /\ Goto(t, "pp_old")
  /\ UNCHANGED <<board, slots, view_list, net, ai, shown, beat>>

PpPut(t) ==
  /\ pc[t] = "pp_put"
  /\ SendPutPlayerPacket(Cl(t), frame[t].id)
  /\ Goto(t, IF IsPlayer(frame[t].id) THEN "pp_peer" ELSE "pp_each")
  /\ UNCHANGED <<board, slots, view_list, net, ai, frame, beat>>

(* The other player learns of this one: put, or only a new position.       *)
PpPeer(t) ==
  LET o == frame[t].id
  IN /\ pc[t] = "pp_peer"
     /\ IF Cl(t) \in view_list[o]
          THEN Goto(t, "pp_each") /\ UNCHANGED view_list
          ELSE Goto(t, "pp_peer_put") /\ See(o, Cl(t))
     /\ UNCHANGED <<board, slots, net, ai, shown, frame, beat>>

PpPeerPut(t) ==
  /\ pc[t] = "pp_peer_put"
  /\ SendPutPlayerPacket(frame[t].id, Cl(t))
  /\ Goto(t, "pp_each")
  /\ UNCHANGED <<board, slots, view_list, net, ai, frame, beat>>

-----------------------------------------------------------------------------
(* for (auto id : ovl), the ones that are not in new_view_list.            *)

PpOld(t) ==
  /\ pc[t] = "pp_old"
  /\ \/ \E o \in frame[t].todo :
          /\ frame' = [frame EXCEPT ![t].todo = @ \ {o}, ![t].id = o]
          /\ Goto(t, "pp_remove")
     \/ /\ frame[t].todo = {}
        /\ Goto(t, "pp_merge")
        /\ UNCHANGED frame
  /\ UNCHANGED <<board, slots, view_list, net, ai, shown, beat>>

(* The remove is sent, and an NPC that goes out of view is given a beat.   *)
PpRemove(t) ==
  LET o == frame[t].id
  IN /\ pc[t] = "pp_remove"
     /\ SendRemovePlayerPacket(Cl(t), o)
     /\ IF isNPC(o) THEN WakeUpNPC(t, o, "pp_unsee")
                    ELSE Goto(t, "pp_unsee") /\ UNCHANGED beat
     /\ UNCHANGED <<board, slots, view_list, net, ai, frame>>

PpUnsee(t) ==
  LET o == frame[t].id
  IN /\ pc[t] = "pp_unsee"
     /\ IF IsPlayer(o) /\ Cl(t) \in view_list[o]
          THEN Unsee(o, Cl(t)) /\ Goto(t, "pp_peer_remove")
          ELSE Goto(t, "pp_old") /\ UNCHANGED view_list
     /\ UNCHANGED <<board, slots, net, ai, shown, frame, beat>>

PpPeerRemove(t) ==
  /\ pc[t] = "pp_peer_remove"
  /\ SendRemovePlayerPacket(frame[t].id, Cl(t))
  /\ Goto(t, "pp_old")
  /\ UNCHANGED <<board, slots, view_list, net, ai, frame, beat>>

(* The merge inserts and erases nothing, or erases and inserts nothing.    *)
PpMergeNoErase(t) ==
  LET f == frame[t]
  IN /\ pc[t] = "pp_merge"
     /\ view_list' = [view_list EXCEPT ![f.cl] = @ \cup f.ovl]
     /\ frame' = [frame EXCEPT ![t] = [NoFrame EXCEPT !.cl = f.cl, !.left = f.left]]
     /\ Goto(t, "parse")
     /\ UNCHANGED <<board, slots, net, ai, shown, beat>>

PpMergeNoInsert(t) ==
  LET f == frame[t]
  IN /\ pc[t] = "pp_merge"
     /\ view_list' = [view_list EXCEPT ![f.cl] = @ \ (f.ovl \ f.seen)]
     /\ frame' = [frame EXCEPT ![t] = [NoFrame EXCEPT !.cl = f.cl, !.left = f.left]]
     /\ Goto(t, "parse")
     /\ UNCHANGED <<board, slots, net, ai, shown, beat>>

(* remove_list is ovl \ new_view_list by now.                              *)
PpMerge(t) ==
  LET f == frame[t]
  IN /\ pc[t] = "pp_merge"
     /\ view_list' = [view_list EXCEPT ![f.cl] = (@ \cup f.ovl) \ (f.ovl \ f.seen)]
     /\ frame' = [frame EXCEPT ![t] = [NoFrame EXCEPT !.cl = f.cl, !.left = f.left]]
     /\ Goto(t, "parse")
     /\ UNCHANGED <<board, slots, net, ai, shown, beat>>

PacketStep(t) ==
  \/ PpMove(t) \/ PpScan(t) \/ PpCopy(t)
  \/ PpEach(t) \/ PpPut(t) \/ PpPeer(t) \/ PpPeerPut(t)
  \/ PpOld(t) \/ PpRemove(t) \/ PpUnsee(t) \/ PpPeerRemove(t) \/ PpMerge(t)
=============================================================================
