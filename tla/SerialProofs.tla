----------------------------- MODULE SerialProofs -----------------------------
(***************************************************************************)
(* Handlers that do not overlap: the theorems of SerialSpec, and of the    *)
(* serial server as an implementation of Visibility.                       *)
(***************************************************************************)
EXTENDS ViewListProofs, SerialVisibility

-----------------------------------------------------------------------------
(* What a thread's own copies say, whatever the schedule.                  *)

EachLabels == {"pp_each", "pp_put", "pp_peer", "pp_peer_put"}
OldLabels  == {"pp_old", "pp_remove", "pp_unsee", "pp_peer_remove", "pp_merge"}
JoinLabels == {"ac_clear", "ac_open", "ac_connect", "ac_live", "ac_recv", "ac_self"}
ScanLabels == {"ac_scan", "ac_see", "ac_peer", "ac_peer_put", "ac_merge"}

Copies(t) ==
  LET f == frame[t]
      at == Phase(t)
  IN /\ at \in {"parse", "pp_move", "dc_close", "dc_free", "dc_dead"} \cup JoinLabels
          => f.idx = 0 /\ f.seen = {}
     /\ at \in EachLabels => f.todo \subseteq f.seen /\ f.seen \subseteq f.ovl \cup f.todo
     /\ at \in {"pp_put", "pp_peer", "pp_peer_put"} => f.id \in f.ovl \cap f.seen /\ f.id \notin f.todo
     /\ at \in OldLabels => f.todo \subseteq f.ovl \ f.seen /\ f.seen \subseteq f.ovl
     /\ at \in {"pp_remove", "pp_unsee", "pp_peer_remove"} => f.id \in f.ovl \ f.seen /\ f.id \notin f.todo
     /\ at = "pp_merge" => f.todo = {}
     /\ at \in {"ac_scan", "ac_see"} => \A o \in f.seen : o < f.idx
     /\ at \in {"ac_peer", "ac_peer_put"} => \A o \in f.seen : o <= f.idx
     /\ at = "ac_merge" => f.idx = NumOfNpc

CallOf(t) ==
  /\ pc[t] \in {"hb_load", "hb_store", "hb_clamp"} => beat[t].pi = 0
  /\ pc[t] \in BeatLabels /\ Phase(t) = "pp_unsee" => beat[t].npc = frame[t].id
  /\ pc[t] \in BeatLabels /\ Phase(t) = "ac_see" => beat[t].npc = frame[t].idx

CopiesInv == \A t \in Threads : Copies(t) /\ CallOf(t)

(* What each step of ProcessPacket does to the worker's copies.            *)
LEMMA PacketValues ==
  ASSUME TypeInv, NpcsOnly, NEW t \in Workers, PacketStep(t)
  PROVE  LET f == frame[t]
             g == frame'[t]
         IN /\ Phase(t) = pc[t] /\ pc[t] \in PacketLabels /\ g.cl = f.cl
            /\ pc'[t] \notin BeatLabels => Phase(t)' = pc'[t]
            /\ pc'[t] \in BeatLabels =>
                 /\ PpRemove(t) /\ isNPC(f.id) /\ pc'[t] = "hb_load"
                 /\ beat'[t].npc = f.id /\ beat'[t].pi = 0
            /\ PpMove(t) => pc[t] = "pp_move" /\ pc'[t] = "pp_scan" /\ g = f
            /\ PpScan(t) /\ f.idx = NumOfNpc =>
                 pc[t] = "pp_scan" /\ pc'[t] = "pp_copy" /\ g.seen = f.seen
            /\ PpScan(t) /\ f.idx # NumOfNpc =>
                 /\ pc[t] = "pp_scan" /\ pc'[t] = "pp_scan" /\ g.idx = f.idx + 1
                 /\ g.seen = IF bIsAlive[f.idx] /\ IsNear(f.cl, f.idx)
                               THEN f.seen \cup {f.idx} ELSE f.seen
            /\ PpCopy(t) =>
                 /\ pc[t] = "pp_copy" /\ pc'[t] = "pp_each" /\ g.seen = f.seen
                 /\ g.ovl = view_list[f.cl] /\ g.todo = f.seen
            /\ PpEach(t) =>
                 /\ pc[t] = "pp_each" /\ g.seen = f.seen
                 /\ \/ /\ f.todo = {} /\ pc'[t] = "pp_old"
                       /\ g.ovl = f.ovl /\ g.todo = f.ovl \ f.seen
                    \/ /\ g.id \in f.todo /\ g.todo = f.todo \ {g.id}
                       /\ g.ovl = f.ovl \cup {g.id}
                       /\ pc'[t] = IF g.id \notin f.ovl THEN "pp_put"
                                   ELSE IF IsPlayer(g.id) THEN "pp_peer" ELSE "pp_each"
            /\ PpPut(t) =>
                 /\ pc[t] = "pp_put" /\ g = f
                 /\ pc'[t] = IF IsPlayer(f.id) THEN "pp_peer" ELSE "pp_each"
            /\ PpPeer(t) => pc[t] = "pp_peer" /\ pc'[t] \in {"pp_each", "pp_peer_put"} /\ g = f
            /\ PpPeerPut(t) => pc[t] = "pp_peer_put" /\ pc'[t] = "pp_each" /\ g = f
            /\ PpOld(t) =>
                 /\ pc[t] = "pp_old" /\ g.seen = f.seen /\ g.ovl = f.ovl
                 /\ \/ f.todo = {} /\ pc'[t] = "pp_merge" /\ g.todo = {}
                    \/ g.id \in f.todo /\ g.todo = f.todo \ {g.id} /\ pc'[t] = "pp_remove"
            /\ PpRemove(t) => pc[t] = "pp_remove" /\ Phase(t)' = "pp_unsee" /\ g = f
            /\ PpUnsee(t) => pc[t] = "pp_unsee" /\ pc'[t] \in {"pp_old", "pp_peer_remove"} /\ g = f
            /\ PpPeerRemove(t) => pc[t] = "pp_peer_remove" /\ pc'[t] = "pp_old" /\ g = f
            /\ PpMerge(t) => pc[t] = "pp_merge" /\ pc'[t] = "parse" /\ g.idx = 0 /\ g.seen = {}
<1> DEFINE f == frame[t]
           g == frame'[t]
<1>1. /\ t \in Threads /\ Functional /\ f \in FrameType /\ OwnStep(t) /\ f.id \in Objects
  BY FrameFields DEF Threads, TypeInv, LocalInv, OwnStep, WorkerStep
<1>2. pc[t] \in PacketLabels /\ Phase(t) = pc[t]
  BY <1>1, OwnStepShared DEF PacketStep, PpMove, PpScan, PpCopy, PpEach, PpPut, PpPeer, PpPeerPut,
     PpOld, PpRemove, PpUnsee, PpPeerRemove, PpMerge, Phase, PacketLabels
<1>3. pc'[t] \notin BeatLabels => Phase(t)' = pc'[t]
  BY DEF Phase
<1> USE <1>1 DEF Functional, Goto, Cl
<1>4. PpMove(t) => pc[t] = "pp_move" /\ pc'[t] = "pp_scan" /\ g = f
  BY DEF PpMove
<1>5. PpScan(t) /\ f.idx = NumOfNpc =>
        pc[t] = "pp_scan" /\ pc'[t] = "pp_copy" /\ g.seen = f.seen /\ g.cl = f.cl
  BY DEF PpScan, FrameType
<1>6. PpScan(t) /\ f.idx # NumOfNpc =>
        /\ pc[t] = "pp_scan" /\ pc'[t] = "pp_scan" /\ g.idx = f.idx + 1 /\ g.cl = f.cl
        /\ g.seen = IF bIsAlive[f.idx] /\ IsNear(f.cl, f.idx)
                      THEN f.seen \cup {f.idx} ELSE f.seen
  <2> SUFFICES ASSUME PpScan(t), f.idx # NumOfNpc  PROVE <1>6!2
    OBVIOUS
  <2>1. /\ g = [f EXCEPT !.idx = f.idx + 1,
                         !.seen = IF bIsAlive[f.idx] /\ IsNear(f.cl, f.idx)
                                    THEN f.seen \cup {f.idx} ELSE f.seen]
        /\ pc[t] = "pp_scan" /\ pc'[t] = "pp_scan"
    BY DEF PpScan
  <2> QED
    BY <2>1 DEF FrameType
<1>7. PpCopy(t) =>
        /\ pc[t] = "pp_copy" /\ pc'[t] = "pp_each" /\ g.seen = f.seen
        /\ g.ovl = view_list[f.cl] /\ g.todo = f.seen /\ g.cl = f.cl
  <2> SUFFICES ASSUME PpCopy(t)  PROVE <1>7!2
    OBVIOUS
  <2>1. /\ g = [f EXCEPT !.ovl = view_list[f.cl], !.todo = f.seen]
        /\ pc[t] = "pp_copy" /\ pc'[t] = "pp_each"
    BY DEF PpCopy
  <2> QED
    BY <2>1 DEF FrameType
<1>8. PpEach(t) =>
        /\ pc[t] = "pp_each" /\ g.seen = f.seen /\ g.cl = f.cl
        /\ \/ /\ f.todo = {} /\ pc'[t] = "pp_old"
              /\ g.ovl = f.ovl /\ g.todo = f.ovl \ f.seen
           \/ /\ g.id \in f.todo /\ g.todo = f.todo \ {g.id}
              /\ g.ovl = f.ovl \cup {g.id}
              /\ pc'[t] = IF g.id \notin f.ovl THEN "pp_put"
                          ELSE IF IsPlayer(g.id) THEN "pp_peer" ELSE "pp_each"
  <2> SUFFICES ASSUME PpEach(t)  PROVE <1>8!2
    OBVIOUS
  <2>1. CASE f.todo = {}
    <3>1. g = [f EXCEPT !.todo = f.ovl \ f.seen] /\ pc[t] = "pp_each" /\ pc'[t] = "pp_old"
      BY <2>1 DEF PpEach
    <3> QED
      BY <2>1, <3>1 DEF FrameType
  <2>2. CASE f.todo # {}
    <3>1. PICK o \in f.todo :
            /\ frame' = [frame EXCEPT ![t].todo = @ \ {o}, ![t].id = o, ![t].ovl = @ \cup {o}]
            /\ Goto(t, IF o \notin frame[t].ovl THEN "pp_put"
                       ELSE IF IsPlayer(o) THEN "pp_peer" ELSE "pp_each")
      BY <2>2 DEF PpEach
    <3>2. g = [f EXCEPT !.todo = f.todo \ {o}, !.id = o, !.ovl = f.ovl \cup {o}]
      BY <3>1
    <3>3. /\ g.id = o /\ g.todo = f.todo \ {o} /\ g.ovl = f.ovl \cup {o}
          /\ g.seen = f.seen /\ g.cl = f.cl
      BY <3>2 DEF FrameType
    <3> QED
      BY <3>1, <3>3 DEF PpEach
  <2> QED
    BY <2>1, <2>2
<1>9. PpPut(t) => /\ pc[t] = "pp_put" /\ g = f
                  /\ pc'[t] = IF IsPlayer(f.id) THEN "pp_peer" ELSE "pp_each"
  BY DEF PpPut
<1>10. /\ PpPeer(t) => pc[t] = "pp_peer" /\ pc'[t] \in {"pp_each", "pp_peer_put"} /\ g = f
       /\ PpPeerPut(t) => pc[t] = "pp_peer_put" /\ pc'[t] = "pp_each" /\ g = f
       /\ PpUnsee(t) => pc[t] = "pp_unsee" /\ pc'[t] \in {"pp_old", "pp_peer_remove"} /\ g = f
       /\ PpPeerRemove(t) => pc[t] = "pp_peer_remove" /\ pc'[t] = "pp_old" /\ g = f
  BY DEF PpPeer, PpPeerPut, PpUnsee, PpPeerRemove
<1>11. PpOld(t) =>
         /\ pc[t] = "pp_old" /\ g.seen = f.seen /\ g.ovl = f.ovl /\ g.cl = f.cl
         /\ \/ f.todo = {} /\ pc'[t] = "pp_merge" /\ g.todo = {}
            \/ g.id \in f.todo /\ g.todo = f.todo \ {g.id} /\ pc'[t] = "pp_remove"
  <2> SUFFICES ASSUME PpOld(t)  PROVE <1>11!2
    OBVIOUS
  <2>1. CASE f.todo = {}
    BY <2>1 DEF PpOld
  <2>2. CASE f.todo # {}
    <3>1. PICK o \in f.todo : /\ frame' = [frame EXCEPT ![t].todo = @ \ {o}, ![t].id = o]
                              /\ Goto(t, "pp_remove")
      BY <2>2 DEF PpOld
    <3>2. g = [f EXCEPT !.todo = f.todo \ {o}, !.id = o]
      BY <3>1
    <3>3. /\ g.id = o /\ g.todo = f.todo \ {o} /\ g.ovl = f.ovl /\ g.seen = f.seen /\ g.cl = f.cl
      BY <3>2 DEF FrameType
    <3> QED
      BY <3>1, <3>3 DEF PpOld
  <2> QED
    BY <2>1, <2>2
<1>12. PpMerge(t) => pc[t] = "pp_merge" /\ pc'[t] = "parse" /\ g.idx = 0 /\ g.seen = {} /\ g.cl = f.cl
  BY DEF PpMerge, NoFrame
<1>13. ASSUME PpRemove(t)
       PROVE  /\ pc[t] = "pp_remove" /\ Phase(t)' = "pp_unsee" /\ g = f
              /\ pc'[t] \in BeatLabels => isNPC(f.id) /\ pc'[t] = "hb_load" /\ beat'[t].npc = f.id
                                          /\ beat'[t].pi = 0
  <2>1. pc[t] = "pp_remove" /\ g = f
    BY <1>13 DEF PpRemove
  <2>2. CASE isNPC(f.id)
    <3>1. WakeUpNPC(t, f.id, "pp_unsee") /\ ~bIsActive[f.id]
      BY <1>13, <2>2 DEF PpRemove, NpcsOnly
    <3>2. Phase(t)' = "pp_unsee" /\ pc'[t] = "hb_load" /\ beat'[t].npc = f.id
      BY <3>1, WakeStep
    <3>3. beat'[t] = [NoBeat EXCEPT !.npc = f.id, !.back = "pp_unsee"]
      BY <3>1 DEF WakeUpNPC, EnterHeartBeat
    <3> QED
      BY <2>1, <2>2, <3>2, <3>3 DEF NoBeat
  <2>3. CASE ~isNPC(f.id)
    BY <1>3, <1>13, <2>1, <2>3 DEF PpRemove, BeatLabels
  <2> QED
    BY <2>2, <2>3
<1>14. PacketStep(t) /\ ~PpRemove(t) => pc'[t] \notin BeatLabels
  BY <1>4, <1>5, <1>6, <1>7, <1>8, <1>9, <1>10, <1>11, <1>12 DEF PacketStep, BeatLabels
<1>15. g.cl = f.cl
  BY <1>4, <1>5, <1>6, <1>7, <1>8, <1>9, <1>10, <1>11, <1>12, <1>13 DEF PacketStep
<1> QED
  BY <1>2, <1>3, <1>4, <1>5, <1>6, <1>7, <1>8, <1>9, <1>10, <1>11, <1>12, <1>13, <1>14, <1>15

(* The same of WorkerThread's and DisconnectClient's own steps.            *)
LEMMA WorkerValues ==
  ASSUME TypeInv, NpcsOnly, NEW t \in Workers
  PROVE  LET f == frame[t]
             g == frame'[t]
         IN /\ \A p \in Users : RecvData(t, p) =>
                 pc[t] = "gqcs" /\ pc'[t] = "parse" /\ g.cl = p /\ g.idx = 0 /\ g.seen = {}
            /\ \A p \in Users : RecvEof(t, p) \/ LostCompletion(t, p) =>
                 pc[t] = "gqcs" /\ pc'[t] = "dc_close" /\ g.cl = p /\ g.idx = 0 /\ g.seen = {}
            /\ \A p \in Users : AbortedCompletion(t, p) => pc[t] = "gqcs" /\ pc'[t] = "hung" /\ g = f
            /\ \A n \in Objects : DoAi(t, n) =>
                 /\ pc[t] = "gqcs" /\ Phase(t)' = "gqcs" /\ pc'[t] = "hb_load" /\ g = f
                 /\ beat'[t].npc = n /\ beat'[t].pi = 0
            /\ Parse(t) => /\ pc[t] = "parse" /\ pc'[t] \in {"pp_move", "rearm"}
                           /\ g.cl = f.cl /\ g.idx = f.idx /\ g.seen = f.seen
            /\ Rearm(t) => pc[t] = "rearm" /\ pc'[t] \in {"gqcs", "hung"}
            /\ DcClose(t) => pc[t] = "dc_close" /\ pc'[t] = "dc_free" /\ g = f
            /\ DcFree(t) => pc[t] = "dc_free" /\ pc'[t] = "dc_dead" /\ g = f
            /\ DcDead(t) => pc[t] = "dc_dead" /\ pc'[t] = "dc_scan" /\ g = f
            /\ DcScan(t) =>
                 /\ pc[t] = "dc_scan"
                 /\ \/ pc'[t] = "dc_remove" /\ g = f /\ f.idx < MaxUser
                    \/ pc'[t] = "dc_scan" /\ g.cl = f.cl /\ g.idx = f.idx + 1 /\ f.idx < MaxUser
                    \/ pc'[t] = "gqcs" /\ f.idx = MaxUser
                    \/ /\ pc'[t] = "dc_close" /\ g.cl = f.cl /\ g.idx = 0 /\ g.seen = {}
                       /\ f.idx = MaxUser
            /\ DcRemove(t) => /\ pc[t] = "dc_remove" /\ pc'[t] = "dc_scan" /\ g.cl = f.cl
                              /\ g.idx = f.idx + 1
<1> DEFINE f == frame[t]
           g == frame'[t]
<1>1. t \in Threads /\ Functional /\ f \in FrameType /\ f.idx \in 0 .. NumOfNpc
  BY FrameFields DEF Threads, TypeInv, LocalInv
<1> USE <1>1 DEF Functional, Goto, Cl, StartFrame
<1>2. ASSUME NEW p \in Users, RecvData(t, p)
      PROVE  pc[t] = "gqcs" /\ pc'[t] = "parse" /\ g.cl = p /\ g.idx = 0 /\ g.seen = {}
  <2>1. PICK n \in 0 .. RecvPackets : g = [NoFrame EXCEPT !.cl = p, !.left = n]
    BY <1>2 DEF RecvData
  <2> QED
    BY <1>2, <2>1 DEF RecvData, NoFrame
<1>3. ASSUME NEW p \in Users, RecvEof(t, p) \/ LostCompletion(t, p)
      PROVE  pc[t] = "gqcs" /\ pc'[t] = "dc_close" /\ g.cl = p /\ g.idx = 0 /\ g.seen = {}
  <2>1. g = [NoFrame EXCEPT !.cl = p] \/ g = [NoFrame EXCEPT !.cl = p, !.again = TRUE]
    BY <1>3 DEF RecvEof, LostCompletion
  <2> QED
    BY <1>3, <2>1 DEF RecvEof, LostCompletion, NoFrame
<1>4. ASSUME NEW p \in Users, AbortedCompletion(t, p)
      PROVE  pc[t] = "gqcs" /\ pc'[t] = "hung" /\ g = f
  BY <1>4 DEF AbortedCompletion
<1>5. ASSUME NEW n \in Objects, DoAi(t, n)
      PROVE  /\ pc[t] = "gqcs" /\ Phase(t)' = "gqcs" /\ pc'[t] = "hb_load" /\ g = f
             /\ beat'[t].npc = n /\ beat'[t].pi = 0
  <2>1. /\ pc[t] = "gqcs" /\ pc'[t] = "hb_load" /\ g = f
        /\ beat'[t] = [NoBeat EXCEPT !.npc = n, !.back = "gqcs"]
    BY <1>5 DEF DoAi, EnterHeartBeat
  <2> QED
    BY <2>1 DEF NoBeat, Phase, BeatLabels
<1>6. Parse(t) => /\ pc[t] = "parse" /\ pc'[t] \in {"pp_move", "rearm"}
                  /\ g.cl = f.cl /\ g.idx = f.idx /\ g.seen = f.seen
  <2> SUFFICES ASSUME Parse(t)  PROVE <1>6!2
    OBVIOUS
  <2>1. /\ pc[t] = "parse" /\ pc'[t] \in {"pp_move", "rearm"}
        /\ g = [f EXCEPT !.left = f.left - 1] \/ g = f
    BY DEF Parse
  <2> QED
    BY <2>1 DEF FrameType
<1>7. Rearm(t) => pc[t] = "rearm" /\ pc'[t] \in {"gqcs", "hung"}
  BY DEF Rearm
<1>8. /\ DcClose(t) => pc[t] = "dc_close" /\ pc'[t] = "dc_free" /\ g = f
      /\ DcFree(t) => pc[t] = "dc_free" /\ pc'[t] = "dc_dead" /\ g = f
      /\ DcDead(t) => pc[t] = "dc_dead" /\ pc'[t] = "dc_scan" /\ g = f
  BY DEF DcClose, DcFree, DcDead
<1>9. DcReturn(t) =>
        \/ pc'[t] = "gqcs"
        \/ pc'[t] = "dc_close" /\ g.cl = f.cl /\ g.idx = 0 /\ g.seen = {}
  BY DEF DcReturn, NoFrame
<1>10. frame' = [frame EXCEPT ![t].idx = @ + 1] => g.cl = f.cl /\ g.idx = f.idx + 1
  <2> SUFFICES ASSUME frame' = [frame EXCEPT ![t].idx = @ + 1]
               PROVE  g.cl = f.cl /\ g.idx = f.idx + 1
    OBVIOUS
  <2>1. g = [f EXCEPT !.idx = f.idx + 1]
    OBVIOUS
  <2> QED
    BY <2>1 DEF FrameType
<1>11. DcScan(t) =>
         /\ pc[t] = "dc_scan"
         /\ \/ pc'[t] = "dc_remove" /\ g = f /\ f.idx < MaxUser
            \/ pc'[t] = "dc_scan" /\ g.cl = f.cl /\ g.idx = f.idx + 1 /\ f.idx < MaxUser
            \/ pc'[t] = "gqcs" /\ f.idx = MaxUser
            \/ /\ pc'[t] = "dc_close" /\ g.cl = f.cl /\ g.idx = 0 /\ g.seen = {}
               /\ f.idx = MaxUser
  BY <1>9, <1>10 DEF DcScan
<1>12. DcRemove(t) => /\ pc[t] = "dc_remove" /\ pc'[t] = "dc_scan" /\ g.cl = f.cl
                      /\ g.idx = f.idx + 1
  BY <1>10 DEF DcRemove
<1> QED
  BY <1>2, <1>3, <1>4, <1>5, <1>6, <1>7, <1>8, <1>11, <1>12

(* The same of AcceptThread's.                                             *)
LEMMA AcceptValues ==
  ASSUME TypeInv, NpcsOnly, NEW t \in Threads
  PROVE  LET f == frame[t]
             g == frame'[t]
         IN /\ \A p \in Users : Accept(t, p) =>
                 pc[t] = "accept" /\ pc'[t] = "ac_clear" /\ g.cl = p /\ g.idx = 0 /\ g.seen = {}
            /\ AcClear(t) => pc[t] = "ac_clear" /\ pc'[t] = "ac_open" /\ g = f
            /\ AcOpen(t) => pc[t] = "ac_open" /\ pc'[t] = "ac_connect" /\ g = f
            /\ AcConnect(t) => pc[t] = "ac_connect" /\ pc'[t] = "ac_live" /\ g = f
            /\ AcLive(t) => pc[t] = "ac_live" /\ pc'[t] = "ac_recv" /\ g = f
            /\ AcRecv(t) => pc[t] = "ac_recv" /\ pc'[t] \in {"ac_self", "hung"} /\ g = f
            /\ AcSelf(t) => pc[t] = "ac_self" /\ pc'[t] = "ac_scan" /\ g = f
            /\ AcScan(t) =>
                 /\ pc[t] = "ac_scan"
                 /\ \/ /\ Phase(t)' = "ac_see" /\ g = f /\ f.idx < NumOfNpc /\ f.idx # f.cl
                       /\ bIsAlive[f.idx] /\ IsNear(f.idx, f.cl)
                       /\ \/ pc'[t] = "ac_see"
                          \/ pc'[t] = "hb_load" /\ beat'[t].npc = f.idx /\ beat'[t].pi = 0
                    \/ /\ pc'[t] = "ac_scan" /\ g.cl = f.cl /\ g.idx = f.idx + 1 /\ g.seen = f.seen
                       /\ f.idx < NumOfNpc
                       /\ ~(bIsAlive[f.idx] /\ f.idx # f.cl /\ IsNear(f.idx, f.cl))
                    \/ pc'[t] = "ac_merge" /\ g = f /\ f.idx = NumOfNpc
            /\ AcSee(t) => /\ pc[t] = "ac_see" /\ pc'[t] = "ac_peer"
                           /\ g.cl = f.cl /\ g.idx = f.idx /\ g.seen = f.seen \cup {f.idx}
            /\ AcPeer(t) =>
                 /\ pc[t] = "ac_peer"
                 /\ \/ pc'[t] = "ac_peer_put" /\ g = f
                    \/ pc'[t] = "ac_scan" /\ g.cl = f.cl /\ g.idx = f.idx + 1 /\ g.seen = f.seen
            /\ AcPeerPut(t) => /\ pc[t] = "ac_peer_put" /\ pc'[t] = "ac_scan"
                               /\ g.cl = f.cl /\ g.idx = f.idx + 1 /\ g.seen = f.seen
            /\ AcMerge(t) => pc[t] = "ac_merge" /\ pc'[t] = "accept"
<1> DEFINE f == frame[t]
           g == frame'[t]
<1>1. Functional /\ f \in FrameType /\ f.idx \in 0 .. NumOfNpc /\ f.seen \in SUBSET Objects
  BY FrameFields DEF TypeInv, LocalInv
<1> USE <1>1 DEF Functional, Goto, Cl, StartFrame
<1>2. ASSUME NEW p \in Users, Accept(t, p)
      PROVE  pc[t] = "accept" /\ pc'[t] = "ac_clear" /\ g.cl = p /\ g.idx = 0 /\ g.seen = {}
  <2>1. g = [NoFrame EXCEPT !.cl = p]
    BY <1>2 DEF Accept
  <2> QED
    BY <1>2, <2>1 DEF Accept, NoFrame
<1>3. /\ AcClear(t) => pc[t] = "ac_clear" /\ pc'[t] = "ac_open" /\ g = f
      /\ AcOpen(t) => pc[t] = "ac_open" /\ pc'[t] = "ac_connect" /\ g = f
      /\ AcConnect(t) => pc[t] = "ac_connect" /\ pc'[t] = "ac_live" /\ g = f
      /\ AcLive(t) => pc[t] = "ac_live" /\ pc'[t] = "ac_recv" /\ g = f
      /\ AcRecv(t) => pc[t] = "ac_recv" /\ pc'[t] \in {"ac_self", "hung"} /\ g = f
      /\ AcSelf(t) => pc[t] = "ac_self" /\ pc'[t] = "ac_scan" /\ g = f
      /\ AcMerge(t) => pc[t] = "ac_merge" /\ pc'[t] = "accept"
  BY DEF AcClear, AcOpen, AcConnect, AcLive, AcRecv, AcSelf, AcMerge
<1>4. NextSlot(t) => g.cl = f.cl /\ g.idx = f.idx + 1 /\ g.seen = f.seen
  <2> SUFFICES ASSUME NextSlot(t)  PROVE g.cl = f.cl /\ g.idx = f.idx + 1 /\ g.seen = f.seen
    OBVIOUS
  <2>1. g = [f EXCEPT !.idx = f.idx + 1]
    BY DEF NextSlot
  <2> QED
    BY <2>1 DEF FrameType
<1>5. AcSee(t) => /\ pc[t] = "ac_see" /\ pc'[t] = "ac_peer"
                  /\ g.cl = f.cl /\ g.idx = f.idx /\ g.seen = f.seen \cup {f.idx}
  <2> SUFFICES ASSUME AcSee(t)  PROVE <1>5!2
    OBVIOUS
  <2>1. g = [f EXCEPT !.seen = f.seen \cup {f.idx}] /\ pc[t] = "ac_see" /\ pc'[t] = "ac_peer"
    BY DEF AcSee
  <2> QED
    BY <2>1 DEF FrameType
<1>6. AcPeer(t) =>
        /\ pc[t] = "ac_peer"
        /\ \/ pc'[t] = "ac_peer_put" /\ g = f
           \/ pc'[t] = "ac_scan" /\ g.cl = f.cl /\ g.idx = f.idx + 1 /\ g.seen = f.seen
  BY <1>4 DEF AcPeer
<1>7. AcPeerPut(t) => /\ pc[t] = "ac_peer_put" /\ pc'[t] = "ac_scan"
                      /\ g.cl = f.cl /\ g.idx = f.idx + 1 /\ g.seen = f.seen
  BY <1>4 DEF AcPeerPut
<1>8. ASSUME f.idx < NumOfNpc, isNPC(f.idx), WakeUpNPC(t, f.idx, "ac_see")
      PROVE  Phase(t)' = "ac_see" /\ pc'[t] = "hb_load" /\ beat'[t].npc = f.idx /\ beat'[t].pi = 0
  <2>1. f.idx \in Objects /\ ~bIsActive[f.idx]
    BY <1>8, SlotsAssumption DEF Objects, NpcsOnly
  <2>2. beat'[t] = [NoBeat EXCEPT !.npc = f.idx, !.back = "ac_see"] /\ pc'[t] = "hb_load"
    BY <1>8, <2>1 DEF WakeUpNPC, EnterHeartBeat
  <2> QED
    BY <2>2 DEF NoBeat, Phase, BeatLabels
<1>9. pc'[t] = "ac_see" => Phase(t)' = "ac_see"
  BY DEF Phase, BeatLabels
<1>10. AcScan(t) =>
         /\ pc[t] = "ac_scan"
         /\ \/ /\ Phase(t)' = "ac_see" /\ g = f /\ f.idx < NumOfNpc /\ f.idx # f.cl
               /\ bIsAlive[f.idx] /\ IsNear(f.idx, f.cl)
               /\ \/ pc'[t] = "ac_see"
                  \/ pc'[t] = "hb_load" /\ beat'[t].npc = f.idx /\ beat'[t].pi = 0
            \/ /\ pc'[t] = "ac_scan" /\ g.cl = f.cl /\ g.idx = f.idx + 1 /\ g.seen = f.seen
               /\ f.idx < NumOfNpc
               /\ ~(bIsAlive[f.idx] /\ f.idx # f.cl /\ IsNear(f.idx, f.cl))
            \/ pc'[t] = "ac_merge" /\ g = f /\ f.idx = NumOfNpc
  <2> SUFFICES ASSUME AcScan(t)  PROVE <1>10!2
    OBVIOUS
  <2> HIDE DEF Goto
  <2>1. CASE /\ f.idx < NumOfNpc /\ bIsAlive[f.idx] /\ f.idx # f.cl /\ IsNear(f.idx, f.cl)
             /\ isNPC(f.idx) /\ WakeUpNPC(t, f.idx, "ac_see") /\ frame' = frame
    BY <1>8, <2>1 DEF AcScan
  <2>2. CASE /\ f.idx < NumOfNpc /\ bIsAlive[f.idx] /\ f.idx # f.cl /\ IsNear(f.idx, f.cl)
             /\ Goto(t, "ac_see") /\ frame' = frame
    BY <1>9, <2>2 DEF AcScan, Goto
  <2>3. CASE /\ ~(bIsAlive[f.idx] /\ f.idx # f.cl /\ IsNear(f.idx, f.cl)) /\ f.idx < NumOfNpc
             /\ NextSlot(t) /\ pc' = pc
    BY <1>4, <2>3 DEF AcScan
  <2>4. CASE f.idx = NumOfNpc /\ Goto(t, "ac_merge") /\ frame' = frame
    BY <2>4 DEF AcScan, Goto
  <2> QED
    BY <2>1, <2>2, <2>3, <2>4 DEF AcScan
<1> QED
  BY <1>2, <1>3, <1>5, <1>6, <1>7, <1>10

LEMMA CopiesInit == Init => CopiesInv
  BY DEF Init, CopiesInv, Copies, CallOf, Phase, BeatLabels, EachLabels, OldLabels, JoinLabels, Threads

(* The labels that are no label of a beat.                                 *)
LEMMA PhaseOfOwn ==
  ASSUME NEW t, pc[t] \notin BeatLabels
  PROVE  Phase(t) = pc[t]
  BY DEF Phase

LEMMA CopiesOfPacket ==
  ASSUME TypeInv, NpcsOnly, NEW t \in Workers, PacketStep(t), Copies(t)
  PROVE  Copies(t)' /\ CallOf(t)'
<1>1. pc[t] \in PacketLabels /\ Phase(t) = pc[t] /\ (pc'[t] \notin BeatLabels => Phase(t)' = pc'[t])
  BY PacketValues
<1>2. frame[t].ovl \in SUBSET Objects /\ frame[t].seen \in SUBSET Objects
  BY FrameFields DEF TypeInv, LocalInv, Threads
<1> USE DEF EachLabels, OldLabels, JoinLabels, ScanLabels, BeatLabels
<1>3. CASE PpMove(t) \/ PpScan(t) \/ PpCopy(t)
  BY <1>1, <1>3, PacketValues DEF Copies, CallOf
<1>4. CASE PpEach(t)
  <2>1. /\ pc[t] = "pp_each" /\ frame'[t].seen = frame[t].seen
        /\ \/ /\ frame[t].todo = {} /\ pc'[t] = "pp_old"
              /\ frame'[t].ovl = frame[t].ovl /\ frame'[t].todo = frame[t].ovl \ frame[t].seen
           \/ /\ frame'[t].id \in frame[t].todo /\ frame'[t].todo = frame[t].todo \ {frame'[t].id}
              /\ frame'[t].ovl = frame[t].ovl \cup {frame'[t].id}
              /\ pc'[t] \in {"pp_put", "pp_peer", "pp_each"}
    BY <1>4, PacketValues
  <2> QED
    BY <1>1, <2>1 DEF Copies, CallOf
<1>5. CASE PpPut(t) \/ PpPeer(t) \/ PpPeerPut(t)
  BY <1>1, <1>5, PacketValues DEF Copies, CallOf
<1>6. CASE PpOld(t)
  BY <1>1, <1>6, PacketValues DEF Copies, CallOf
<1>7. CASE PpRemove(t)
  BY <1>1, <1>7, PacketValues DEF Copies, CallOf
<1>8. CASE PpUnsee(t) \/ PpPeerRemove(t) \/ PpMerge(t)
  BY <1>1, <1>8, PacketValues DEF Copies, CallOf
<1> QED
  BY <1>3, <1>4, <1>5, <1>6, <1>7, <1>8 DEF PacketStep

LEMMA CopiesOfOwn ==
  ASSUME TypeInv, NpcsOnly, NEW t \in Threads, OwnStep(t), Copies(t)
  PROVE  Copies(t)' /\ CallOf(t)'
<1>1. Phase(t) = pc[t] /\ (pc'[t] \notin BeatLabels => Phase(t)' = pc'[t])
  BY OwnStepShared, PhaseOfOwn DEF Phase
<1>2. frame[t].idx \in Nat /\ \A o \in frame[t].seen : o \in Nat
  BY FrameFields, SlotsAssumption DEF TypeInv, LocalInv, Objects
<1> USE DEF EachLabels, OldLabels, JoinLabels, ScanLabels, BeatLabels
<1>3. CASE t \in Workers /\ PacketStep(t)
  BY <1>3, CopiesOfPacket
<1>4. CASE t \in Workers /\ \E p \in Users : RecvData(t, p) \/ RecvEof(t, p) \/ LostCompletion(t, p)
                                             \/ AbortedCompletion(t, p)
  BY <1>1, <1>4, WorkerValues DEF Copies, CallOf
<1>5. CASE t \in Workers /\ \E n \in Objects : DoAi(t, n)
  BY <1>1, <1>5, WorkerValues DEF Copies, CallOf
<1>6. CASE t \in Workers /\ (Parse(t) \/ Rearm(t) \/ DcClose(t) \/ DcFree(t) \/ DcDead(t))
  BY <1>1, <1>6, WorkerValues DEF Copies, CallOf
<1>7. CASE t \in Workers /\ (DcScan(t) \/ DcRemove(t))
  BY <1>1, <1>7, WorkerValues DEF Copies, CallOf
<1>8. CASE \E p \in Users : Accept(t, p)
  BY <1>1, <1>8, AcceptValues DEF Copies, CallOf
<1>9. CASE AcClear(t) \/ AcOpen(t) \/ AcConnect(t) \/ AcLive(t) \/ AcRecv(t) \/ AcSelf(t) \/ AcMerge(t)
  BY <1>1, <1>2, <1>9, AcceptValues DEF Copies, CallOf
<1>10. CASE AcScan(t)
  <2>1. /\ pc[t] = "ac_scan" /\ frame'[t].seen = frame[t].seen
        /\ \/ /\ Phase(t)' = "ac_see" /\ frame'[t].idx = frame[t].idx
              /\ \/ pc'[t] = "ac_see"
                 \/ pc'[t] = "hb_load" /\ beat'[t].npc = frame[t].idx /\ beat'[t].pi = 0
           \/ pc'[t] = "ac_scan" /\ frame'[t].idx = frame[t].idx + 1
           \/ pc'[t] = "ac_merge" /\ frame'[t].idx = NumOfNpc
    BY <1>10, AcceptValues
  <2> QED
    BY <1>1, <1>2, <2>1 DEF Copies, CallOf
<1>11. CASE AcSee(t)
  BY <1>1, <1>2, <1>11, AcceptValues DEF Copies, CallOf
<1>12. CASE AcPeer(t) \/ AcPeerPut(t)
  <2>1. /\ pc[t] \in {"ac_peer", "ac_peer_put"} /\ frame'[t].seen = frame[t].seen
        /\ \/ pc'[t] = "ac_peer_put" /\ frame'[t].idx = frame[t].idx
           \/ pc'[t] = "ac_scan" /\ frame'[t].idx = frame[t].idx + 1
    BY <1>12, AcceptValues
  <2> QED
    BY <1>1, <1>2, <2>1 DEF Copies, CallOf
<1> QED
  BY <1>3, <1>4, <1>5, <1>6, <1>7, <1>8, <1>9, <1>10, <1>11, <1>12 DEF OwnStep, WorkerStep, AcceptStep

LEMMA CopiesOfBeat ==
  ASSUME TypeInv, NpcsOnly, NEW t \in Threads, HeartBeatStep(t), Copies(t), CallOf(t)
  PROVE  Copies(t)' /\ CallOf(t)'
<1>1. /\ Phase(t)' = Phase(t) /\ frame' = frame /\ pc[t] \in BeatLabels
      /\ pc'[t] \in BeatLabels => beat'[t].npc = beat[t].npc
  BY BeatStep, OwnStepShared DEF HeartBeatStep
<1>2. pc'[t] \in {"hb_load", "hb_store", "hb_clamp"} => beat'[t].pi = 0
  <2>1. Functional /\ beat[t] \in BeatType /\ beat[t].back \in {"gqcs", "pp_unsee", "ac_see"}
    BY DEF TypeInv, LocalInv, BeatType
  <2>2. CASE HbLoad(t)
    <3>1. beat[t].pi = 0
      BY <2>2 DEF HbLoad, CallOf
    <3>2. PICK dir \in Directions :
            beat'[t] = [beat[t] EXCEPT !.dir = dir,
                                       !.tmp = IF AxisIsX(dir) THEN x[HbNpc(t)] ELSE y[HbNpc(t)]]
      BY <2>1, <2>2 DEF HbLoad, Functional
    <3>3. beat'[t].pi = beat[t].pi
      BY <2>1, <3>2 DEF BeatType
    <3> QED
      BY <3>1, <3>3
  <2>3. CASE HbStore(t)
    BY <2>1, <2>3 DEF HbStore, CallOf
  <2>4. CASE ~HbLoad(t) /\ ~HbStore(t)
    BY <2>1, <2>4 DEF HeartBeatStep, HbClamp, HbView, HbNear, HbFar, HbPut, HbRemove, HbAlive, HbRevive,
       HbPush, HbReturn, Goto, Functional
  <2> QED
    BY <2>2, <2>3, <2>4
<1>3. Copies(t)'
  BY <1>1 DEF Copies
<1> QED
  BY <1>1, <1>2, <1>3 DEF CallOf

LEMMA CopiesNext == TypeInv /\ NpcsOnly /\ CopiesInv /\ [Next]_vars => CopiesInv'
<1> SUFFICES ASSUME TypeInv, NpcsOnly, CopiesInv, [Next]_vars  PROVE CopiesInv'
  OBVIOUS
<1>1. ASSUME NEW t \in Threads, OnlySelf(t), Copies(t)' /\ CallOf(t)'  PROVE CopiesInv'
  <2>1. ASSUME NEW u \in Threads, u # t  PROVE Copies(u)' /\ CallOf(u)'
    <3>1. pc'[u] = pc[u] /\ frame'[u] = frame[u] /\ beat'[u] = beat[u]
      BY <1>1, <2>1 DEF OnlySelf, TypeInv, Functional
    <3>2. Copies(u) /\ CallOf(u) /\ Phase(u)' = Phase(u)
      BY <3>1 DEF CopiesInv, Phase
    <3> QED
      BY <3>1, <3>2 DEF Copies, CallOf
  <2> QED
    BY <1>1, <2>1 DEF CopiesInv
<1>2. ASSUME NEW t \in Threads, HeartBeatStep(t)  PROVE CopiesInv'
  BY <1>1, <1>2, CopiesOfBeat, HeartBeatLocal DEF CopiesInv
<1>3. ASSUME NEW t \in Threads, OwnStep(t)  PROVE CopiesInv'
  BY <1>1, <1>3, CopiesOfOwn, OwnStepShared DEF CopiesInv
<1>4. CASE EnvironmentStep \/ UNCHANGED vars
  <2>1. UNCHANGED <<pc, frame, beat>>
    BY <1>4, TimerStep DEF vars
  <2> QED
    BY <2>1 DEF CopiesInv, Copies, CallOf, Phase
<1> QED
  BY <1>2, <1>3, <1>4 DEF Next, ThreadStep, OwnStep

-----------------------------------------------------------------------------
(* One handler at a time.  What holds while a thread is the only one that  *)
(* runs; of a thread that does not run it says what holds between handlers.*)

Alone(t) == \A u \in Threads : u # t => ~Running(u)

Hung == pc[Acceptor] = "hung"

(* Slots and connections.                                                  *)
Sound(q) ==
  /\ recv[q] > 0 => bConnected[q]
  /\ bConnected[q] => open[q]
  /\ q \notin NPCs => (bIsAlive[q] <=> bConnected[q])

Serves == {"parse", "rearm", "ac_recv", "ac_self"} \cup PacketLabels \cup ScanLabels

Sessions(t) ==
  LET c == frame[t].cl
      at == Phase(t)
  IN /\ \A q \in Users : Sound(q) \/ (q = c /\ at \in {"ac_live", "dc_free", "dc_dead"})
     /\ at \in Serves \cup {"ac_live"} => bConnected[c]
     /\ at \in {"ac_clear", "ac_open", "ac_connect", "dc_dead", "dc_scan", "dc_remove"} => ~bConnected[c]
     /\ at \in {"ac_open", "ac_connect"} => view_list[c] = {}
     /\ at \in {"ac_connect", "ac_live"} => open[c]
     /\ at = "ac_connect" => shown[c] = {}
     /\ at \in {"dc_free", "dc_dead"} => recv[c] = 0

(* Labels of a thread's own steps.                                         *)
LEMMA OwnPhases ==
  ASSUME TypeInv, NpcsOnly, NEW t \in Threads, OwnStep(t)
  PROVE  Phase(t) = pc[t] /\ (pc'[t] \notin BeatLabels => Phase(t)' = pc'[t])
  BY OwnStepShared, PhaseOfOwn DEF Phase

LEMMA SessionsOfWorker ==
  ASSUME TypeInv, NpcsOnly, NEW t \in Workers, WorkerStep(t), Sessions(t)
  PROVE  Sessions(t)'
<1> DEFINE c == frame[t].cl
<1>1. t \in Threads /\ OwnStep(t) /\ SharedType /\ c \in Users
  BY FrameFields DEF TypeInv, LocalInv, Threads, OwnStep
<1>2. Phase(t) = pc[t] /\ (pc'[t] \notin BeatLabels => Phase(t)' = pc'[t])
  BY <1>1, OwnPhases
<1>3. c \in Objects
  BY <1>1, UsersAreObjects
<1> USE <1>1, <1>2 DEF BeatLabels, Serves, PacketLabels, ScanLabels, slots, net
<1>4. ASSUME UNCHANGED <<bConnected, bIsAlive, open>>,
             \A q \in Users : recv'[q] > 0 => recv[q] > 0,
             Phase(t) \notin {"ac_live", "dc_free", "dc_dead"},
             Phase(t)' \in Serves => bConnected[frame'[t].cl],
             Phase(t)' \in {"dc_scan", "dc_remove"} => ~bConnected[frame'[t].cl],
             Phase(t)' \in Serves \cup {"dc_scan", "dc_remove", "dc_close", "gqcs", "hung"}
      PROVE  Sessions(t)'
  BY <1>4 DEF Sessions, Sound
<1>5. CASE PacketStep(t)
  <2>1. UNCHANGED <<slots, net>>
    BY <1>5 DEF PacketStep, PpMove, PpScan, PpCopy, PpEach, PpPut, PpPeer, PpPeerPut, PpOld,
       PpRemove, PpUnsee, PpPeerRemove, PpMerge
  <2>2. pc[t] \in PacketLabels /\ frame'[t].cl = c /\ Phase(t)' \in PacketLabels \cup {"parse"}
    BY <1>5, PacketValues DEF PacketStep
  <2> QED
    BY <1>4, <2>1, <2>2 DEF Sessions
<1>6. ASSUME NEW p \in Users, RecvData(t, p)  PROVE Sessions(t)'
  <2>1. /\ recv[p] > 0 /\ recv' = [recv EXCEPT ![p] = @ - 1]
        /\ UNCHANGED <<bConnected, bIsAlive, open>>
    BY <1>6 DEF RecvData
  <2>2. \A q \in Users : recv'[q] > 0 => recv[q] > 0
    BY <2>1 DEF SharedType
  <2>3. pc[t] = "gqcs" /\ pc'[t] = "parse" /\ frame'[t].cl = p
    BY <1>6, WorkerValues
  <2> QED
    BY <1>4, <2>1, <2>2, <2>3 DEF Sessions, Sound
<1>7. ASSUME NEW p \in Users, RecvEof(t, p) \/ LostCompletion(t, p)  PROVE Sessions(t)'
  <2>1. UNCHANGED <<bConnected, bIsAlive, open>> /\ \A q \in Users : recv'[q] > 0 => recv[q] > 0
    BY <1>7 DEF RecvEof, LostCompletion, SharedType
  <2>2. pc[t] = "gqcs" /\ pc'[t] = "dc_close"
    BY <1>7, WorkerValues
  <2> QED
    BY <1>4, <2>1, <2>2
<1>8. ASSUME NEW p \in Users, AbortedCompletion(t, p)  PROVE Sessions(t)'
  BY <1>4, <1>8, WorkerValues DEF AbortedCompletion
<1>9. ASSUME NEW n \in Objects, DoAi(t, n)  PROVE Sessions(t)'
  BY <1>4, <1>9, WorkerValues DEF DoAi
<1>10. CASE Parse(t)
  <2>1. UNCHANGED <<slots, net>>
    BY <1>10 DEF Parse
  <2>2. pc[t] = "parse" /\ pc'[t] \in {"pp_move", "rearm"} /\ frame'[t].cl = c
    BY <1>10, WorkerValues
  <2> QED
    BY <1>4, <2>1, <2>2 DEF Sessions
<1>11. CASE Rearm(t)
  <2>1. UNCHANGED <<bConnected, bIsAlive, open>> /\ \A q \in Users \ {c} : recv'[q] = recv[q]
    BY <1>11 DEF Rearm, SharedType, Cl
  <2>2. pc[t] = "rearm" /\ pc'[t] \in {"gqcs", "hung"}
    BY <1>11, WorkerValues
  <2> QED
    BY <2>1, <2>2 DEF Sessions, Sound
<1>12. CASE DcClose(t)
  <2>1. /\ UNCHANGED <<bConnected, bIsAlive>> /\ recv'[c] = 0
        /\ \A q \in Users \ {c} : recv'[q] = recv[q] /\ open'[q] = open[q]
    BY <1>12 DEF DcClose, SharedType, Cl
  <2>2. pc[t] = "dc_close" /\ pc'[t] = "dc_free" /\ frame'[t].cl = c
    BY <1>12, WorkerValues
  <2> QED
    BY <2>1, <2>2 DEF Sessions, Sound
<1>13. CASE DcFree(t)
  <2>1. /\ UNCHANGED <<bIsAlive, recv, open>> /\ ~bConnected'[c]
        /\ \A q \in Users \ {c} : bConnected'[q] = bConnected[q]
    BY <1>3, <1>13, UsersAreObjects DEF DcFree, SharedType, Cl
  <2>2. pc[t] = "dc_free" /\ pc'[t] = "dc_dead" /\ frame'[t].cl = c
    BY <1>13, WorkerValues
  <2> QED
    BY <2>1, <2>2 DEF Sessions, Sound
<1>14. CASE DcDead(t)
  <2>1. /\ UNCHANGED <<bConnected, recv, open>> /\ ~bIsAlive'[c]
        /\ \A q \in Users \ {c} : bIsAlive'[q] = bIsAlive[q]
    BY <1>3, <1>14, UsersAreObjects DEF DcDead, SharedType, Cl
  <2>2. pc[t] = "dc_dead" /\ pc'[t] = "dc_scan" /\ frame'[t].cl = c
    BY <1>14, WorkerValues
  <2> QED
    BY <2>1, <2>2 DEF Sessions, Sound
<1>15. CASE DcScan(t) \/ DcRemove(t)
  <2>1. UNCHANGED <<slots, net>>
    BY <1>15 DEF DcScan, DcRemove
  <2>2. /\ pc[t] \in {"dc_scan", "dc_remove"}
        /\ \/ pc'[t] \in {"dc_scan", "dc_remove", "dc_close"} /\ frame'[t].cl = c
           \/ pc'[t] = "gqcs"
    BY <1>15, WorkerValues
  <2> QED
    BY <1>4, <2>1, <2>2 DEF Sessions
<1> QED
  BY <1>5, <1>6, <1>7, <1>8, <1>9, <1>10, <1>11, <1>12, <1>13, <1>14, <1>15 DEF WorkerStep

LEMMA SessionsOfAccept ==
  ASSUME TypeInv, NpcsOnly, NEW t \in Threads, t = Acceptor, AcceptStep(t), Sessions(t)
  PROVE  Sessions(t)'
<1> DEFINE c == frame[t].cl
<1>1. OwnStep(t) /\ SharedType /\ c \in Users /\ c \in Objects
  BY FrameFields, UsersAreObjects DEF TypeInv, LocalInv, OwnStep
<1>2. Phase(t) = pc[t] /\ (pc'[t] \notin BeatLabels => Phase(t)' = pc'[t])
  BY <1>1, OwnPhases
<1> USE <1>1, <1>2 DEF BeatLabels, Serves, PacketLabels, ScanLabels, slots, net
<1>3. ASSUME NEW p \in Users, Accept(t, p)  PROVE Sessions(t)'
  <2>1. UNCHANGED <<slots, net>> /\ ~bConnected[p]
    BY <1>3 DEF Accept, FirstFree
  <2>2. pc[t] = "accept" /\ pc'[t] = "ac_clear" /\ frame'[t].cl = p
    BY <1>3, AcceptValues
  <2> QED
    BY <2>1, <2>2 DEF Sessions, Sound
<1>4. CASE AcClear(t)
  <2>1. UNCHANGED <<slots, net>> /\ view_list'[c] = {}
    BY <1>4 DEF AcClear, Cl, SharedType
  <2>2. pc[t] = "ac_clear" /\ pc'[t] = "ac_open" /\ frame'[t].cl = c
    BY <1>4, AcceptValues
  <2> QED
    BY <2>1, <2>2 DEF Sessions, Sound
<1>5. CASE AcOpen(t)
  <2>1. /\ UNCHANGED <<slots, recv, view_list>> /\ open'[c] /\ shown'[c] = {}
        /\ \A q \in Users : open[q] => open'[q]
    BY <1>5 DEF AcOpen, Cl, SharedType
  <2>2. pc[t] = "ac_open" /\ pc'[t] = "ac_connect" /\ frame'[t].cl = c
    BY <1>5, AcceptValues
  <2> QED
    BY <2>1, <2>2 DEF Sessions, Sound
<1>6. CASE AcConnect(t)
  <2>1. /\ UNCHANGED <<bIsAlive, open, recv>> /\ bConnected'[c]
        /\ \A q \in Users \ {c} : bConnected'[q] = bConnected[q]
    BY <1>6, UsersAreObjects DEF AcConnect, Cl, SharedType
  <2>2. pc[t] = "ac_connect" /\ pc'[t] = "ac_live" /\ frame'[t].cl = c
    BY <1>6, AcceptValues
  <2> QED
    BY <2>1, <2>2 DEF Sessions, Sound
<1>7. CASE AcLive(t)
  <2>1. /\ UNCHANGED <<bConnected, open, recv>> /\ bIsAlive'[c]
        /\ \A q \in Users \ {c} : bIsAlive'[q] = bIsAlive[q]
    BY <1>7, UsersAreObjects DEF AcLive, Cl, SharedType
  <2>2. pc[t] = "ac_live" /\ pc'[t] = "ac_recv" /\ frame'[t].cl = c
    BY <1>7, AcceptValues
  <2> QED
    BY <2>1, <2>2 DEF Sessions, Sound
<1>8. CASE AcRecv(t)
  <2>1. UNCHANGED <<slots, open>> /\ \A q \in Users \ {c} : recv'[q] = recv[q]
    BY <1>8 DEF AcRecv, Cl, SharedType
  <2>2. pc[t] = "ac_recv" /\ pc'[t] \in {"ac_self", "hung"} /\ frame'[t].cl = c
    BY <1>8, AcceptValues
  <2> QED
    BY <2>1, <2>2 DEF Sessions, Sound
<1>9. CASE AcSelf(t) \/ AcScan(t) \/ AcSee(t) \/ AcPeer(t) \/ AcPeerPut(t) \/ AcMerge(t)
  <2>1. UNCHANGED <<slots, net>>
    BY <1>9 DEF AcSelf, AcScan, AcSee, AcPeer, AcPeerPut, AcMerge
  <2>2. /\ pc[t] \in ScanLabels \cup {"ac_self"}
        /\ \/ Phase(t)' \in ScanLabels /\ frame'[t].cl = c
           \/ pc'[t] = "accept"
    BY <1>9, AcceptValues
  <2> QED
    BY <2>1, <2>2 DEF Sessions, Sound
<1> QED
  BY <1>3, <1>4, <1>5, <1>6, <1>7, <1>8, <1>9 DEF AcceptStep

LEMMA SessionsOfBeat ==
  ASSUME TypeInv, NpcsOnly, NEW t \in Threads, HeartBeatStep(t), Sessions(t)
  PROVE  Sessions(t)'
<1>1. /\ Phase(t)' = Phase(t) /\ frame' = frame /\ UNCHANGED <<bConnected, net>>
      /\ beat[t].npc \in NPCs /\ \A o \in Objects \ {beat[t].npc} : bIsAlive'[o] = bIsAlive[o]
  BY BeatStep DEF NpcsOnly
<1>2. Phase(t) \in {"gqcs", "pp_unsee", "ac_see"}
  BY BeatStep DEF TypeInv, LocalInv, BeatType, Phase
<1>3. \A q \in Users : Sound(q) => Sound(q)'
  BY <1>1, UsersAreObjects DEF Sound, net
<1> QED
  BY <1>1, <1>2, <1>3 DEF Sessions, Serves

-----------------------------------------------------------------------------
(* The view lists of the players, of slots that are no NPC's.              *)

Beheld(p, q) == bConnected[q] /\ IsNear(p, q)
Agrees(p, q) == bConnected[p] => (Listed(p, q) <=> Beheld(p, q))

Unsettled ==
  {"pp_scan", "pp_copy"} \cup EachLabels \cup OldLabels \cup {"ac_live", "ac_recv", "ac_self"}
    \cup ScanLabels \cup {"dc_dead", "dc_scan", "dc_remove"}

(* What is done and what is left to do about the client being served and   *)
(* the player q, in both their lists.                                      *)
PacketPair(at, f, q) ==
  LET L == Listed(f.cl, q)
      K == Listed(q, f.cl)
      G == Beheld(f.cl, q)
      S == q \in f.seen
      O == q \in f.ovl
      T == q \in f.todo
  IN /\ at \in {"pp_scan", "pp_copy"} => (L => bConnected[q]) /\ (bConnected[q] => (L <=> K))
     /\ at = "pp_scan" => (S <=> q < f.idx /\ G)
     /\ at \in {"pp_copy"} \cup EachLabels \cup OldLabels => (S <=> G)
     /\ at \in EachLabels =>
          /\ L => O
          /\ S => O \/ T
          /\ bConnected[q] /\ ~S => (K <=> O)
          /\ bConnected[q] /\ S /\ ~T => K \/ (at \in {"pp_put", "pp_peer"} /\ f.id = q)
     /\ at \in OldLabels =>
          /\ L => O
          /\ bConnected[q] /\ S => K
          /\ bConnected[q] /\ ~S /\ K => T \/ (at \in {"pp_remove", "pp_unsee"} /\ f.id = q)

SessionPair(at, f, q) ==
  LET L == Listed(f.cl, q)
      K == Listed(q, f.cl)
      G == Beheld(f.cl, q)
      S == q \in f.seen
      here == q = f.idx
  IN /\ at \in {"ac_live", "ac_recv", "ac_self"} => ~L /\ (bConnected[q] => ~K)
     /\ at \in ScanLabels =>
          /\ ~L
          /\ S <=> G /\ (q < f.idx \/ (here /\ at \in {"ac_peer", "ac_peer_put"}))
          /\ bConnected[q] => (K <=> G /\ (q < f.idx \/ (here /\ at = "ac_peer_put")))
          /\ at \in {"ac_see", "ac_peer", "ac_peer_put"} /\ here => G
     /\ at \in {"dc_dead", "dc_scan"} => (bConnected[q] /\ K => q >= f.idx)
     /\ at = "dc_remove" => (bConnected[q] /\ K => q > f.idx)

Between(t, q) ==
  LET f == frame[t]
      at == Phase(t)
  IN /\ at \notin Unsettled => Agrees(f.cl, q) /\ Agrees(q, f.cl)
     /\ PacketPair(at, f, q)
     /\ SessionPair(at, f, q)

Boards(t) ==
  LET c == frame[t].cl
  IN /\ \A p, q \in Players \ {c} : p # q => Agrees(p, q)
     /\ c \in Players => \A q \in Players \ {c} : Between(t, q)

AllAgree == \A p, q \in Players : p # q => Agrees(p, q)

LEMMA SettledBoards ==
  ASSUME NEW t \in Threads, frame[t].cl \in Users
  PROVE  Phase(t) \notin Unsettled => (Boards(t) <=> AllAgree)
  BY DEF Boards, AllAgree, Between, PacketPair, SessionPair, Unsettled, EachLabels, OldLabels, ScanLabels, Players

LEMMA NearBothWays ==
  ASSUME TypeInv, NEW p \in Objects, NEW q \in Objects
  PROVE  IsNear(p, q) <=> IsNear(q, p)
  BY SightIsMutual DEF TypeInv, SharedType, IsNear

(* A handler touches no pair its client is not part of.                    *)
LEMMA Elsewhere ==
  ASSUME TypeInv, NpcsOnly, NEW t \in Threads, OwnStep(t),
         NEW p \in Users \ {frame[t].cl}, NEW q \in Users \ {frame[t].cl}
  PROVE  Agrees(p, q)' <=> Agrees(p, q)
<1> DEFINE c == frame[t].cl
<1>1. SharedType /\ c \in Users /\ p \in Objects /\ q \in Objects /\ c \in Objects
  BY FrameFields, UsersAreObjects DEF TypeInv, LocalInv
<1>2. ASSUME NEW o \in Users \ {c}  PROVE x'[o] = x[o] /\ y'[o] = y[o]
  <2>1. UNCHANGED board \/ PpMove(t)
    BY DEF OwnStep, WorkerStep, RecvData, RecvEof, LostCompletion, AbortedCompletion, DoAi, Parse,
       Rearm, DcClose, DcFree, DcDead, DcScan, DcRemove, PacketStep, PpScan, PpCopy, PpEach,
       PpPut, PpPeer, PpPeerPut, PpOld, PpRemove, PpUnsee, PpPeerRemove, PpMerge, AcceptStep, Accept,
       AcClear, AcOpen, AcConnect, AcLive, AcRecv, AcSelf, AcScan, AcSee, AcPeer, AcPeerPut, AcMerge
  <2> QED
    BY <1>1, <2>1, UsersAreObjects DEF board, PpMove, Cl, SharedType
<1>3. ASSUME NEW o \in Users \ {c}  PROVE bConnected'[o] = bConnected[o]
  <2>1. UNCHANGED bConnected \/ DcFree(t) \/ AcConnect(t)
    BY DEF OwnStep, WorkerStep, RecvData, RecvEof, LostCompletion, AbortedCompletion, DoAi, Parse,
       Rearm, DcClose, DcDead, DcScan, DcRemove, PacketStep, PpMove, PpScan, PpCopy, PpEach,
       PpPut, PpPeer, PpPeerPut, PpOld, PpRemove, PpUnsee, PpPeerRemove, PpMerge, AcceptStep, Accept,
       AcClear, AcOpen, AcLive, AcRecv, AcSelf, AcScan, AcSee, AcPeer, AcPeerPut, AcMerge, slots
  <2> QED
    BY <1>1, <2>1, UsersAreObjects DEF DcFree, AcConnect, Cl, SharedType
<1>4. Listed(p, q)' <=> Listed(p, q)
  <2>1. \/ UNCHANGED view_list \/ PpPeer(t) \/ PpUnsee(t) \/ PpMerge(t) \/ DcScan(t) \/ AcClear(t)
        \/ AcPeer(t) \/ AcMerge(t)
    BY DEF OwnStep, WorkerStep, RecvData, RecvEof, LostCompletion, AbortedCompletion, DoAi, Parse,
       Rearm, DcClose, DcFree, DcDead, DcRemove, PacketStep, PpMove, PpScan, PpCopy, PpEach,
       PpPut, PpPeerPut, PpOld, PpRemove, PpPeerRemove, AcceptStep, Accept,
       AcOpen, AcConnect, AcLive, AcRecv, AcSelf, AcScan, AcSee, AcPeerPut
  <2>2. CASE UNCHANGED view_list
    BY <2>2 DEF Listed
  <2>3. CASE PpPeer(t) \/ PpUnsee(t) \/ PpMerge(t)
    BY <1>1, <2>3 DEF PpPeer, PpUnsee, PpMerge, See, Unsee, Listed, Cl, SharedType
  <2>4. CASE DcScan(t) \/ AcPeer(t)
    BY <1>1, <2>4 DEF DcScan, AcPeer, See, Unsee, Listed, Cl, SharedType
  <2>5. CASE AcClear(t) \/ AcMerge(t)
    BY <1>1, <2>5 DEF AcClear, AcMerge, Listed, Cl, SharedType
  <2> QED
    BY <2>1, <2>2, <2>3, <2>4, <2>5
<1> QED
  BY <1>2, <1>3, <1>4 DEF Agrees, Beheld, IsNear

(* A beat touches no pair of players.                                      *)
LEMMA BoardsOfBeat ==
  ASSUME TypeInv, NpcsOnly, NEW t \in Threads, HeartBeatStep(t), Boards(t)
  PROVE  Boards(t)'
<1>1. Phase(t)' = Phase(t) /\ frame' = frame /\ UNCHANGED bConnected
  BY BeatStep
<1>2. ASSUME NEW p \in Players, NEW q \in Players
      PROVE  (Listed(p, q)' <=> Listed(p, q)) /\ (Beheld(p, q)' <=> Beheld(p, q))
  <2>1. p \in Objects \ {beat[t].npc} /\ q \in Objects \ {beat[t].npc} /\ p \in Users
    BY BeatStep, UsersAreObjects DEF NpcsOnly, Players
  <2>2. (Listed(p, q)' <=> Listed(p, q)) /\ x'[p] = x[p] /\ y'[p] = y[p] /\ x'[q] = x[q] /\ y'[q] = y[q]
    BY <2>1, BeatStep
  <2> QED
    BY <1>1, <2>2 DEF Beheld, IsNear
<1>3. ASSUME NEW p \in Players, NEW q \in Players  PROVE Agrees(p, q)' <=> Agrees(p, q)
  BY <1>1, <1>2 DEF Agrees
<1>4. ASSUME frame[t].cl \in Players, NEW q \in Players \ {frame[t].cl}, Between(t, q)  PROVE Between(t, q)'
  BY <1>1, <1>2, <1>3, <1>4 DEF Between, PacketPair, SessionPair
<1> QED
  BY <1>1, <1>3, <1>4 DEF Boards

(* What a step of ProcessPacket does to the two lists.                     *)
LEMMA PacketLists ==
  ASSUME TypeInv, NpcsOnly, NEW t \in Workers, PacketStep(t), NEW q \in Users \ {frame[t].cl}
  PROVE  LET c == frame[t].cl
             f == frame[t]
         IN /\ UNCHANGED slots
            /\ ~PpMove(t) => UNCHANGED board
            /\ ~PpMerge(t) => (Listed(c, q)' <=> Listed(c, q))
            /\ PpMerge(t) => (Listed(c, q)' <=> (Listed(c, q) \/ q \in f.ovl) /\ ~(q \in f.ovl /\ q \notin f.seen))
            /\ ~PpPeer(t) /\ ~PpUnsee(t) => (Listed(q, c)' <=> Listed(q, c))
            /\ PpPeer(t) => (Listed(q, c)' <=> Listed(q, c) \/ q = f.id)
            /\ PpUnsee(t) => (Listed(q, c)' <=> Listed(q, c) /\ q # f.id)
<1> DEFINE c == frame[t].cl
           f == frame[t]
<1>1. SharedType /\ c \in Users /\ f.id \in Objects /\ q \in Users /\ q # c /\ frame'[t].cl = c
  BY FrameFields, PacketValues DEF TypeInv, LocalInv, Threads
<1>2. UNCHANGED slots
  BY DEF PacketStep, PpMove, PpScan, PpCopy, PpEach, PpPut, PpPeer, PpPeerPut, PpOld, PpRemove,
     PpUnsee, PpPeerRemove, PpMerge
<1>3. ~PpMove(t) => UNCHANGED board
  BY DEF PacketStep, PpScan, PpCopy, PpEach, PpPut, PpPeer, PpPeerPut, PpOld, PpRemove,
     PpUnsee, PpPeerRemove, PpMerge
<1>4. PpMerge(t) =>
        /\ Listed(q, c)' <=> Listed(q, c)
        /\ Listed(c, q)' <=> (Listed(c, q) \/ q \in f.ovl) /\ ~(q \in f.ovl /\ q \notin f.seen)
  BY <1>1 DEF PpMerge, Listed, SharedType
<1>5. PpPeer(t) => /\ Listed(c, q)' <=> Listed(c, q)
                   /\ Listed(q, c)' <=> Listed(q, c) \/ q = f.id
  BY <1>1 DEF PpPeer, See, Listed, SharedType, Cl
<1>6. PpUnsee(t) => /\ Listed(c, q)' <=> Listed(c, q)
                    /\ Listed(q, c)' <=> Listed(q, c) /\ q # f.id
  <2>1. q = f.id => IsPlayer(f.id)
    BY <1>1, SlotsAssumption DEF IsPlayer, Users
  <2> QED
    BY <1>1, <2>1 DEF PpUnsee, Unsee, Listed, SharedType, Cl
<1>7. ~PpMerge(t) /\ ~PpPeer(t) /\ ~PpUnsee(t) => UNCHANGED view_list
  BY DEF PacketStep, PpMove, PpScan, PpCopy, PpEach, PpPut, PpPeerPut, PpOld, PpRemove, PpPeerRemove
<1>8. (PpMerge(t) => pc[t] = "pp_merge") /\ (PpPeer(t) => pc[t] = "pp_peer") /\ (PpUnsee(t) => pc[t] = "pp_unsee")
  BY DEF PpMerge, PpPeer, PpUnsee
<1>9. ASSUME UNCHANGED view_list
      PROVE  (Listed(c, q)' <=> Listed(c, q)) /\ (Listed(q, c)' <=> Listed(q, c))
  BY <1>1, <1>9 DEF Listed
<1>10. CASE PpMerge(t)
  BY <1>2, <1>3, <1>4, <1>8, <1>10
<1>11. CASE PpPeer(t)
  BY <1>2, <1>3, <1>5, <1>8, <1>11
<1>12. CASE PpUnsee(t)
  BY <1>2, <1>3, <1>6, <1>8, <1>12
<1>13. CASE ~PpMerge(t) /\ ~PpPeer(t) /\ ~PpUnsee(t)
  BY <1>2, <1>3, <1>7, <1>9, <1>13
<1> QED
  BY <1>10, <1>11, <1>12, <1>13

LEMMA BetweenOfPacket ==
  ASSUME TypeInv, NpcsOnly, NEW t \in Workers, PacketStep(t), Copies(t), Sessions(t),
         frame[t].cl \in Players, NEW q \in Players \ {frame[t].cl}, Between(t, q)
  PROVE  Between(t, q)'
<1> DEFINE c == frame[t].cl
           f == frame[t]
           g == frame'[t]
<1>1. /\ t \in Threads /\ c \in Users /\ q \in Users /\ q # c /\ c \in Objects /\ q \in Objects
      /\ q \in Nat /\ f.idx \in 0 .. NumOfNpc /\ q < NumOfNpc /\ IsPlayer(q)
  BY FrameFields, UsersAreObjects, SlotsAssumption DEF TypeInv, LocalInv, Threads, Players, Users, Objects, IsPlayer
<1>2. Phase(t) = pc[t] /\ (pc'[t] \notin BeatLabels => Phase(t)' = pc'[t]) /\ g.cl = c
      /\ pc[t] \in PacketLabels
  BY PacketValues
<1>3. UNCHANGED slots /\ UNCHANGED <<bConnected, bIsAlive>>
  BY <1>1, PacketLists DEF slots
<1>4. (IsNear(c, q) <=> IsNear(q, c)) /\ bConnected[c] /\ (bIsAlive[q] <=> bConnected[q])
  BY <1>1, <1>2, NearBothWays DEF Sessions, Serves, Sound, Players, PacketLabels
<1>5. ~PpMove(t) => /\ IsNear(c, q)' <=> IsNear(c, q)
                    /\ IsNear(q, c)' <=> IsNear(q, c)
                    /\ Beheld(c, q)' <=> Beheld(c, q)
  <2>1. ~PpMove(t) => UNCHANGED board
    BY <1>1, PacketLists
  <2>2. ASSUME UNCHANGED board
        PROVE  (IsNear(c, q)' <=> IsNear(c, q)) /\ (IsNear(q, c)' <=> IsNear(q, c))
    BY <1>2, <2>2 DEF board, IsNear
  <2> QED
    BY <1>3, <2>1, <2>2 DEF Beheld
<1> USE DEF Unsettled, EachLabels, OldLabels, ScanLabels, BeatLabels
<1>6. CASE PpMove(t)
  <2>1. pc[t] = "pp_move" /\ pc'[t] = "pp_scan" /\ g = f /\ f.idx = 0 /\ f.seen = {}
    BY <1>2, <1>6, PacketValues DEF Copies
  <2>2. (Listed(c, q)' <=> Listed(c, q)) /\ (Listed(q, c)' <=> Listed(q, c))
    BY <1>1, <1>6, <2>1, PacketLists DEF PpMerge, PpPeer, PpUnsee
  <2>3. (Listed(c, q) => bConnected[q]) /\ (bConnected[q] => (Listed(c, q) <=> Listed(q, c)))
    BY <1>2, <1>4, <2>1 DEF Between, Agrees, Beheld
  <2> QED
    BY <1>1, <1>2, <1>3, <2>1, <2>2, <2>3 DEF Between, PacketPair, SessionPair
<1>7. ASSUME pc[t] \notin {"pp_move", "pp_merge", "pp_peer", "pp_unsee"}
      PROVE  /\ Listed(c, q)' <=> Listed(c, q)
             /\ Listed(q, c)' <=> Listed(q, c)
             /\ Beheld(c, q)' <=> Beheld(c, q)
  BY <1>1, <1>5, <1>7, PacketLists DEF PpMove, PpMerge, PpPeer, PpUnsee
<1>8. CASE PpScan(t)
  <2>1. CASE f.idx = NumOfNpc
    <3>1. pc[t] = "pp_scan" /\ pc'[t] = "pp_copy" /\ g.seen = f.seen
      BY <1>8, <2>1, PacketValues
    <3> QED
      BY <1>1, <1>2, <1>3, <1>7, <2>1, <3>1 DEF Between, PacketPair, SessionPair
  <2>2. CASE f.idx # NumOfNpc
    <3>1. /\ pc[t] = "pp_scan" /\ pc'[t] = "pp_scan" /\ g.idx = f.idx + 1
          /\ q \in g.seen <=> q \in f.seen \/ (q = f.idx /\ bIsAlive[q] /\ IsNear(c, q))
      BY <1>8, <2>2, PacketValues
    <3>2. q \in f.seen <=> q < f.idx /\ Beheld(c, q)
      BY <1>2, <3>1 DEF Between, PacketPair
    <3>3. q \in g.seen <=> q < g.idx /\ Beheld(c, q)
      BY <1>1, <1>4, <3>1, <3>2 DEF Beheld
    <3> QED
      BY <1>2, <1>3, <1>7, <3>1, <3>3 DEF Between, PacketPair, SessionPair
  <2> QED
    BY <2>1, <2>2
<1>9. CASE PpCopy(t)
  <2>1. /\ pc[t] = "pp_copy" /\ pc'[t] = "pp_each" /\ g.seen = f.seen
        /\ g.ovl = view_list[c] /\ g.todo = f.seen
    BY <1>9, PacketValues
  <2> QED
    BY <1>2, <1>3, <1>7, <2>1 DEF Between, PacketPair, SessionPair, Listed
<1>10. CASE PpEach(t)
  <2>1. CASE /\ pc[t] = "pp_each" /\ g.seen = f.seen /\ f.todo = {} /\ pc'[t] = "pp_old"
             /\ g.ovl = f.ovl /\ g.todo = f.ovl \ f.seen
    BY <1>2, <1>3, <1>7, <2>1 DEF Between, PacketPair, SessionPair
  <2>2. CASE /\ pc[t] = "pp_each" /\ g.seen = f.seen
             /\ g.id \in f.todo /\ g.todo = f.todo \ {g.id}
             /\ g.ovl = f.ovl \cup {g.id}
             /\ pc'[t] = IF g.id \notin f.ovl THEN "pp_put"
                         ELSE IF IsPlayer(g.id) THEN "pp_peer" ELSE "pp_each"
    <3>1. f.todo \subseteq f.seen
      BY <1>2, <2>2 DEF Copies
    <3>2. pc'[t] \in EachLabels /\ (q = g.id => pc'[t] \in {"pp_put", "pp_peer"})
      BY <1>1, <2>2
    <3>3. pc[t] = "pp_each" /\ g.seen = f.seen
          /\ (q \in g.todo <=> q \in f.todo /\ q # g.id)
          /\ (q \in g.ovl <=> q \in f.ovl \/ q = g.id)
          /\ (q = g.id => q \in f.seen)
      BY <2>2, <3>1
    <3> QED
      BY <1>2, <1>3, <1>7, <3>2, <3>3 DEF Between, PacketPair, SessionPair
  <2> QED
    BY <1>10, <2>1, <2>2, PacketValues
<1>11. CASE PpPut(t) \/ PpPeerPut(t)
  <2>1. /\ g = f
        /\ \/ pc[t] = "pp_put" /\ pc'[t] = IF IsPlayer(f.id) THEN "pp_peer" ELSE "pp_each"
           \/ pc[t] = "pp_peer_put" /\ pc'[t] = "pp_each"
    BY <1>11, PacketValues
  <2>2. pc'[t] \in {"pp_peer", "pp_each"} /\ (pc[t] = "pp_put" /\ f.id = q => pc'[t] = "pp_peer")
    BY <1>1, <2>1
  <2> QED
    BY <1>2, <1>3, <1>7, <2>1, <2>2 DEF Between, PacketPair, SessionPair
<1>12. CASE PpPeer(t)
  <2>1. pc[t] = "pp_peer" /\ pc'[t] \in {"pp_each", "pp_peer_put"} /\ g = f
    BY <1>12, PacketValues
  <2>2. /\ Listed(c, q)' <=> Listed(c, q)
        /\ Listed(q, c)' <=> Listed(q, c) \/ q = f.id
        /\ Beheld(c, q)' <=> Beheld(c, q)
    BY <1>1, <1>5, <1>12, <2>1, PacketLists DEF PpMove, PpMerge
  <2>3. q = f.id => q \in f.seen
    BY <1>2, <2>1 DEF Copies
  <2> QED
    BY <1>2, <1>3, <2>1, <2>2, <2>3 DEF Between, PacketPair, SessionPair
<1>13. CASE PpOld(t)
  <2>1. /\ pc[t] = "pp_old" /\ g.seen = f.seen /\ g.ovl = f.ovl
        /\ \/ f.todo = {} /\ pc'[t] = "pp_merge" /\ g.todo = {}
           \/ g.id \in f.todo /\ g.todo = f.todo \ {g.id} /\ pc'[t] = "pp_remove"
    BY <1>13, PacketValues
  <2> QED
    BY <1>2, <1>3, <1>7, <2>1 DEF Between, PacketPair, SessionPair
<1>14. CASE PpRemove(t)
  <2>1. pc[t] = "pp_remove" /\ Phase(t)' = "pp_unsee" /\ g = f
    BY <1>14, PacketValues
  <2> QED
    BY <1>2, <1>3, <1>7, <2>1 DEF Between, PacketPair, SessionPair
<1>15. CASE PpUnsee(t)
  <2>1. pc[t] = "pp_unsee" /\ pc'[t] \in {"pp_old", "pp_peer_remove"} /\ g = f
    BY <1>15, PacketValues
  <2>2. /\ Listed(c, q)' <=> Listed(c, q)
        /\ Listed(q, c)' <=> Listed(q, c) /\ q # f.id
        /\ Beheld(c, q)' <=> Beheld(c, q)
    BY <1>1, <1>5, <1>15, <2>1, PacketLists DEF PpMove, PpMerge
  <2>3. q = f.id => q \notin f.seen
    BY <1>2, <2>1 DEF Copies
  <2> QED
    BY <1>2, <1>3, <2>1, <2>2, <2>3 DEF Between, PacketPair, SessionPair
<1>16. CASE PpPeerRemove(t)
  <2>1. pc[t] = "pp_peer_remove" /\ pc'[t] = "pp_old" /\ g = f
    BY <1>16, PacketValues
  <2> QED
    BY <1>2, <1>3, <1>7, <2>1 DEF Between, PacketPair, SessionPair
<1>17. CASE PpMerge(t)
  <2>1. pc[t] = "pp_merge" /\ pc'[t] = "parse"
    BY <1>17, PacketValues
  <2>2. /\ Listed(c, q)' <=> (Listed(c, q) \/ q \in f.ovl) /\ ~(q \in f.ovl /\ q \notin f.seen)
        /\ Listed(q, c)' <=> Listed(q, c)
        /\ Beheld(c, q)' <=> Beheld(c, q)
        /\ Beheld(q, c)' <=> IsNear(c, q)
    <3>1. ~PpPeer(t) /\ ~PpUnsee(t) /\ ~PpMove(t)
      BY <2>1 DEF PpPeer, PpUnsee, PpMove
    <3>2. /\ Listed(c, q)' <=> (Listed(c, q) \/ q \in f.ovl) /\ ~(q \in f.ovl /\ q \notin f.seen)
          /\ Listed(q, c)' <=> Listed(q, c)
      BY <1>1, <1>17, <3>1, PacketLists
    <3>3. Beheld(q, c)' <=> IsNear(c, q)
      BY <1>2, <1>3, <1>4, <1>5, <3>1 DEF Beheld
    <3> QED
      BY <1>5, <3>1, <3>2, <3>3
  <2>3. q \notin f.todo /\ (q \in f.seen => q \in f.ovl)
    BY <1>2, <2>1 DEF Copies
  <2>4. /\ Listed(c, q) => q \in f.ovl
        /\ q \in f.seen <=> Beheld(c, q)
        /\ bConnected[q] => (Listed(q, c) <=> IsNear(c, q))
    BY <1>2, <2>1, <2>3 DEF Between, PacketPair, Beheld
  <2>5. Agrees(c, q)' /\ Agrees(q, c)'
    BY <1>3, <2>2, <2>3, <2>4 DEF Agrees
  <2> QED
    BY <1>2, <2>1, <2>5 DEF Between, PacketPair, SessionPair
<1> QED
  BY <1>6, <1>8, <1>9, <1>10, <1>11, <1>12, <1>13, <1>14, <1>15, <1>16, <1>17 DEF PacketStep

(* What is common to the steps of workers and accept thread.               *)
LEMMA BoardsOfOwn ==
  ASSUME TypeInv, TypeInv', NpcsOnly, NEW t \in Threads, OwnStep(t), Boards(t),
         NEW c, c = frame[t].cl
  PROVE  /\ Phase(t)' \notin Unsettled /\ AllAgree' => Boards(t)'
         /\ (/\ frame'[t].cl = c
             /\ c \in Players => \A q \in Players \ {c} : Between(t, q)') => Boards(t)'
         /\ (/\ UNCHANGED <<board, view_list, bConnected>>
             /\ Phase(t) \notin Unsettled /\ Phase(t)' \notin Unsettled) => Boards(t)'
         /\ (/\ Phase(t)' \notin Unsettled
             /\ c \in Players => \A q \in Players \ {c} : Agrees(c, q)' /\ Agrees(q, c)') => Boards(t)'
<1>1. c \in Users /\ frame'[t].cl \in Users
  BY FrameFields DEF TypeInv, LocalInv
<1>2. ASSUME NEW p \in Players \ {c}, NEW q \in Players \ {c}, p # q  PROVE Agrees(p, q)'
  BY <1>2, Elsewhere DEF Boards, Players
<1>3. ASSUME Phase(t)' \notin Unsettled, AllAgree'  PROVE Boards(t)'
  BY <1>1, <1>3 DEF Boards, AllAgree, Between, PacketPair, SessionPair, Unsettled, EachLabels, OldLabels,
     ScanLabels, Players
<1>4. ASSUME frame'[t].cl = c, c \in Players => \A q \in Players \ {c} : Between(t, q)'
      PROVE  Boards(t)'
  BY <1>2, <1>4 DEF Boards
<1>5. ASSUME UNCHANGED <<board, view_list, bConnected>>,
             Phase(t) \notin Unsettled, Phase(t)' \notin Unsettled
      PROVE  Boards(t)'
  <2>1. AllAgree
    BY <1>1, <1>5, SettledBoards
  <2>2. AllAgree'
    BY <1>5, <2>1 DEF AllAgree, Agrees, Beheld, Listed, IsNear, board
  <2> QED
    BY <1>3, <1>5, <2>2
<1>6. ASSUME Phase(t)' \notin Unsettled,
             c \in Players => \A q \in Players \ {c} : Agrees(c, q)' /\ Agrees(q, c)'
      PROVE  Boards(t)'
  <2>1. AllAgree'
    BY <1>2, <1>6 DEF AllAgree
  <2> QED
    BY <1>3, <1>6, <2>1
<1> QED
  BY <1>3, <1>4, <1>5, <1>6

LEMMA BoardsOfWorker ==
  ASSUME TypeInv, TypeInv', NpcsOnly, NEW t \in Workers, WorkerStep(t), Copies(t), Sessions(t),
         Boards(t)
  PROVE  Boards(t)'
<1> DEFINE f == frame[t]
           g == frame'[t]
<1>0. PICK c : c = frame[t].cl
  OBVIOUS
<1> USE <1>0
<1>1. t \in Threads /\ OwnStep(t) /\ SharedType /\ c \in Users /\ c \in Objects /\ f.idx \in Nat
      /\ \A q \in Users : q \in Nat /\ q < MaxUser
  BY FrameFields, UsersAreObjects, SlotsAssumption DEF TypeInv, LocalInv, Threads, OwnStep, Users
<1>2. Phase(t) = pc[t] /\ (pc'[t] \notin BeatLabels => Phase(t)' = pc'[t])
  BY <1>1, OwnPhases
<1> USE <1>1 DEF Unsettled, EachLabels, OldLabels, ScanLabels, BeatLabels
<1>3. CASE PacketStep(t)
  <2>1. g.cl = c
    BY <1>3, PacketValues
  <2>2. ASSUME c \in Players, NEW q \in Players \ {c}  PROVE Between(t, q)'
    BY <1>3, <2>2, BetweenOfPacket DEF Boards
  <2> QED
    BY <2>1, <2>2, BoardsOfOwn
<1>4. CASE \/ \E p \in Users : \/ RecvData(t, p) \/ RecvEof(t, p)
                               \/ LostCompletion(t, p) \/ AbortedCompletion(t, p)
           \/ \E n \in Objects : DoAi(t, n)
           \/ Parse(t) \/ Rearm(t) \/ DcClose(t)
  <2>1. UNCHANGED <<board, view_list, bConnected>>
    BY <1>4 DEF RecvData, RecvEof, LostCompletion, AbortedCompletion, DoAi, Parse, Rearm, DcClose, slots
  <2>2. /\ pc[t] \in {"gqcs", "parse", "rearm", "dc_close"}
        /\ Phase(t)' \in {"gqcs", "parse", "rearm", "dc_close", "dc_free", "hung", "pp_move"}
    BY <1>2, <1>4, WorkerValues
  <2> QED
    BY <1>2, <2>1, <2>2, BoardsOfOwn
<1>5. CASE DcFree(t)
  <2>1. pc[t] = "dc_free" /\ pc'[t] = "dc_dead" /\ g = f /\ f.idx = 0
    BY <1>2, <1>5, WorkerValues DEF Copies
  <2>2. ASSUME NEW q \in Players \ {c}  PROVE Between(t, q)'
    BY <1>2, <2>1 DEF Between, PacketPair, SessionPair, Players
  <2> QED
    BY <2>1, <2>2, BoardsOfOwn
<1>6. CASE DcDead(t)
  <2>1. pc[t] = "dc_dead" /\ pc'[t] = "dc_scan" /\ g = f /\ f.idx = 0
    BY <1>2, <1>6, WorkerValues DEF Copies
  <2>2. ASSUME NEW q \in Players \ {c}  PROVE Between(t, q)'
    BY <1>2, <2>1 DEF Between, PacketPair, SessionPair, Players
  <2> QED
    BY <2>1, <2>2, BoardsOfOwn
<1>7. CASE DcScan(t)
  <2>1. pc[t] = "dc_scan" /\ ~bConnected[c] /\ UNCHANGED <<board, slots>>
    BY <1>2, <1>7, WorkerValues DEF Sessions, DcScan
  <2>2. CASE pc'[t] = "dc_remove" /\ g = f /\ f.idx < MaxUser
    <3>1. Unsee(f.idx, c)
      BY <1>7, <2>2 DEF DcScan, DcReturn, Cl, Goto, TypeInv, Functional
    <3>2. ASSUME c \in Players, NEW q \in Players \ {c}  PROVE Between(t, q)'
      <4>1. Listed(q, c)' <=> Listed(q, c) /\ q # f.idx
        BY <2>2, <3>1, <3>2 DEF Unsee, SharedType, Listed, Players
      <4>2. bConnected[q] /\ Listed(q, c) => q >= f.idx
        BY <1>2, <2>1, <3>2 DEF Boards, Between, SessionPair
      <4>3. bConnected'[q] /\ Listed(q, c)' => q > f.idx
        BY <2>1, <4>1, <4>2 DEF slots, Players
      <4> QED
        BY <1>2, <2>2, <4>3 DEF Between, PacketPair, SessionPair
    <3> QED
      BY <2>2, <3>2, BoardsOfOwn
  <2>3. CASE pc'[t] = "dc_scan" /\ g.cl = c /\ g.idx = f.idx + 1 /\ f.idx < MaxUser
    <3>1. ~(bConnected[f.idx] /\ Listed(f.idx, c)) /\ UNCHANGED view_list
      BY <1>7, <2>3 DEF DcScan, DcReturn, Cl, Goto, TypeInv, Functional, Listed
    <3>2. ASSUME c \in Players, NEW q \in Players \ {c}  PROVE Between(t, q)'
      <4>1. bConnected[q] /\ Listed(q, c) => q >= f.idx
        BY <1>2, <2>1, <3>2 DEF Boards, Between, SessionPair
      <4>2. bConnected'[q] /\ Listed(q, c)' => q >= f.idx + 1
        BY <2>1, <2>3, <3>1, <4>1 DEF slots, Players, Listed
      <4> QED
        BY <1>2, <2>3, <4>2 DEF Between, PacketPair, SessionPair
    <3> QED
      BY <2>3, <3>2, BoardsOfOwn
  <2>4. CASE pc'[t] \in {"gqcs", "dc_close"} /\ f.idx = MaxUser
    <3>1. UNCHANGED view_list
      BY <1>7, <2>4 DEF DcScan
    <3>2. ASSUME c \in Players, NEW q \in Players \ {c}  PROVE Agrees(c, q)' /\ Agrees(q, c)'
      <4>1. bConnected[q] /\ Listed(q, c) => q >= f.idx
        BY <1>2, <2>1, <3>2 DEF Boards, Between, SessionPair
      <4>2. ~(bConnected[q] /\ Listed(q, c)) /\ ~bConnected[c]
        BY <2>1, <2>4, <4>1 DEF Players
      <4> QED
        BY <2>1, <3>1, <4>2 DEF Agrees, Listed, Beheld, slots
    <3> QED
      BY <1>2, <2>4, <3>2, BoardsOfOwn
  <2> QED
    BY <1>7, <2>2, <2>3, <2>4, WorkerValues
<1>8. CASE DcRemove(t)
  <2>1. /\ pc[t] = "dc_remove" /\ pc'[t] = "dc_scan" /\ g.cl = c /\ g.idx = f.idx + 1
        /\ UNCHANGED <<bConnected, view_list>>
    BY <1>8, WorkerValues DEF DcRemove, slots
  <2>2. ASSUME c \in Players, NEW q \in Players \ {c}  PROVE Between(t, q)'
    <3>1. bConnected[q] /\ Listed(q, c) => q > f.idx
      BY <1>2, <2>1, <2>2 DEF Boards, Between, SessionPair
    <3>2. bConnected'[q] /\ Listed(q, c)' => q >= f.idx + 1
      BY <2>1, <3>1 DEF Players, Listed
    <3> QED
      BY <1>2, <2>1, <3>2 DEF Between, PacketPair, SessionPair
  <2> QED
    BY <2>1, <2>2, BoardsOfOwn
<1> QED
  BY <1>3, <1>4, <1>5, <1>6, <1>7, <1>8 DEF WorkerStep

LEMMA BoardsOfAccept ==
  ASSUME TypeInv, TypeInv', NpcsOnly, NEW t \in Threads, t = Acceptor, AcceptStep(t), Copies(t),
         Sessions(t), Boards(t), ~Hung'
  PROVE  Boards(t)'
<1> DEFINE f == frame[t]
           g == frame'[t]
<1>0. PICK c : c = frame[t].cl
  OBVIOUS
<1> USE <1>0
<1>1. OwnStep(t) /\ SharedType /\ c \in Users /\ c \in Objects /\ f.idx \in Nat
      /\ \A q \in Users : q \in Nat /\ q < MaxUser /\ q < NumOfNpc /\ q \in Objects
  BY FrameFields, UsersAreObjects, SlotsAssumption DEF TypeInv, LocalInv, OwnStep, Users
<1>2. Phase(t) = pc[t] /\ (pc'[t] \notin BeatLabels => Phase(t)' = pc'[t])
  BY <1>1, OwnPhases
<1> USE <1>1 DEF Unsettled, EachLabels, OldLabels, ScanLabels, BeatLabels
<1>3. CASE (\E p \in Users : Accept(t, p)) \/ AcOpen(t)
  <2>1. UNCHANGED <<board, view_list, bConnected>>
    BY <1>3 DEF Accept, AcOpen, slots
  <2>2. pc[t] \in {"accept", "ac_open"} /\ pc'[t] \in {"ac_clear", "ac_connect"}
    BY <1>3, AcceptValues
  <2> QED
    BY <1>2, <2>1, <2>2, BoardsOfOwn
<1>4. CASE AcClear(t)
  <2>1. pc[t] = "ac_clear" /\ pc'[t] = "ac_open" /\ ~bConnected[c] /\ UNCHANGED <<board, bConnected>>
    BY <1>2, <1>4, AcceptValues DEF Sessions, AcClear, slots
  <2>2. ASSUME c \in Players, NEW q \in Players \ {c}  PROVE Agrees(c, q)' /\ Agrees(q, c)'
    <3>1. Agrees(q, c)
      BY <1>2, <2>1, <2>2 DEF Boards, Between
    <3>2. Listed(q, c)' <=> Listed(q, c)
      BY <1>4, <2>2 DEF AcClear, Cl, Listed, SharedType, Players
    <3> QED
      BY <2>1, <3>1, <3>2 DEF Agrees, Beheld
  <2> QED
    BY <1>2, <2>1, <2>2, BoardsOfOwn
<1>5. CASE AcConnect(t)
  <2>1. /\ pc[t] = "ac_connect" /\ pc'[t] = "ac_live" /\ g = f /\ ~bConnected[c] /\ view_list[c] = {}
        /\ UNCHANGED view_list /\ \A q \in Users \ {c} : bConnected'[q] = bConnected[q]
    BY <1>2, <1>5, AcceptValues DEF Sessions, AcConnect, Cl, SharedType
  <2>2. ASSUME c \in Players, NEW q \in Players \ {c}  PROVE Between(t, q)'
    <3>1. Agrees(q, c)
      BY <1>2, <2>1, <2>2 DEF Boards, Between
    <3>2. ~Listed(c, q)' /\ (bConnected'[q] => ~Listed(q, c)')
      BY <2>1, <3>1 DEF Agrees, Beheld, Listed, Players
    <3> QED
      BY <1>2, <2>1, <3>2 DEF Between, PacketPair, SessionPair
  <2> QED
    BY <2>1, <2>2, BoardsOfOwn
<1>6. CASE AcLive(t) \/ AcRecv(t) \/ AcSelf(t)
  <2>1. /\ pc[t] \in {"ac_live", "ac_recv", "ac_self"} /\ pc'[t] \in {"ac_recv", "ac_self", "ac_scan"}
        /\ g = f /\ f.idx = 0 /\ f.seen = {}
    BY <1>2, <1>6, AcceptValues DEF Copies, JoinLabels, Hung
  <2>2. UNCHANGED <<board, view_list, bConnected>>
    BY <1>6 DEF AcLive, AcRecv, AcSelf, slots
  <2>3. ASSUME c \in Players, NEW q \in Players \ {c}  PROVE Between(t, q)'
    <3>1. ~Listed(c, q)' /\ (bConnected'[q] => ~Listed(q, c)')
      BY <1>2, <2>1, <2>2, <2>3 DEF Boards, Between, SessionPair, Listed
    <3> QED
      BY <1>2, <2>1, <3>1 DEF Between, PacketPair, SessionPair, Players
  <2> QED
    BY <2>1, <2>3, BoardsOfOwn
<1>7. ASSUME c \in Players, NEW q \in Players \ {c}
      PROVE  /\ IsNear(c, q) <=> IsNear(q, c)
             /\ pc[t] \in ScanLabels => bConnected[c] /\ (bIsAlive[q] <=> bConnected[q])
  BY <1>2, <1>7, NearBothWays DEF Sessions, Serves, Sound, Players
<1>8. ASSUME NEW q \in Players \ {c}, UNCHANGED <<board, slots>>, g.cl = c
      PROVE  Beheld(c, q)' <=> Beheld(c, q)
  BY <1>8 DEF Beheld, IsNear, board, slots
<1>9. CASE AcScan(t)
  <2>1. UNCHANGED <<board, slots, view_list>>
    BY <1>9 DEF AcScan
  <2>2. CASE /\ pc[t] = "ac_scan" /\ Phase(t)' = "ac_see" /\ g = f /\ f.idx < NumOfNpc
             /\ bIsAlive[f.idx] /\ IsNear(f.idx, c)
    <3>1. ASSUME c \in Players, NEW q \in Players \ {c}  PROVE Between(t, q)'
      <4>1. q = f.idx => Beheld(c, q)
        BY <1>7, <2>2, <3>1 DEF Beheld
      <4> QED
        BY <1>2, <1>8, <2>1, <2>2, <3>1, <4>1 DEF Boards, Between, PacketPair, SessionPair, Listed, slots
    <3> QED
      BY <2>2, <3>1, BoardsOfOwn
  <2>3. CASE /\ pc[t] = "ac_scan" /\ pc'[t] = "ac_scan" /\ g.cl = c /\ g.idx = f.idx + 1
             /\ g.seen = f.seen /\ f.idx < NumOfNpc
             /\ ~(bIsAlive[f.idx] /\ f.idx # c /\ IsNear(f.idx, c))
    <3>1. ASSUME c \in Players, NEW q \in Players \ {c}  PROVE Between(t, q)'
      <4>1. q = f.idx => ~Beheld(c, q)
        BY <1>7, <2>3, <3>1 DEF Beheld
      <4>2. q < g.idx <=> q < f.idx \/ q = f.idx
        BY <2>3 DEF Players
      <4> QED
        BY <1>2, <1>8, <2>1, <2>3, <3>1, <4>1, <4>2
        DEF Boards, Between, PacketPair, SessionPair, Listed, slots
    <3> QED
      BY <2>3, <3>1, BoardsOfOwn
  <2>4. CASE pc[t] = "ac_scan" /\ pc'[t] = "ac_merge" /\ g = f /\ f.idx = NumOfNpc
    <3>1. ASSUME c \in Players, NEW q \in Players \ {c}  PROVE Between(t, q)'
      BY <1>2, <1>8, <2>1, <2>4, <3>1 DEF Boards, Between, PacketPair, SessionPair, Listed, slots
    <3> QED
      BY <2>4, <3>1, BoardsOfOwn
  <2> QED
    BY <1>9, <2>2, <2>3, <2>4, AcceptValues
<1>10. CASE AcSee(t)
  <2>1. /\ pc[t] = "ac_see" /\ pc'[t] = "ac_peer" /\ g.cl = c /\ g.idx = f.idx
        /\ g.seen = f.seen \cup {f.idx} /\ UNCHANGED <<board, slots, view_list>>
    BY <1>10, AcceptValues DEF AcSee
  <2>2. ASSUME c \in Players, NEW q \in Players \ {c}  PROVE Between(t, q)'
    BY <1>2, <1>8, <2>1, <2>2 DEF Boards, Between, PacketPair, SessionPair, Listed, slots
  <2> QED
    BY <2>1, <2>2, BoardsOfOwn
<1>11. CASE AcPeer(t)
  <2>1. pc[t] = "ac_peer" /\ UNCHANGED <<board, slots>> /\ g.cl = c /\ g.seen = f.seen
    BY <1>11, AcceptValues DEF AcPeer
  <2>2. CASE pc'[t] = "ac_peer_put" /\ g = f
    <3>1. See(f.idx, c)
      BY <1>11, <2>2 DEF AcPeer, Cl, Goto, TypeInv, Functional
    <3>2. ASSUME c \in Players, NEW q \in Players \ {c}  PROVE Between(t, q)'
      <4>1. /\ Listed(q, c)' <=> Listed(q, c) \/ q = f.idx
            /\ Listed(c, q)' <=> Listed(c, q)
        BY <2>1, <3>1, <3>2 DEF See, SharedType, Listed, Players
      <4> QED
        BY <1>2, <1>8, <2>1, <2>2, <3>2, <4>1 DEF Boards, Between, PacketPair, SessionPair, slots
    <3> QED
      BY <2>2, <3>2, BoardsOfOwn
  <2>3. CASE pc'[t] = "ac_scan" /\ g.idx = f.idx + 1
    <3>1. ~(bConnected[f.idx] /\ ~Listed(f.idx, c)) /\ UNCHANGED view_list
      BY <1>11, <2>3 DEF AcPeer, Cl, Goto, TypeInv, Functional, Listed
    <3>2. ASSUME c \in Players, NEW q \in Players \ {c}  PROVE Between(t, q)'
      <4>1. q < g.idx <=> q < f.idx \/ q = f.idx
        BY <2>3 DEF Players
      <4>2. q = f.idx /\ bConnected[q] => Listed(q, c)
        BY <3>1
      <4> QED
        BY <1>2, <1>8, <2>1, <2>3, <3>1, <3>2, <4>1, <4>2
        DEF Boards, Between, PacketPair, SessionPair, Listed, slots
    <3> QED
      BY <2>1, <2>3, <3>2, BoardsOfOwn
  <2> QED
    BY <1>11, <2>2, <2>3, AcceptValues
<1>12. CASE AcPeerPut(t)
  <2>1. /\ pc[t] = "ac_peer_put" /\ pc'[t] = "ac_scan" /\ g.cl = c /\ g.idx = f.idx + 1
        /\ g.seen = f.seen /\ UNCHANGED <<board, slots, view_list>>
    BY <1>12, AcceptValues DEF AcPeerPut
  <2>2. ASSUME c \in Players, NEW q \in Players \ {c}  PROVE Between(t, q)'
    <3>1. q < g.idx <=> q < f.idx \/ q = f.idx
      BY <2>1 DEF Players
    <3> QED
      BY <1>2, <1>8, <2>1, <2>2, <3>1 DEF Boards, Between, PacketPair, SessionPair, Listed, slots
  <2> QED
    BY <2>1, <2>2, BoardsOfOwn
<1>13. CASE AcMerge(t)
  <2>1. pc[t] = "ac_merge" /\ pc'[t] = "accept" /\ UNCHANGED <<board, slots>> /\ f.idx = NumOfNpc
    BY <1>2, <1>13, AcceptValues DEF AcMerge, Copies
  <2>2. ASSUME c \in Players, NEW q \in Players \ {c}  PROVE Agrees(c, q)' /\ Agrees(q, c)'
    <3>1. /\ q \in view_list'[c] <=> Listed(c, q) \/ q \in f.seen
          /\ c \in view_list'[q] <=> Listed(q, c)
      BY <1>13, <2>2 DEF AcMerge, Cl, SharedType, Players, Listed
    <3>2. /\ ~Listed(c, q) /\ (q \in f.seen <=> Beheld(c, q))
          /\ bConnected[q] => (Listed(q, c) <=> Beheld(c, q))
      BY <1>2, <2>1, <2>2 DEF Boards, Between, SessionPair, Players
    <3>3. (q \in view_list'[c] <=> Beheld(c, q)) /\ (bConnected[q] => (c \in view_list'[q] <=> Beheld(q, c)))
      BY <1>7, <2>1, <2>2, <3>1, <3>2 DEF Beheld
    <3>4. /\ bConnected'[c] = bConnected[c] /\ bConnected'[q] = bConnected[q]
          /\ x' = x /\ y' = y
      BY <2>1 DEF slots, board
    <3> QED
      BY <3>3, <3>4 DEF Agrees, Beheld, Listed, IsNear
  <2> QED
    BY <1>2, <2>1, <2>2, BoardsOfOwn
<1> QED
  BY <1>3, <1>4, <1>5, <1>6, <1>9, <1>10, <1>11, <1>12, <1>13 DEF AcceptStep

-----------------------------------------------------------------------------
(* What the clients display, of players and NPCs.                          *)

Shows(p, o) == o \in shown[p]

(* Objects put into, or taken out of, p's list whose packet is not sent.   *)
ToPut(t, p, o) ==
  \/ pc[t] = "hb_put" /\ p = beat[t].pi /\ o = beat[t].npc
  \/ pc[t] = "pp_peer_put" /\ p = frame[t].id /\ o = frame[t].cl
  \/ pc[t] = "ac_peer_put" /\ p = frame[t].idx /\ o = frame[t].cl

ToRemove(t, p, o) ==
  \/ pc[t] = "hb_remove" /\ p = beat[t].pi /\ o = beat[t].npc
  \/ pc[t] = "pp_peer_remove" /\ p = frame[t].id /\ o = frame[t].cl
  \/ pc[t] = "dc_remove" /\ p = frame[t].idx /\ o = frame[t].cl

(* What p has been told of: its list, but for the client being served,     *)
(* which is told before its list is merged.                                *)
Told(t, p, o) ==
  LET f == frame[t]
      at == Phase(t)
  IN IF p # f.cl THEN Listed(p, o)
     ELSE /\ at \in EachLabels => o \in f.ovl
          /\ at \in OldLabels => o \in f.seen \/ o \in f.todo \/ (at = "pp_remove" /\ f.id = o)
          /\ at \in ScanLabels => Listed(p, o) \/ o \in f.seen
          /\ at \notin EachLabels \cup OldLabels \cup ScanLabels => Listed(p, o)

(* The list of the client being served changes under a nested beat only,   *)
(* and only what has just been removed from its display.                   *)
Merges(t, o) ==
  LET f == frame[t]
      at == Phase(t)
      L == Listed(f.cl, o)
  IN /\ at \in EachLabels => (L => o \in f.ovl) /\ (o \in f.ovl /\ o \notin f.seen => L)
     /\ at \in OldLabels => (L => o \in f.ovl) /\ (o \in f.todo \/ (at = "pp_remove" /\ f.id = o) => L)
     /\ at = "pp_unsee" /\ pc[t] \in BeatLabels /\ o = f.id =>
          /\ pc[t] \in {"hb_load", "hb_store", "hb_clamp", "hb_view", "hb_near", "hb_far"}
               /\ beat[t].pi <= f.cl => L
          /\ pc[t] \in {"hb_put", "hb_remove"} /\ beat[t].pi < f.cl => L
          /\ pc[t] = "hb_put" => beat[t].pi # f.cl

Display(t, p, o) ==
  bConnected[p] /\ o # p =>
    /\ ToPut(t, p, o) => Listed(p, o)
    /\ ToRemove(t, p, o) => ~Listed(p, o)
    /\ \/ Shows(p, o) <=> Told(t, p, o)
       \/ ToPut(t, p, o) \/ ToRemove(t, p, o)
       \/ Phase(t) = "pp_put" /\ p = frame[t].cl /\ o = frame[t].id
    /\ p = frame[t].cl => Merges(t, o)

Displays(t) == \A p \in Users, o \in Objects : Display(t, p, o)

(* What a step of ProcessPacket does to a list and a display.              *)
LEMMA PacketShows ==
  ASSUME TypeInv, NEW t \in Workers, PacketStep(t), NEW p \in Users, NEW o \in Objects,
         NEW c, c = frame[t].cl
  PROVE  LET f == frame[t]
         IN /\ PpPeer(t) => /\ Listed(p, o)' <=> Listed(p, o) \/ (p = f.id /\ o = c)
                            /\ Shows(p, o)' <=> Shows(p, o)
            /\ PpUnsee(t) => /\ Listed(p, o)' <=> Listed(p, o) /\ ~(p = f.id /\ o = c)
                             /\ Shows(p, o)' <=> Shows(p, o)
            /\ PpMerge(t) =>
                 /\ p # c => (Listed(p, o)' <=> Listed(p, o))
                 /\ p = c => (Listed(p, o)' <=> (Listed(p, o) \/ o \in f.ovl) /\ ~(o \in f.ovl /\ o \notin f.seen))
                 /\ Shows(p, o)' <=> Shows(p, o)
            /\ PpPut(t) => /\ Listed(p, o)' <=> Listed(p, o)
                           /\ Shows(p, o)' <=> Shows(p, o) \/ (open[p] /\ p = c /\ o = f.id)
            /\ PpRemove(t) => /\ Listed(p, o)' <=> Listed(p, o)
                              /\ Shows(p, o)' <=> Shows(p, o) /\ ~(open[p] /\ p = c /\ o = f.id)
            /\ PpPeerPut(t) => /\ Listed(p, o)' <=> Listed(p, o)
                               /\ Shows(p, o)' <=> Shows(p, o) \/ (open[p] /\ p = f.id /\ o = c)
            /\ PpPeerRemove(t) => /\ Listed(p, o)' <=> Listed(p, o)
                                  /\ Shows(p, o)' <=> Shows(p, o) /\ ~(open[p] /\ p = f.id /\ o = c)
            /\ PpMove(t) \/ PpScan(t) \/ PpCopy(t) \/ PpEach(t) \/ PpOld(t) =>
                 /\ Listed(p, o)' <=> Listed(p, o)
                 /\ Shows(p, o)' <=> Shows(p, o)
<1> DEFINE f == frame[t]
<1>1. SharedType /\ c \in Users /\ f.id \in Objects
  BY FrameFields DEF TypeInv, LocalInv, Threads
<1> USE <1>1 DEF Listed, Shows, Cl, SharedType
<1>2. PpPeer(t) => /\ Listed(p, o)' <=> Listed(p, o) \/ (p = f.id /\ o = c)
                   /\ Shows(p, o)' <=> Shows(p, o)
  BY DEF PpPeer, See
<1>3. PpUnsee(t) => /\ Listed(p, o)' <=> Listed(p, o) /\ ~(p = f.id /\ o = c)
                    /\ Shows(p, o)' <=> Shows(p, o)
  <2>1. p = f.id => IsPlayer(f.id)
    BY SlotsAssumption DEF IsPlayer, Users
  <2> QED
    BY <2>1 DEF PpUnsee, Unsee
<1>4. PpMerge(t) =>
        /\ p # c => (Listed(p, o)' <=> Listed(p, o))
        /\ p = c => (Listed(p, o)' <=> (Listed(p, o) \/ o \in f.ovl) /\ ~(o \in f.ovl /\ o \notin f.seen))
        /\ Shows(p, o)' <=> Shows(p, o)
  BY DEF PpMerge
<1>5. PpPut(t) => /\ Listed(p, o)' <=> Listed(p, o)
                  /\ Shows(p, o)' <=> Shows(p, o) \/ (open[p] /\ p = c /\ o = f.id)
  BY DEF PpPut, SendPutPlayerPacket
<1>6. PpRemove(t) => /\ Listed(p, o)' <=> Listed(p, o)
                     /\ Shows(p, o)' <=> Shows(p, o) /\ ~(open[p] /\ p = c /\ o = f.id)
  BY DEF PpRemove, SendRemovePlayerPacket
<1>7. PpPeerPut(t) => /\ Listed(p, o)' <=> Listed(p, o)
                      /\ Shows(p, o)' <=> Shows(p, o) \/ (open[p] /\ p = f.id /\ o = c)
  BY DEF PpPeerPut, SendPutPlayerPacket
<1>8. PpPeerRemove(t) => /\ Listed(p, o)' <=> Listed(p, o)
                         /\ Shows(p, o)' <=> Shows(p, o) /\ ~(open[p] /\ p = f.id /\ o = c)
  BY DEF PpPeerRemove, SendRemovePlayerPacket
<1>9. PpMove(t) \/ PpScan(t) \/ PpCopy(t) \/ PpEach(t) \/ PpOld(t) =>
        /\ Listed(p, o)' <=> Listed(p, o)
        /\ Shows(p, o)' <=> Shows(p, o)
  BY DEF PpMove, PpScan, PpCopy, PpEach, PpOld
<1> QED
  BY <1>2, <1>3, <1>4, <1>5, <1>6, <1>7, <1>8, <1>9

LEMMA DisplayOfPacket ==
  ASSUME TypeInv, NpcsOnly, NEW t \in Workers, PacketStep(t), Copies(t), Sessions(t),
         NEW p \in Users, NEW o \in Objects, Display(t, p, o)
  PROVE  Display(t, p, o)'
<1> DEFINE f == frame[t]
           g == frame'[t]
<1>1. PICK c : c = frame[t].cl
  OBVIOUS
<1>2. /\ Phase(t) = pc[t] /\ (pc'[t] \notin BeatLabels => Phase(t)' = pc'[t]) /\ g.cl = c
      /\ pc[t] \in PacketLabels
  BY <1>1, PacketValues
<1>3. UNCHANGED bConnected
  BY DEF PacketStep, PpMove, PpScan, PpCopy, PpEach, PpPut, PpPeer, PpPeerPut, PpOld, PpRemove,
     PpUnsee, PpPeerRemove, PpMerge, slots
<1>4. bConnected[p] => open[p]
  BY <1>2 DEF Sessions, Sound, PacketLabels
<1>5. SUFFICES ASSUME bConnected[p], o # p  PROVE Display(t, p, o)'
  BY <1>3 DEF Display
<1> USE <1>1, <1>2, <1>3, <1>4, <1>5
    DEF EachLabels, OldLabels, ScanLabels, BeatLabels, Display, Merges, Told, ToPut, ToRemove
<1>6. CASE PpMove(t) \/ PpScan(t)
  <2>1. pc[t] \in {"pp_move", "pp_scan"} /\ pc'[t] \in {"pp_scan", "pp_copy"}
    BY <1>6, PacketValues
  <2> QED
    BY <1>6, <2>1, PacketShows
<1>7. CASE PpCopy(t)
  <2>1. /\ pc[t] = "pp_copy" /\ pc'[t] = "pp_each" /\ g.seen = f.seen
        /\ g.ovl = view_list[c]
    BY <1>7, PacketValues
  <2>2. p = c => (o \in g.ovl <=> Listed(p, o))
    BY <2>1 DEF Listed
  <2> QED
    BY <1>7, <2>1, <2>2, PacketShows
<1>8. CASE PpEach(t)
  <2>1. CASE /\ pc[t] = "pp_each" /\ g.seen = f.seen /\ f.todo = {} /\ pc'[t] = "pp_old"
             /\ g.ovl = f.ovl /\ g.todo = f.ovl \ f.seen
    <3>1. f.seen \subseteq f.ovl
      BY <2>1 DEF Copies
    <3> QED
      BY <1>8, <2>1, <3>1, PacketShows
  <2>2. CASE /\ pc[t] = "pp_each" /\ g.seen = f.seen
             /\ g.id \in f.todo /\ g.todo = f.todo \ {g.id}
             /\ g.ovl = f.ovl \cup {g.id}
             /\ pc'[t] = IF g.id \notin f.ovl THEN "pp_put"
                         ELSE IF IsPlayer(g.id) THEN "pp_peer" ELSE "pp_each"
    <3>1. g.id \in f.seen
      BY <2>2 DEF Copies
    <3> QED
      BY <1>8, <2>2, <3>1, PacketShows
  <2> QED
    BY <1>8, <2>1, <2>2, PacketValues
<1>9. CASE PpPut(t)
  <2>1. pc[t] = "pp_put" /\ g = f /\ pc'[t] \in {"pp_peer", "pp_each"} /\ f.id \in f.ovl /\ f.id \in f.seen
    BY <1>9, PacketValues DEF Copies
  <2> QED
    BY <1>9, <2>1, PacketShows
<1>10. CASE PpPeer(t)
  <2>1. pc[t] = "pp_peer" /\ pc'[t] \in {"pp_each", "pp_peer_put"} /\ g = f
    BY <1>10, PacketValues
  <2>2. pc'[t] = "pp_each" => Listed(f.id, c)
    BY <1>10, <2>1 DEF PpPeer, Goto, TypeInv, Functional, Listed, Cl, Threads
  <2> QED
    BY <1>10, <2>1, <2>2, PacketShows
<1>11. CASE PpPeerPut(t)
  <2>1. pc[t] = "pp_peer_put" /\ pc'[t] = "pp_each" /\ g = f
    BY <1>11, PacketValues
  <2> QED
    BY <1>11, <2>1, PacketShows
<1>12. CASE PpOld(t)
  <2>1. /\ pc[t] = "pp_old" /\ g.seen = f.seen /\ g.ovl = f.ovl
        /\ \/ f.todo = {} /\ pc'[t] = "pp_merge" /\ g.todo = {}
           \/ g.id \in f.todo /\ g.todo = f.todo \ {g.id} /\ pc'[t] = "pp_remove"
    BY <1>12, PacketValues
  <2> QED
    BY <1>12, <2>1, PacketShows
<1>13. CASE PpRemove(t)
  <2>1. /\ pc[t] = "pp_remove" /\ Phase(t)' = "pp_unsee" /\ g = f
        /\ pc'[t] \in BeatLabels => pc'[t] = "hb_load"
        /\ f.id \notin f.seen /\ f.id \notin f.todo
    BY <1>13, PacketValues DEF Copies
  <2>2. pc'[t] \in {"hb_load", "pp_unsee"}
    BY <2>1
  <2> QED
    BY <1>13, <2>1, <2>2, PacketShows
<1>14. CASE PpUnsee(t)
  <2>1. pc[t] = "pp_unsee" /\ pc'[t] \in {"pp_old", "pp_peer_remove"} /\ g = f
    BY <1>14, PacketValues
  <2>2. pc'[t] = "pp_old" => ~(p = f.id /\ o = c /\ Listed(p, o))
    BY <1>14, <2>1, SlotsAssumption DEF PpUnsee, Goto, TypeInv, Functional, Listed, Cl, Threads, IsPlayer, Users
  <2> QED
    BY <1>14, <2>1, <2>2, PacketShows
<1>15. CASE PpPeerRemove(t)
  <2>1. pc[t] = "pp_peer_remove" /\ pc'[t] = "pp_old" /\ g = f
    BY <1>15, PacketValues
  <2> QED
    BY <1>15, <2>1, PacketShows
<1>16. CASE PpMerge(t)
  <2>1. pc[t] = "pp_merge" /\ pc'[t] = "parse" /\ f.todo = {} /\ f.seen \subseteq f.ovl
    BY <1>16, PacketValues DEF Copies
  <2> QED
    BY <1>16, <2>1, PacketShows
<1> QED
  BY <1>6, <1>7, <1>8, <1>9, <1>10, <1>11, <1>12, <1>13, <1>14, <1>15, <1>16 DEF PacketStep

LEMMA DisplayOfWorker ==
  ASSUME TypeInv, NpcsOnly, NEW t \in Workers, WorkerStep(t), Copies(t), Sessions(t),
         NEW p \in Users, NEW o \in Objects, Display(t, p, o)
  PROVE  Display(t, p, o)'
<1> DEFINE f == frame[t]
           g == frame'[t]
<1>1. PICK c : c = frame[t].cl
  OBVIOUS
<1>2. t \in Threads /\ OwnStep(t) /\ SharedType /\ Functional /\ c \in Users
  BY <1>1, FrameFields DEF TypeInv, LocalInv, Threads, OwnStep
<1>3. Phase(t) = pc[t] /\ (pc'[t] \notin BeatLabels => Phase(t)' = pc'[t])
  BY <1>2, OwnPhases
<1> USE <1>1, <1>2, <1>3
    DEF EachLabels, OldLabels, ScanLabels, BeatLabels, Display, Merges, Told, ToPut, ToRemove
<1>4. CASE PacketStep(t)
  BY <1>4, DisplayOfPacket
<1>5. CASE \/ \E q \in Users : \/ RecvData(t, q) \/ RecvEof(t, q)
                               \/ LostCompletion(t, q) \/ AbortedCompletion(t, q)
           \/ \E n \in Objects : DoAi(t, n)
           \/ Parse(t) \/ Rearm(t) \/ DcClose(t) \/ DcFree(t) \/ DcDead(t)
  <2>1. UNCHANGED <<view_list, shown>> /\ (bConnected'[p] => bConnected[p])
    <3>1. UNCHANGED <<view_list, shown>> /\ (UNCHANGED bConnected \/ DcFree(t))
      BY <1>5 DEF RecvData, RecvEof, LostCompletion, AbortedCompletion, DoAi, Parse, Rearm, DcClose,
         DcFree, DcDead, slots
    <3>2. DcFree(t) => (bConnected'[p] => bConnected[p])
      BY UsersAreObjects DEF DcFree, SharedType, Cl
    <3> QED
      BY <3>1, <3>2
  <2>2. /\ pc[t] \in {"gqcs", "parse", "rearm", "dc_close", "dc_free", "dc_dead"}
        /\ \/ pc'[t] \in {"gqcs", "parse", "rearm", "dc_close", "dc_free", "hung", "pp_move",
                          "dc_dead", "dc_scan"}
           \/ pc'[t] = "hb_load" /\ Phase(t)' = "gqcs"
    BY <1>5, WorkerValues
  <2>3. /\ Listed(p, o)' <=> Listed(p, o)
        /\ Shows(p, o)' <=> Shows(p, o)
    BY <2>1 DEF Listed, Shows
  <2> QED
    BY <2>1, <2>2, <2>3
<1>6. CASE DcScan(t)
  <2>1. pc[t] = "dc_scan" /\ UNCHANGED <<slots, shown>>
    BY <1>6, WorkerValues DEF DcScan
  <2>2. (Shows(p, o)' <=> Shows(p, o)) /\ (bConnected'[p] <=> bConnected[p])
    BY <2>1 DEF Shows, slots
  <2>3. CASE pc'[t] = "dc_remove" /\ g = f
    <3>1. Unsee(f.idx, c)
      BY <1>6, <2>3 DEF DcScan, DcReturn, Cl, Goto, Functional
    <3>2. Listed(p, o)' <=> Listed(p, o) /\ ~(p = f.idx /\ o = c)
      BY <3>1 DEF Unsee, SharedType, Listed
    <3> QED
      BY <2>1, <2>2, <2>3, <3>2
  <2>4. CASE pc'[t] \in {"dc_scan", "gqcs", "dc_close"}
    <3>1. UNCHANGED view_list
      BY <1>6, <2>4 DEF DcScan, Goto, Functional
    <3>2. Listed(p, o)' <=> Listed(p, o)
      BY <3>1 DEF Listed
    <3> QED
      BY <2>1, <2>2, <2>4, <3>2
  <2> QED
    BY <1>6, <2>3, <2>4, WorkerValues
<1>7. CASE DcRemove(t)
  <2>1. pc[t] = "dc_remove" /\ pc'[t] = "dc_scan" /\ UNCHANGED <<slots, view_list>>
    BY <1>7, WorkerValues DEF DcRemove
  <2>2. /\ Shows(p, o)' <=> Shows(p, o) /\ ~(open[p] /\ p = f.idx /\ o = c)
        /\ Listed(p, o)' <=> Listed(p, o)
        /\ bConnected'[p] <=> bConnected[p]
    BY <1>7, <2>1 DEF DcRemove, SendRemovePlayerPacket, SharedType, Shows, Listed, Cl, slots
  <2>3. bConnected[p] => open[p]
    BY <2>1 DEF Sessions, Sound
  <2> QED
    BY <2>1, <2>2, <2>3
<1> QED
  BY <1>4, <1>5, <1>6, <1>7 DEF WorkerStep

LEMMA DisplayOfAccept ==
  ASSUME TypeInv, NpcsOnly, NEW t \in Threads, t = Acceptor, AcceptStep(t), Copies(t), Sessions(t),
         NEW p \in Users, NEW o \in Objects, Display(t, p, o), ~Hung'
  PROVE  Display(t, p, o)'
<1> DEFINE f == frame[t]
           g == frame'[t]
<1>1. PICK c : c = frame[t].cl
  OBVIOUS
<1>2. OwnStep(t) /\ SharedType /\ Functional /\ c \in Users /\ c \in Objects
  BY <1>1, FrameFields, UsersAreObjects DEF TypeInv, LocalInv, OwnStep
<1>3. Phase(t) = pc[t] /\ (pc'[t] \notin BeatLabels => Phase(t)' = pc'[t])
  BY <1>2, OwnPhases
<1>4. bConnected[p] /\ Phase(t) \in ScanLabels \cup {"ac_self"} => open[p]
  BY DEF Sessions, Sound, ScanLabels
<1> USE <1>1, <1>2, <1>3
    DEF EachLabels, OldLabels, ScanLabels, BeatLabels, Display, Merges, Told, ToPut, ToRemove
<1>5. CASE (\E q \in Users : Accept(t, q)) \/ AcLive(t) \/ AcRecv(t)
  <2>1. UNCHANGED <<view_list, shown, bConnected>>
    BY <1>5 DEF Accept, AcLive, AcRecv, slots
  <2>2. pc[t] \in {"accept", "ac_live", "ac_recv"} /\ pc'[t] \in {"ac_clear", "ac_recv", "ac_self"}
    BY <1>5, AcceptValues DEF Hung
  <2>3. /\ Listed(p, o)' <=> Listed(p, o)
        /\ Shows(p, o)' <=> Shows(p, o)
    BY <2>1 DEF Listed, Shows
  <2> QED
    BY <2>1, <2>2, <2>3
<1>6. CASE AcClear(t) \/ AcOpen(t)
  <2>1. /\ pc[t] \in {"ac_clear", "ac_open"} /\ pc'[t] \in {"ac_open", "ac_connect"} /\ ~bConnected[c]
        /\ UNCHANGED bConnected
    BY <1>6, AcceptValues DEF Sessions, AcClear, AcOpen, slots
  <2>2. p # c => /\ Listed(p, o)' <=> Listed(p, o)
                 /\ Shows(p, o)' <=> Shows(p, o)
    BY <1>6 DEF AcClear, AcOpen, SharedType, Cl, Listed, Shows
  <2>3. g.cl = c
    BY <1>6, AcceptValues
  <2> QED
    BY <2>1, <2>2, <2>3
<1>7. CASE AcConnect(t)
  <2>1. /\ pc[t] = "ac_connect" /\ pc'[t] = "ac_live" /\ g.cl = c /\ UNCHANGED <<view_list, shown>>
        /\ view_list[c] = {} /\ shown[c] = {} /\ (p # c => (bConnected'[p] <=> bConnected[p]))
    <3>1. pc[t] = "ac_connect" /\ pc'[t] = "ac_live" /\ g.cl = c
      BY <1>7, AcceptValues
    <3>2. view_list[c] = {} /\ shown[c] = {}
      BY <3>1 DEF Sessions
    <3>3. UNCHANGED <<view_list, shown>> /\ bConnected' = [bConnected EXCEPT ![c] = TRUE]
      BY <1>7 DEF AcConnect, Cl
    <3>4. p # c => (bConnected'[p] <=> bConnected[p])
      BY <3>3, UsersAreObjects DEF SharedType
    <3> QED
      BY <3>1, <3>2, <3>3, <3>4
  <2>2. /\ Listed(p, o)' <=> Listed(p, o)
        /\ Shows(p, o)' <=> Shows(p, o)
        /\ p = c => ~Listed(p, o) /\ ~Shows(p, o)
    BY <2>1 DEF Listed, Shows
  <2> QED
    BY <2>1, <2>2
<1>8. CASE AcSelf(t)
  <2>1. /\ pc[t] = "ac_self" /\ pc'[t] = "ac_scan" /\ g = f /\ f.seen = {}
        /\ UNCHANGED <<view_list, bConnected>>
    BY <1>8, AcceptValues DEF Copies, JoinLabels, AcSelf, slots
  <2>2. /\ Listed(p, o)' <=> Listed(p, o)
        /\ p # c \/ o # c => (Shows(p, o)' <=> Shows(p, o))
    BY <1>8, <2>1 DEF AcSelf, SendPutPlayerPacket, Cl, SharedType, Listed, Shows
  <2> QED
    BY <2>1, <2>2
<1>9. CASE AcScan(t)
  <2>1. /\ pc[t] = "ac_scan" /\ g.cl = c /\ g.seen = f.seen
        /\ Phase(t)' \in {"ac_see", "ac_scan", "ac_merge"}
        /\ pc'[t] \in {"ac_see", "hb_load", "ac_scan", "ac_merge"}
    BY <1>9, AcceptValues
  <2>2. UNCHANGED <<view_list, bConnected, shown>>
    BY <1>9 DEF AcScan, slots
  <2>3. /\ Listed(p, o)' <=> Listed(p, o)
        /\ Shows(p, o)' <=> Shows(p, o)
    BY <2>2 DEF Listed, Shows
  <2> QED
    BY <2>1, <2>2, <2>3
<1>10. CASE AcSee(t)
  <2>1. /\ pc[t] = "ac_see" /\ pc'[t] = "ac_peer" /\ g.cl = c /\ g.seen = f.seen \cup {f.idx}
        /\ UNCHANGED <<view_list, bConnected>>
    BY <1>10, AcceptValues DEF AcSee, slots
  <2>2. /\ Listed(p, o)' <=> Listed(p, o)
        /\ Shows(p, o)' <=> Shows(p, o) \/ (open[p] /\ p = c /\ o = f.idx)
    BY <1>10, <2>1 DEF AcSee, SendPutPlayerPacket, Cl, SharedType, Listed, Shows
  <2> QED
    BY <1>4, <2>1, <2>2
<1>11. CASE AcPeer(t)
  <2>1. pc[t] = "ac_peer" /\ g.cl = c /\ g.seen = f.seen /\ UNCHANGED <<bConnected, shown>>
    BY <1>11, AcceptValues DEF AcPeer, slots
  <2>2. CASE pc'[t] = "ac_peer_put" /\ g = f
    <3>1. pc'[t] # "ac_scan"
      BY <2>2
    <3>2. See(f.idx, c)
      BY <1>11, <3>1 DEF AcPeer, Cl, Goto, Functional
    <3>3. /\ Listed(p, o)' <=> Listed(p, o) \/ (p = f.idx /\ o = c)
          /\ Shows(p, o)' <=> Shows(p, o)
      BY <2>1, <3>2 DEF See, SharedType, Listed, Shows
    <3> QED
      BY <2>1, <2>2, <3>3
  <2>3. CASE pc'[t] = "ac_scan"
    <3>1. UNCHANGED view_list
      BY <1>11, <2>3 DEF AcPeer, Goto, Functional
    <3>2. /\ Listed(p, o)' <=> Listed(p, o)
          /\ Shows(p, o)' <=> Shows(p, o)
      BY <2>1, <3>1 DEF Listed, Shows
    <3> QED
      BY <2>1, <2>3, <3>2
  <2> QED
    BY <1>11, <2>2, <2>3, AcceptValues
<1>12. CASE AcPeerPut(t)
  <2>1. /\ pc[t] = "ac_peer_put" /\ pc'[t] = "ac_scan" /\ g.cl = c /\ g.seen = f.seen
        /\ UNCHANGED <<view_list, bConnected>>
    BY <1>12, AcceptValues DEF AcPeerPut, slots
  <2>2. /\ Listed(p, o)' <=> Listed(p, o)
        /\ Shows(p, o)' <=> Shows(p, o) \/ (open[p] /\ p = f.idx /\ o = c)
    BY <1>12, <2>1 DEF AcPeerPut, SendPutPlayerPacket, Cl, SharedType, Listed, Shows
  <2> QED
    BY <1>4, <2>1, <2>2
<1>13. CASE AcMerge(t)
  <2>1. pc[t] = "ac_merge" /\ pc'[t] = "accept" /\ UNCHANGED <<shown, bConnected>>
    BY <1>13, AcceptValues DEF AcMerge, slots
  <2>2. /\ Listed(p, o)' <=> Listed(p, o) \/ (p = c /\ o \in f.seen)
        /\ Shows(p, o)' <=> Shows(p, o)
    BY <1>13, <2>1 DEF AcMerge, Cl, SharedType, Listed, Shows
  <2> QED
    BY <2>1, <2>2
<1> QED
  BY <1>5, <1>6, <1>7, <1>8, <1>9, <1>10, <1>11, <1>12, <1>13 DEF AcceptStep

(* A beat sends what it does to a list, also to the client that is being   *)
(* served by the thread it is nested in.                                   *)
LEMMA DisplayOfBeat ==
  ASSUME TypeInv, NpcsOnly, NEW t \in Threads, HeartBeatStep(t), Copies(t), CallOf(t), Sessions(t),
         NEW p \in Users, NEW o \in Objects, Display(t, p, o)
  PROVE  Display(t, p, o)'
<1> DEFINE f == frame[t]
           b == beat[t]
           d == beat'[t]
<1>1. PICK c : c = frame[t].cl
  OBVIOUS
<1>2. /\ SharedType /\ Functional /\ c \in Users /\ c \in Nat /\ b \in BeatType /\ b.pi \in Nat
      /\ b.npc \in Objects
  BY <1>1, FrameFields, SlotsAssumption DEF TypeInv, LocalInv, BeatType, Users
<1>3. /\ Phase(t)' = Phase(t) /\ frame' = frame /\ UNCHANGED bConnected /\ pc[t] \in BeatLabels
      /\ Phase(t) \in {"gqcs", "pp_unsee", "ac_see"}
  BY <1>2, BeatStep DEF Phase, BeatType
<1>4. bConnected[p] => open[p]
  BY <1>3 DEF Sessions, Sound
<1>5. /\ Phase(t) = "pp_unsee" => b.npc = f.id /\ f.id \notin f.seen /\ f.id \notin f.todo
      /\ Phase(t) = "ac_see" => b.npc \notin f.seen
  <2>1. CASE Phase(t) = "pp_unsee"
    BY <1>3, <2>1 DEF CallOf, Copies, OldLabels
  <2>2. CASE Phase(t) = "ac_see"
    <3>1. b.npc = f.idx /\ \A q \in f.seen : q < f.idx
      BY <1>3, <2>2 DEF CallOf, Copies
    <3>2. f.idx \in Nat
      BY <1>2, FrameFields DEF TypeInv, LocalInv
    <3> QED
      BY <2>2, <3>1, <3>2
  <2> QED
    BY <2>1, <2>2
<1> USE <1>1, <1>2, <1>3
    DEF EachLabels, OldLabels, ScanLabels, BeatLabels, Display, Merges, Told, ToPut, ToRemove
<1>6. NextUser(t) => d.pi = b.pi + 1 /\ d.npc = b.npc
  <2> SUFFICES ASSUME NextUser(t)  PROVE d.pi = b.pi + 1 /\ d.npc = b.npc
    OBVIOUS
  <2>1. d = [b EXCEPT !.pi = b.pi + 1]
    BY DEF NextUser, Functional
  <2> QED
    BY <2>1 DEF BeatType
<1>7. CASE HbLoad(t) \/ HbStore(t) \/ HbClamp(t)
  <2>1. /\ UNCHANGED <<view_list, shown>> /\ pc[t] \in {"hb_load", "hb_store", "hb_clamp"}
        /\ pc'[t] \in {"hb_store", "hb_clamp", "hb_view"} /\ d.npc = b.npc
    BY <1>7, BeatStep DEF HbLoad, HbStore, HbClamp, Goto, Functional
  <2>2. b.pi = 0
    BY <2>1 DEF CallOf
  <2>3. /\ Listed(p, o)' <=> Listed(p, o)
        /\ Shows(p, o)' <=> Shows(p, o)
    BY <2>1 DEF Listed, Shows
  <2> QED
    BY <2>1, <2>2, <2>3
<1>8. CASE HbView(t)
  <2>1. /\ UNCHANGED <<view_list, shown>> /\ pc[t] = "hb_view"
        /\ \/ pc'[t] = "hb_alive"
           \/ pc'[t] = "hb_view" /\ NextUser(t)
           \/ pc'[t] \in {"hb_near", "hb_far"} /\ d = b
    BY <1>8 DEF HbView, Goto, Functional
  <2>2. /\ Listed(p, o)' <=> Listed(p, o)
        /\ Shows(p, o)' <=> Shows(p, o)
    BY <2>1 DEF Listed, Shows
  <2> QED
    BY <1>6, <2>1, <2>2
<1>9. CASE HbNear(t)
  <2>1. pc[t] = "hb_near" /\ UNCHANGED shown
    BY <1>9 DEF HbNear
  <2>2. CASE Listed(b.pi, b.npc)
    <3>1. UNCHANGED view_list /\ NextUser(t) /\ pc'[t] = "hb_view"
      BY <1>9, <2>2 DEF HbNear, HbNpc, Listed, Goto, Functional
    <3>2. /\ Listed(p, o)' <=> Listed(p, o)
          /\ Shows(p, o)' <=> Shows(p, o)
      BY <2>1, <3>1 DEF Listed, Shows
    <3> QED
      BY <1>6, <2>1, <3>1, <3>2
  <2>3. CASE ~Listed(b.pi, b.npc)
    <3>1. See(b.pi, b.npc) /\ d = b /\ pc'[t] = "hb_put"
      BY <1>9, <2>3 DEF HbNear, HbNpc, Listed, Goto, Functional
    <3>2. /\ Listed(p, o)' <=> Listed(p, o) \/ (p = b.pi /\ o = b.npc)
          /\ Shows(p, o)' <=> Shows(p, o)
      BY <2>1, <3>1 DEF See, SharedType, Listed, Shows
    <3> QED
      BY <1>5, <2>1, <2>3, <3>1, <3>2
  <2> QED
    BY <2>2, <2>3
<1>10. CASE HbFar(t)
  <2>1. pc[t] = "hb_far" /\ UNCHANGED shown
    BY <1>10 DEF HbFar
  <2>2. CASE Listed(b.pi, b.npc)
    <3>1. Unsee(b.pi, b.npc) /\ d = b /\ pc'[t] = "hb_remove"
      BY <1>10, <2>2 DEF HbFar, HbNpc, Listed, Goto, Functional
    <3>2. /\ Listed(p, o)' <=> Listed(p, o) /\ ~(p = b.pi /\ o = b.npc)
          /\ Shows(p, o)' <=> Shows(p, o)
      BY <2>1, <3>1 DEF Unsee, SharedType, Listed, Shows
    <3> QED
      BY <1>5, <2>1, <3>1, <3>2
  <2>3. CASE ~Listed(b.pi, b.npc)
    <3>1. UNCHANGED view_list /\ NextUser(t) /\ pc'[t] = "hb_view"
      BY <1>10, <2>3 DEF HbFar, HbNpc, Listed, Goto, Functional
    <3>2. /\ Listed(p, o)' <=> Listed(p, o)
          /\ Shows(p, o)' <=> Shows(p, o)
      BY <2>1, <3>1 DEF Listed, Shows
    <3> QED
      BY <1>6, <2>1, <3>1, <3>2
  <2> QED
    BY <2>2, <2>3
<1>11. CASE HbPut(t)
  <2>1. pc[t] = "hb_put" /\ pc'[t] = "hb_view" /\ NextUser(t) /\ UNCHANGED view_list
    BY <1>11 DEF HbPut, Goto, Functional
  <2>2. /\ Listed(p, o)' <=> Listed(p, o)
        /\ Shows(p, o)' <=> Shows(p, o) \/ (open[p] /\ p = b.pi /\ o = b.npc)
    BY <1>11, <2>1 DEF HbPut, SendPutPlayerPacket, SharedType, Listed, Shows, HbNpc
  <2> QED
    BY <1>4, <1>5, <1>6, <2>1, <2>2
<1>12. CASE HbRemove(t)
  <2>1. pc[t] = "hb_remove" /\ pc'[t] = "hb_view" /\ NextUser(t) /\ UNCHANGED view_list
    BY <1>12 DEF HbRemove, Goto, Functional
  <2>2. /\ Listed(p, o)' <=> Listed(p, o)
        /\ Shows(p, o)' <=> Shows(p, o) /\ ~(open[p] /\ p = b.pi /\ o = b.npc)
    BY <1>12, <2>1 DEF HbRemove, SendRemovePlayerPacket, SharedType, Listed, Shows, HbNpc
  <2> QED
    BY <1>4, <1>5, <1>6, <2>1, <2>2
<1>13. CASE HbAlive(t) \/ HbRevive(t) \/ HbPush(t)
  <2>1. /\ UNCHANGED <<view_list, shown>> /\ pc[t] \in {"hb_alive", "hb_revive", "hb_push"}
        /\ pc'[t] \in {"hb_alive", "hb_revive", "hb_push", "gqcs", "pp_unsee", "ac_see"}
    BY <1>13 DEF HbAlive, HbRevive, HbPush, HbReturn, Goto, Functional, BeatType
  <2>2. /\ Listed(p, o)' <=> Listed(p, o)
        /\ Shows(p, o)' <=> Shows(p, o)
    BY <2>1 DEF Listed, Shows
  <2> QED
    BY <2>1, <2>2
<1> QED
  BY <1>7, <1>8, <1>9, <1>10, <1>11, <1>12, <1>13 DEF HeartBeatStep

-----------------------------------------------------------------------------
(* From handler to handler.  A thread that runs, runs alone; what holds    *)
(* between two handlers does not depend on the thread that is asked.       *)

Solid(t) == Sessions(t) /\ Boards(t) /\ Displays(t)

Rested ==
  /\ \A q \in Users : Sound(q)
  /\ AllAgree
  /\ \A p \in Users, o \in Objects : bConnected[p] /\ o # p => (Shows(p, o) <=> Listed(p, o))

SoloInv == \A t \in Threads : Running(t) => Alone(t)

SerialInv ==
  /\ SoloInv
  /\ Hung \/ \A t \in Threads : Alone(t) => Solid(t)

RestIsCommon == \A t \in Threads : ~Running(t) => (Solid(t) <=> Rested)

LEMMA RestedIsCommon == TypeInv => RestIsCommon
<1> SUFFICES ASSUME TypeInv, NEW t \in Threads, ~Running(t)
    PROVE  Solid(t) <=> Rested
  BY DEF RestIsCommon
<1>1. Phase(t) \in {"gqcs", "accept", "hung"} /\ Phase(t) = pc[t]
  BY PhaseOfOwn DEF Running, BeatLabels
<1>2. frame[t].cl \in Users
  BY FrameFields DEF TypeInv, LocalInv
<1>3. Sessions(t) <=> \A q \in Users : Sound(q)
  BY <1>1 DEF Sessions, Serves, PacketLabels, ScanLabels
<1>4. Boards(t) <=> AllAgree
  BY <1>1, <1>2, SettledBoards DEF Unsettled, EachLabels, OldLabels, ScanLabels
<1>5. ASSUME NEW p \in Users, NEW o \in Objects
      PROVE  Display(t, p, o) <=> (bConnected[p] /\ o # p => (Shows(p, o) <=> Listed(p, o)))
  <2>1. Told(t, p, o) <=> Listed(p, o)
    BY <1>1 DEF Told, EachLabels, OldLabels, ScanLabels
  <2>2. Merges(t, o)
    BY <1>1 DEF Merges, EachLabels, OldLabels
  <2>3. ~ToPut(t, p, o) /\ ~ToRemove(t, p, o) /\ Phase(t) # "pp_put"
    BY <1>1 DEF ToPut, ToRemove
  <2> QED
    BY <2>1, <2>2, <2>3 DEF Display
<1>6. Displays(t)
      <=> \A p \in Users, o \in Objects : bConnected[p] /\ o # p => (Shows(p, o) <=> Listed(p, o))
  BY <1>5 DEF Displays
<1> QED
  BY <1>3, <1>4, <1>6 DEF Solid, Rested

(* A step of the one thread that runs.                                     *)
LEMMA SolidStep ==
  ASSUME TypeInv, TypeInv', NpcsOnly, CopiesInv, NEW t \in Threads, ThreadStep(t), Solid(t), ~Hung'
  PROVE  Solid(t)'
<1>1. Copies(t) /\ CallOf(t) /\ Sessions(t) /\ Boards(t) /\ Displays(t)
  BY DEF CopiesInv, Solid
<1>2. CASE t \in Workers /\ WorkerStep(t)
  <2>1. Displays(t)'
    BY <1>1, <1>2, DisplayOfWorker DEF Displays
  <2> QED
    BY <1>1, <1>2, <2>1, SessionsOfWorker, BoardsOfWorker DEF Solid
<1>3. CASE t = Acceptor /\ AcceptStep(t)
  <2>1. Displays(t)'
    BY <1>1, <1>3, DisplayOfAccept DEF Displays
  <2> QED
    BY <1>1, <1>3, <2>1, SessionsOfAccept, BoardsOfAccept DEF Solid
<1>4. CASE HeartBeatStep(t)
  <2>1. Displays(t)'
    BY <1>1, <1>4, DisplayOfBeat DEF Displays
  <2> QED
    BY <1>1, <1>4, <2>1, SessionsOfBeat, BoardsOfBeat DEF Solid
<1> QED
  BY <1>2, <1>3, <1>4 DEF ThreadStep

(* A step that starts no handler and ends none runs beside nothing: the    *)
(* aborted receive that hangs a worker, the timer, the remote ends.        *)
LEMMA BesideStep ==
  ASSUME TypeInv,
         \/ EnvironmentStep \/ UNCHANGED vars
         \/ \E t \in Workers, p \in Users : AbortedCompletion(t, p),
         NEW u \in Threads, Solid(u), pc'[u] = pc[u]
  PROVE  Solid(u)'
<1>1. /\ UNCHANGED <<board, slots, view_list, open, shown, frame, beat>>
      /\ UNCHANGED recv \/ \E p \in Users : recv' = [recv EXCEPT ![p] = 0]
  <2>1. CASE EnvironmentStep
    BY <2>1 DEF EnvironmentStep, TimerFires, PeerFin, PeerReset, net
  <2>2. CASE UNCHANGED vars
    BY <2>2 DEF vars, board, slots
  <2>3. CASE \E t \in Workers, p \in Users : AbortedCompletion(t, p)
    BY <2>3 DEF AbortedCompletion
  <2> QED
    BY <2>1, <2>2, <2>3
<1>2. Phase(u)' = Phase(u)
  BY <1>1 DEF Phase
<1> USE <1>1, <1>2 DEF board, slots
<1>3. Sessions(u)'
  <2>1. frame[u].cl \in Users
    BY FrameFields DEF TypeInv, LocalInv
  <2>2. \A q \in Users : /\ recv'[q] > 0 => recv[q] > 0
                         /\ recv[q] = 0 => recv'[q] = 0
    BY <1>1 DEF TypeInv, SharedType
  <2>3. \A q \in Users : Sound(q) => Sound(q)'
    BY <2>2 DEF Sound
  <2> QED
    BY <2>1, <2>2, <2>3 DEF Solid, Sessions
<1>4. ASSUME NEW p, NEW q  PROVE /\ Listed(p, q)' <=> Listed(p, q)
                                 /\ Shows(p, q)' <=> Shows(p, q)
                                 /\ IsNear(p, q)' <=> IsNear(p, q)
  BY DEF Listed, Shows, IsNear
<1>5. ASSUME NEW p, NEW q  PROVE /\ Beheld(p, q)' <=> Beheld(p, q)
                                 /\ Agrees(p, q)' <=> Agrees(p, q)
  BY <1>4 DEF Beheld, Agrees
<1>6. Boards(u)'
  <2>1. ASSUME NEW q, Between(u, q)  PROVE Between(u, q)'
    BY <1>4, <1>5, <2>1 DEF Between, PacketPair, SessionPair
  <2> QED
    BY <1>5, <2>1 DEF Solid, Boards
<1>7. ASSUME NEW p, NEW o, Display(u, p, o)  PROVE Display(u, p, o)'
  <2>1. /\ ToPut(u, p, o)' <=> ToPut(u, p, o)
        /\ ToRemove(u, p, o)' <=> ToRemove(u, p, o)
        /\ Told(u, p, o)' <=> Told(u, p, o)
        /\ Merges(u, o)' <=> Merges(u, o)
    BY <1>4 DEF ToPut, ToRemove, Told, Merges
  <2> QED
    BY <1>4, <1>7, <2>1 DEF Display
<1> QED
  BY <1>3, <1>6, <1>7 DEF Solid, Displays

LEMMA SerialInit == Init => SerialInv
<1> SUFFICES ASSUME Init  PROVE SerialInv
  OBVIOUS
<1>1. TypeInv
  BY TypeInit
<1>2. \A t \in Threads : ~Running(t)
  BY DEF Init, Running
<1>3. \A p \in Users : /\ ~bConnected[p] /\ recv[p] = 0
                       /\ p \notin NPCs => ~bIsAlive[p]
  BY UsersAreObjects DEF Init
<1>4. Rested
  BY <1>3 DEF Rested, Sound, AllAgree, Agrees, Players
<1> QED
  BY <1>1, <1>2, <1>4, RestedIsCommon DEF SerialInv, SoloInv, RestIsCommon

(* One thread's step in the serial schedule.                               *)
LEMMA TurnOfOne ==
  ASSUME TypeInv, NpcsOnly, SoloInv, NEW t \in Threads, ThreadStep(t),
         Starts(t) => \A u \in Threads : ~Running(u)
  PROVE  /\ \A u \in Threads : u # t => /\ pc'[u] = pc[u] /\ (Running(u)' <=> Running(u))
                                        /\ frame'[u].cl = frame[u].cl /\ Phase(u)' = Phase(u)
         /\ ~Hung' => ~Hung
         /\ Running(t) \/ Running(t)' => Alone(t) /\ Alone(t)'
         /\ ~Running(t) /\ ~Running(t)' => t \in Workers /\ \E p \in Users : AbortedCompletion(t, p)
<1>1. OnlySelf(t)
  BY HeartBeatLocal, WorkerLocal, AcceptLocal DEF ThreadStep
<1>2. \A u \in Threads : u # t => /\ pc'[u] = pc[u] /\ (Running(u)' <=> Running(u))
                                  /\ frame'[u].cl = frame[u].cl /\ Phase(u)' = Phase(u)
  BY <1>1 DEF OnlySelf, Running, TypeInv, Functional, Phase
<1>3. ~Hung' => ~Hung
  <2>1. CASE t = Acceptor
    <3>1. ~HeartBeatStep(t) \/ pc[t] # "hung"
      BY DEF HeartBeatStep, HbLoad, HbStore, HbClamp, HbView, HbNear, HbFar, HbPut, HbRemove,
         HbAlive, HbRevive, HbPush
    <3>2. ~AcceptStep(t) \/ pc[t] # "hung"
      BY DEF AcceptStep, Accept, AcClear, AcOpen, AcConnect, AcLive, AcRecv, AcSelf, AcScan, AcSee,
         AcPeer, AcPeerPut, AcMerge
    <3> QED
      BY <2>1, <3>1, <3>2, ThreadsAssumption DEF ThreadStep, Hung
  <2>2. CASE t # Acceptor
    BY <1>2, <2>2, ThreadsAssumption DEF Hung, Threads
  <2> QED
    BY <2>1, <2>2
<1>4. ASSUME Running(t) \/ Running(t)'  PROVE Alone(t) /\ Alone(t)'
  <2>1. Alone(t)
    BY <1>4 DEF SoloInv, Alone, Starts
  <2> QED
    BY <1>2, <2>1 DEF Alone
<1>5. ASSUME ~Running(t), ~Running(t)'
      PROVE  t \in Workers /\ \E p \in Users : AbortedCompletion(t, p)
  <2>1. pc[t] \in {"gqcs", "accept", "hung"} /\ pc'[t] \in {"gqcs", "accept", "hung"}
    BY <1>5 DEF Running
  <2>2. ~HeartBeatStep(t)
    BY <2>1 DEF HeartBeatStep, HbLoad, HbStore, HbClamp, HbView, HbNear, HbFar, HbPut, HbRemove,
       HbAlive, HbRevive, HbPush
  <2>3. ~AcceptStep(t) \/ t # Acceptor
    <3>1. AcceptStep(t) => \E p \in Users : Accept(t, p)
      BY <2>1 DEF AcceptStep, AcClear, AcOpen, AcConnect, AcLive, AcRecv, AcSelf, AcScan, AcSee,
         AcPeer, AcPeerPut, AcMerge
    <3> QED
      BY <2>1, <3>1, AcceptValues
  <2>4. t \in Workers /\ WorkerStep(t)
    BY <2>2, <2>3 DEF ThreadStep
  <2> QED
    BY <2>1, <2>4, WorkerValues, PacketValues DEF WorkerStep, PacketLabels
<1> QED
  BY <1>2, <1>3, <1>4, <1>5

LEMMA SerialStep ==
  TypeInv /\ TypeInv' /\ NpcsOnly /\ CopiesInv /\ SerialInv /\ [SerialNext]_vars /\ RestIsCommon /\ RestIsCommon'
  => SerialInv'
<1> SUFFICES ASSUME TypeInv, TypeInv', NpcsOnly, CopiesInv, SerialInv, [SerialNext]_vars,
                    RestIsCommon, RestIsCommon'
    PROVE  SerialInv'
  OBVIOUS
<1>1. CASE EnvironmentStep \/ UNCHANGED vars
  <2>1. pc' = pc
    BY <1>1 DEF EnvironmentStep, TimerFires, PeerFin, PeerReset, vars
  <2>2. \A t \in Threads : Running(t)' <=> Running(t)
    BY <2>1 DEF Running
  <2>3. \A t \in Threads : Alone(t)' <=> Alone(t)
    BY <2>2 DEF Alone
  <2>4. \A t \in Threads : Solid(t) => Solid(t)'
    BY <1>1, <2>1, BesideStep
  <2>5. Hung' <=> Hung
    BY <2>1 DEF Hung
  <2> QED
    BY <2>2, <2>3, <2>4, <2>5 DEF SerialInv, SoloInv
<1>2. ASSUME NEW t \in Threads, ThreadStep(t), Starts(t) => \A u \in Threads : ~Running(u)
      PROVE  SerialInv'
  <2>2. \A u \in Threads : u # t => pc'[u] = pc[u] /\ (Running(u)' <=> Running(u))
    BY <1>2, TurnOfOne DEF SerialInv
  <2>3. ~Hung' => ~Hung
    BY <1>2, TurnOfOne DEF SerialInv
  <2>4. CASE Running(t) \/ Running(t)'
    <3>1. Alone(t) /\ Alone(t)'
      BY <1>2, <2>4, TurnOfOne DEF SerialInv
    <3>2. SoloInv'
      BY <2>2, <3>1 DEF SoloInv, Alone
    <3>3. ASSUME ~Hung'  PROVE Solid(t)'
      <4>1. Solid(t)
        BY <2>3, <3>1, <3>3 DEF SerialInv
      <4> QED
        BY <1>2, <3>3, <4>1, SolidStep
    <3>4. ASSUME ~Hung', NEW u \in Threads, u # t, Alone(u)'  PROVE Solid(u)'
      <4>1. ~Running(t)' /\ ~Running(u)'
        BY <3>1, <3>4 DEF Alone
      <4> QED
        BY <3>3, <3>4, <4>1 DEF RestIsCommon
    <3> QED
      BY <3>2, <3>3, <3>4 DEF SerialInv
  <2>5. CASE ~Running(t) /\ ~Running(t)'
    <3>1. \A u \in Threads : Running(u)' <=> Running(u)
      BY <2>2, <2>5
    <3>2. SoloInv' /\ \A u \in Threads : Alone(u)' <=> Alone(u)
      BY <3>1 DEF SerialInv, SoloInv, Alone
    <3>3. t \in Workers /\ \E p \in Users : AbortedCompletion(t, p)
      BY <1>2, <2>5, TurnOfOne DEF SerialInv
    <3>4. ASSUME NEW u \in Threads, u # t, Solid(u)  PROVE Solid(u)'
      BY <2>2, <3>3, <3>4, BesideStep
    <3>5. ASSUME ~Hung', Solid(t)  PROVE Solid(t)'
      BY <1>2, <3>5, SolidStep
    <3> QED
      BY <2>3, <3>2, <3>4, <3>5 DEF SerialInv
  <2> QED
    BY <2>4, <2>5
<1> QED
  BY <1>1, <1>2 DEF SerialNext

LEMMA SerialIsSpec == SerialSpec => Spec
<1>1. SerialNext => Next
  BY DEF SerialNext, Next
<1> QED
  BY <1>1, PTL DEF SerialSpec, Spec

LEMMA SerialInvariant == SerialSpec => [](TypeInv /\ SerialInv)
<1>1. Spec => [](TypeInv /\ NpcsOnly)
  BY TypeInvariant, NpcsOnlyInit, NpcsOnlyNext, PTL DEF Spec
<1>2. Spec => []CopiesInv
  BY <1>1, CopiesInit, CopiesNext, PTL DEF Spec
<1> QED
  BY <1>1, <1>2, SerialIsSpec, SerialInit, SerialStep, RestedIsCommon, PTL DEF SerialSpec

LEMMA QuiescentIsRested == TypeInv /\ SerialInv /\ Quiescent => Rested
<1> SUFFICES ASSUME TypeInv, SerialInv, Quiescent  PROVE Rested
  OBVIOUS
<1>1. ~Hung /\ \A t \in Threads : ~Running(t)
  BY ThreadsAssumption DEF Quiescent, Hung, Idle, Running, Threads
<1>2. Solid(Acceptor)
  BY <1>1 DEF SerialInv, Alone, Threads
<1> QED
  BY <1>1, <1>2, RestedIsCommon DEF RestIsCommon, Threads

(* Handlers that do not overlap keep every player's view list exact: no    *)
(* player near another is missing and none that moved away or left stays.  *)
(* Resets, hung workers and NPC beats included; the slots of both kinds    *)
(* that MAX_USER > NPC_START would make are left out, see ViewsMatchBoard. *)
THEOREM ViewsAreExactSerially == SerialSpec => []ViewsMatchBoard
<1>1. TypeInv /\ SerialInv => ViewsMatchBoard
  <2> SUFFICES ASSUME TypeInv, SerialInv, Quiescent, NEW p \in Players, NEW q \in Players,
                      bConnected[p], p # q
      PROVE  q \in view_list[p] <=> bConnected[q] /\ IsNear(p, q)
    BY DEF ViewsMatchBoard
  <2>1. Agrees(p, q)
    BY QuiescentIsRested DEF Rested, AllAgree, Players
  <2> QED
    BY <2>1 DEF Agrees, Listed, Beheld
<1> QED
  BY <1>1, SerialInvariant, PTL

(* Handlers that do not overlap keep every client's display, the objects   *)
(* it was sent a Put for and no Remove since, equal to its view list.      *)
THEOREM DisplaysAreExactSerially == SerialSpec => []DisplayMatchesViews
<1>1. TypeInv /\ SerialInv => DisplayMatchesViews
  <2> SUFFICES ASSUME TypeInv, SerialInv, Quiescent, NEW p \in Users, bConnected[p]
      PROVE  shown[p] \ {p} = view_list[p] \ {p}
    BY DEF DisplayMatchesViews
  <2>1. \A o \in Objects : o # p => (o \in shown[p] <=> o \in view_list[p])
    BY QuiescentIsRested DEF Rested, Shows, Listed
  <2>2. shown[p] \subseteq Objects /\ view_list[p] \subseteq Objects
    BY DEF TypeInv, SharedType
  <2> QED
    BY <2>1, <2>2
<1> QED
  BY <1>1, SerialInvariant, PTL

-----------------------------------------------------------------------------
(* The serial server implements Visibility.  What a handler has done to    *)
(* the players since the last picture s that was kept.                     *)

PxNow == [p \in Players |-> x[p]]
PyNow == [p \in Players |-> y[p]]
OnNow == {p \in Players : bConnected[p]}

Same(s) == PxNow = s.px /\ PyNow = s.py /\ OnNow = s.online

Moved(c, s) ==
  /\ OnNow = s.online /\ (c \in Players => c \in OnNow)
  /\ \E m \in Moves : /\ PxNow = [s.px EXCEPT ![c] = MoveX(m, @)]
                      /\ PyNow = [s.py EXCEPT ![c] = MoveY(m, @)]

Came(c, s) ==
  PxNow = s.px /\ PyNow = s.py /\ c \notin s.online /\ OnNow = s.online \cup ({c} \cap Players)

Left(c, s) == PxNow = s.px /\ PyNow = s.py /\ OnNow = s.online \ {c}

Outcome(s) == Same(s) \/ \E c \in Users : Moved(c, s) \/ Came(c, s) \/ Left(c, s)

MovedLabels == {"pp_scan", "pp_copy"} \cup EachLabels \cup OldLabels
CameLabels  == {"ac_live", "ac_recv", "ac_self"} \cup ScanLabels
LeftLabels  == {"dc_close", "dc_free", "dc_dead", "dc_scan", "dc_remove"}

Track(t, s) ==
  LET c == frame[t].cl
      at == Phase(t)
  IN /\ at \in MovedLabels => Moved(c, s)
     /\ at \in CameLabels => Came(c, s)
     /\ at \in LeftLabels => Same(s) \/ Left(c, s)
     /\ at \notin MovedLabels \cup CameLabels \cup LeftLabels => Same(s)

PictureKept ==
  UNCHANGED <<PxNow, PyNow, OnNow>>

(* Only PpMove, DcFree and AcConnect change the picture.                   *)
LEMMA PictureSteps ==
  ASSUME TypeInv, NpcsOnly, NEW t \in Threads, ThreadStep(t)
  PROVE  \/ PictureKept
         \/ t \in Workers /\ (PpMove(t) \/ DcFree(t))
         \/ t = Acceptor /\ AcConnect(t)
<1>1. CASE HeartBeatStep(t)
  <2>1. bConnected' = bConnected /\ beat[t].npc \in NPCs
    BY <1>1, BeatStep DEF NpcsOnly
  <2>2. \A p \in Players : x'[p] = x[p] /\ y'[p] = y[p]
    BY <1>1, <2>1, BeatStep, UsersAreObjects DEF Players
  <2> QED
    BY <2>1, <2>2 DEF PictureKept, PxNow, PyNow, OnNow
<1>2. CASE t \in Workers /\ WorkerStep(t) /\ ~PpMove(t) /\ ~DcFree(t)
  <2>1. UNCHANGED <<board, bConnected>>
    BY <1>2 DEF WorkerStep, RecvData, RecvEof, LostCompletion, AbortedCompletion, DoAi, Parse,
       Rearm, DcClose, DcDead, DcScan, DcRemove, PacketStep, PpScan, PpCopy, PpEach,
       PpPut, PpPeer, PpPeerPut, PpOld, PpRemove, PpUnsee, PpPeerRemove, PpMerge, slots
  <2> QED
    BY <2>1 DEF PictureKept, PxNow, PyNow, OnNow, board
<1>3. CASE t = Acceptor /\ AcceptStep(t) /\ ~AcConnect(t)
  <2>1. UNCHANGED <<board, bConnected>>
    BY <1>3 DEF AcceptStep, Accept, AcClear, AcOpen, AcLive, AcRecv, AcSelf, AcScan, AcSee, AcPeer,
       AcPeerPut, AcMerge, slots
  <2> QED
    BY <2>1 DEF PictureKept, PxNow, PyNow, OnNow, board
<1> QED
  BY <1>1, <1>2, <1>3 DEF ThreadStep

LEMMA PictureOutcome ==
  ASSUME PictureKept, NEW s
  PROVE  /\ Same(s)' <=> Same(s)
         /\ \A c \in Users : /\ Moved(c, s)' <=> Moved(c, s)
                             /\ Came(c, s)' <=> Came(c, s)
                             /\ Left(c, s)' <=> Left(c, s)
  BY DEF PictureKept, Same, Moved, Came, Left

(* A step of the one thread that runs.                                     *)
LEMMA TrackStep ==
  ASSUME TypeInv, NpcsOnly, NEW t \in Threads, ThreadStep(t), Sessions(t), ~Hung', NEW s, Track(t, s)
  PROVE  Track(t, s)' \/ (pc'[t] \in {"gqcs", "parse", "accept"} /\ Outcome(s)')
<1> USE DEF MovedLabels, CameLabels, LeftLabels, EachLabels, OldLabels, ScanLabels, BeatLabels, Hung
<1>1. PICK c : c = frame[t].cl
  OBVIOUS
<1>2. c \in Users /\ c \in Objects /\ SharedType
  BY <1>1, FrameFields, UsersAreObjects DEF TypeInv, LocalInv
<1>3. CASE HeartBeatStep(t)
  <2>1. Phase(t)' = Phase(t) /\ frame' = frame
    BY <1>3, BeatStep
  <2>2. PictureKept
    <3>1. pc[t] \in BeatLabels
      BY <1>3, BeatStep
    <3> QED
      BY <3>1, PictureSteps DEF PpMove, DcFree, AcConnect
  <2> QED
    BY <1>1, <1>2, <2>1, <2>2, PictureOutcome DEF Track
<1>4. ASSUME OwnStep(t), ~PpMove(t), ~DcFree(t), ~AcConnect(t)
      PROVE  Track(t, s)' \/ (pc'[t] \in {"gqcs", "parse", "accept"} /\ Outcome(s)')
  <2>1. Phase(t) = pc[t] /\ (pc'[t] \notin BeatLabels => Phase(t)' = pc'[t])
    BY <1>4, OwnPhases
  <2> USE <1>1, <1>2, <2>1
  <2>2. /\ Same(s)' <=> Same(s)
        /\ \A d \in Users : /\ Moved(d, s)' <=> Moved(d, s)
                            /\ Came(d, s)' <=> Came(d, s)
                            /\ Left(d, s)' <=> Left(d, s)
    BY <1>4, PictureSteps, PictureOutcome
  <2>3. ASSUME pc[t] \in MovedLabels, Phase(t)' \in MovedLabels \cup {"parse"}, frame'[t].cl = c,
               Phase(t)' = "parse" => pc'[t] = "parse"
        PROVE  Track(t, s)' \/ (pc'[t] = "parse" /\ Outcome(s)')
    BY <2>2, <2>3 DEF Track, Outcome
  <2>4. ASSUME pc[t] \notin MovedLabels \cup CameLabels \cup LeftLabels,
               Phase(t)' \notin MovedLabels \cup CameLabels
        PROVE  Track(t, s)'
    BY <2>2, <2>4 DEF Track
  <2>5. ASSUME pc[t] \in LeftLabels,
               \/ pc'[t] \in LeftLabels /\ frame'[t].cl = c
               \/ pc'[t] = "gqcs"
        PROVE  Track(t, s)' \/ (pc'[t] = "gqcs" /\ Outcome(s)')
    BY <2>2, <2>5 DEF Track, Outcome
  <2>6. ASSUME pc[t] \in CameLabels,
               \/ Phase(t)' \in CameLabels /\ frame'[t].cl = c
               \/ pc'[t] = "accept"
        PROVE  Track(t, s)' \/ (pc'[t] = "accept" /\ Outcome(s)')
    BY <2>2, <2>6 DEF Track, Outcome
  <2>7. CASE t \in Workers /\ PacketStep(t)
    <3>1. pc[t] \in PacketLabels /\ frame'[t].cl = c
      BY <2>7, PacketValues
    <3>2. pc[t] \in MovedLabels /\ Phase(t)' \in MovedLabels \cup {"parse"}
          /\ (Phase(t)' = "parse" => pc'[t] = "parse")
      BY <1>4, <2>7, PacketValues DEF PacketStep
    <3> QED
      BY <2>3, <3>1, <3>2
  <2>8. CASE /\ t \in Workers
             /\ \/ \E p \in Users : \/ RecvData(t, p) \/ RecvEof(t, p)
                                    \/ LostCompletion(t, p) \/ AbortedCompletion(t, p)
                \/ \E n \in Objects : DoAi(t, n)
                \/ Parse(t) \/ Rearm(t)
    BY <2>4, <2>8, WorkerValues
  <2>9. CASE t \in Workers /\ (DcClose(t) \/ DcDead(t) \/ DcScan(t) \/ DcRemove(t))
    BY <2>5, <2>9, WorkerValues
  <2>10. CASE t = Acceptor /\ ((\E p \in Users : Accept(t, p)) \/ AcClear(t) \/ AcOpen(t))
    BY <2>4, <2>10, AcceptValues
  <2>11. CASE t = Acceptor /\ (\/ AcLive(t) \/ AcRecv(t) \/ AcSelf(t) \/ AcScan(t) \/ AcSee(t)
                               \/ AcPeer(t) \/ AcPeerPut(t) \/ AcMerge(t))
    BY <2>6, <2>11, AcceptValues
  <2> QED
    BY <1>4, <2>7, <2>8, <2>9, <2>10, <2>11 DEF OwnStep, WorkerStep, AcceptStep
<1>5. CASE t \in Workers /\ PpMove(t)
  <2>1. OwnStep(t) /\ PacketStep(t)
    BY <1>5 DEF OwnStep, WorkerStep, PacketStep
  <2>2. pc[t] = "pp_move" /\ Phase(t) = "pp_move" /\ Phase(t)' = "pp_scan" /\ frame'[t].cl = c
    BY <1>1, <1>5, <2>1, OwnPhases, PacketValues
  <2>3. Same(s) /\ bConnected[c] /\ bConnected' = bConnected
    BY <1>1, <1>5, <2>2 DEF Track, Sessions, Serves, PacketLabels, PpMove, slots
  <2>4. PICK m \in Moves : /\ x' = [x EXCEPT ![c] = MoveX(m, x[c])]
                           /\ y' = [y EXCEPT ![c] = MoveY(m, y[c])]
    BY <1>1, <1>5 DEF PpMove, Cl
  <2>5. Players \subseteq Objects
    BY UsersAreObjects DEF Players
  <2>6. /\ PxNow' = [PxNow EXCEPT ![c] = MoveX(m, PxNow[c])]
        /\ PyNow' = [PyNow EXCEPT ![c] = MoveY(m, PyNow[c])]
    BY <1>2, <2>4, <2>5 DEF PxNow, PyNow, SharedType
  <2>7. OnNow' = OnNow /\ (c \in Players => c \in OnNow)
    BY <2>3 DEF OnNow
  <2>8. Moved(c, s)'
    BY <2>3, <2>6, <2>7 DEF Moved, Same
  <2> QED
    BY <2>2, <2>8 DEF Track
<1>6. CASE t \in Workers /\ DcFree(t)
  <2>1. OwnStep(t)
    BY <1>6 DEF OwnStep, WorkerStep
  <2>2. Phase(t) = "dc_free" /\ Phase(t)' = "dc_dead" /\ frame'[t].cl = c
    BY <1>1, <1>6, <2>1, OwnPhases, WorkerValues
  <2>3. Same(s) \/ Left(c, s)
    BY <1>1, <2>2 DEF Track
  <2>4. bConnected' = [bConnected EXCEPT ![c] = FALSE] /\ UNCHANGED board
    BY <1>1, <1>6 DEF DcFree, Cl
  <2>5. PxNow' = PxNow /\ PyNow' = PyNow
    BY <2>4 DEF PxNow, PyNow, board
  <2>6. OnNow' = OnNow \ {c}
    BY <1>2, <2>4, UsersAreObjects DEF OnNow, Players, SharedType
  <2>7. Left(c, s)'
    BY <2>3, <2>5, <2>6 DEF Left, Same
  <2> QED
    BY <2>2, <2>7 DEF Track
<1>7. CASE t = Acceptor /\ AcConnect(t)
  <2>1. OwnStep(t)
    BY <1>7 DEF OwnStep, AcceptStep
  <2>2. Phase(t) = "ac_connect" /\ Phase(t)' = "ac_live" /\ frame'[t].cl = c
    BY <1>1, <1>7, <2>1, OwnPhases, AcceptValues
  <2>3. Same(s) /\ ~bConnected[c]
    BY <1>1, <2>2 DEF Track, Sessions
  <2>4. bConnected' = [bConnected EXCEPT ![c] = TRUE] /\ UNCHANGED board
    BY <1>1, <1>7 DEF AcConnect, Cl
  <2>5. PxNow' = PxNow /\ PyNow' = PyNow
    BY <2>4 DEF PxNow, PyNow, board
  <2>6. c \notin OnNow /\ OnNow' = OnNow \cup ({c} \cap Players)
    BY <1>2, <2>3, <2>4, UsersAreObjects DEF OnNow, Players, SharedType
  <2>7. Came(c, s)'
    BY <2>3, <2>5, <2>6 DEF Came, Same
  <2> QED
    BY <2>2, <2>7 DEF Track
<1> QED
  <2>1. CASE t \in Workers
    <3>1. t # Acceptor /\ pc[t] \in CodeOf(t)
      BY <2>1, ThreadsAssumption DEF TypeInv, LocalInv
    <3>2. ~AcConnect(t)
      BY <3>1 DEF CodeOf, WorkerLabels, CloseLabels, PacketLabels, AcConnect
    <3> QED
      BY <1>3, <1>4, <1>5, <1>6, <2>1, <3>1, <3>2 DEF ThreadStep, OwnStep
  <2>2. CASE t = Acceptor
    <3>1. t \notin Workers /\ ~PpMove(t) /\ ~DcFree(t)
      BY <2>2, ThreadsAssumption DEF TypeInv, LocalInv, CodeOf, AcceptLabels, PpMove, DcFree
    <3> QED
      BY <1>3, <1>4, <1>7, <2>2, <3>1 DEF ThreadStep, OwnStep
  <2> QED
    BY <2>1, <2>2 DEF Threads

(* What is kept from picture to picture.  A lost accept thread leaves the  *)
(* last one as it is.                                                      *)
Exact(s) ==
  /\ s.online \subseteq Players
  /\ s.px = [p \in Players |-> s.px[p]] /\ s.py = [p \in Players |-> s.py[p]]
  /\ s.sees = [p \in Players |->
                 IF p \notin s.online THEN {}
                 ELSE {q \in s.online \ {p} : Within(s.px[p] - s.px[q], s.py[p] - s.py[q])}]

SnapInv ==
  /\ Exact(snap)
  /\ Hung \/ \A t \in Threads : Alone(t) => Track(t, snap)

ExactAtRest == Settled =>
  /\ ~Hung /\ Exact(Snapshot)
  /\ \E t \in Threads : Alone(t)
  /\ \A t \in Threads : Phase(t) \in {"gqcs", "accept", "hung", "parse"}

(* Where all have settled, somebody is alone and between packets.          *)
LEMMA SettledIsAlone ==
  ASSUME TypeInv, SoloInv, Settled
  PROVE  /\ ~Hung
         /\ \A t \in Threads : Phase(t) \in {"gqcs", "accept", "hung", "parse"}
         /\ \E t \in Threads : Alone(t)
<1>1. \A t \in Threads : pc[t] \in {"gqcs", "accept", "hung", "parse"}
  BY DEF Settled, Idle
<1>2. ~Hung
  BY ThreadsAssumption DEF Settled, Idle, Hung, Threads
<1>3. \E t \in Threads : Alone(t)
  BY DEF SoloInv, Alone, Threads
<1> QED
  BY <1>1, <1>2, <1>3, PhaseOfOwn DEF BeatLabels

LEMMA SettledIsExact == TypeInv /\ SerialInv => ExactAtRest
<1> SUFFICES ASSUME TypeInv, SerialInv, Settled  PROVE ~Hung /\ Exact(Snapshot)
  BY SettledIsAlone DEF ExactAtRest, SerialInv
<1>1. PICK t \in Threads : Alone(t) /\ Phase(t) \in {"gqcs", "accept", "hung", "parse"}
  BY SettledIsAlone DEF SerialInv
<1>2. ~Hung /\ Solid(t) /\ frame[t].cl \in Users
  BY <1>1, SettledIsAlone, FrameFields DEF SerialInv, TypeInv, LocalInv
<1>3. AllAgree
  BY <1>1, <1>2, SettledBoards DEF Solid, Unsettled, EachLabels, OldLabels, ScanLabels
<1>4. ASSUME NEW p \in Players, bConnected[p], NEW q \in Players, q # p
      PROVE  q \in view_list[p] <=> bConnected[q] /\ Within(x[p] - x[q], y[p] - y[q])
  BY <1>3, <1>4 DEF AllAgree, Agrees, Beheld, Listed, IsNear
<1>5. ASSUME NEW p \in Players
      PROVE  Snapshot.sees[p] = IF p \notin Snapshot.online THEN {}
               ELSE {q \in Snapshot.online \ {p} :
                       Within(Snapshot.px[p] - Snapshot.px[q], Snapshot.py[p] - Snapshot.py[q])}
  <2>1. /\ Snapshot.sees[p] = IF bConnected[p] THEN (view_list[p] \cap Players) \ {p} ELSE {}
        /\ \A q \in Players : /\ Snapshot.px[q] = x[q] /\ Snapshot.py[q] = y[q]
                              /\ q \in Snapshot.online <=> bConnected[q]
        /\ Snapshot.online \subseteq Players
    BY DEF Snapshot
  <2> QED
    BY <1>4, <2>1
<1>6. /\ Snapshot.online \subseteq Players
      /\ Snapshot.px = [p \in Players |-> Snapshot.px[p]]
      /\ Snapshot.py = [p \in Players |-> Snapshot.py[p]]
      /\ Snapshot.sees = [p \in Players |-> Snapshot.sees[p]]
  BY DEF Snapshot
<1> QED
  BY <1>2, <1>5, <1>6 DEF Exact

(* From one exact picture to the next it is a step of Visibility, or none. *)
LEMMA OutcomeIsStep ==
  ASSUME NEW s, s = snap, Outcome(s)', snap' = Snapshot', Exact(snap), Exact(snap)'
  PROVE  [Abstract!VisNext]_(Abstract!visVars)
<1>1. /\ snap'.px = PxNow' /\ snap'.py = PyNow' /\ snap'.online = OnNow'
      /\ OnNow' \subseteq Players
  BY DEF Snapshot, PxNow, PyNow, OnNow
<1>2. /\ Exact(s)
      /\ snap'.sees = Abstract!Sight(snap'.px, snap'.py, snap'.online)
  BY DEF Exact, Abstract!Sight, Abstract!Within, Abstract!Square, Within, Square
<1>3. CASE Same(s)'
  <2>1. s.px = snap'.px /\ s.py = snap'.py /\ s.online = snap'.online
    BY <1>1, <1>3 DEF Same
  <2>2. s.sees = snap'.sees
    BY <1>2, <2>1 DEF Exact
  <2> QED
    BY <2>1, <2>2 DEF Abstract!visVars
<1>4. ASSUME NEW c \in Users, Moved(c, s)'  PROVE Abstract!VisNext \/ Same(s)'
  <2>1. CASE c \in Players
    <3>1. PICK m \in Moves : /\ PxNow' = [s.px EXCEPT ![c] = MoveX(m, @)]
                             /\ PyNow' = [s.py EXCEPT ![c] = MoveY(m, @)]
      BY <1>4 DEF Moved
    <3>2. c \in s.online /\ OnNow' = s.online
      BY <1>4, <2>1 DEF Moved
    <3>3. m \in Abstract!Moves /\ Abstract!Move(c, m)
      BY <1>1, <3>1, <3>2 DEF Abstract!Moves, Moves, Abstract!Move, Abstract!MoveX, Abstract!MoveY, MoveX, MoveY
    <3> QED
      BY <1>2, <2>1, <3>3 DEF Abstract!VisNext
  <2>2. CASE c \notin Players
    <3>1. \A m \in Moves : /\ [s.px EXCEPT ![c] = MoveX(m, @)] = s.px
                           /\ [s.py EXCEPT ![c] = MoveY(m, @)] = s.py
      BY <1>2, <2>2 DEF Exact
    <3> QED
      BY <1>4, <3>1 DEF Moved, Same
  <2> QED
    BY <2>1, <2>2
<1>5. ASSUME NEW c \in Users, Came(c, s)'  PROVE Abstract!VisNext \/ Same(s)'
  <2>1. CASE c \in Players
    <3>1. Abstract!Come(c)
      BY <1>1, <1>5, <2>1 DEF Came, Abstract!Come
    <3> QED
      BY <1>2, <2>1, <3>1 DEF Abstract!VisNext
  <2>2. CASE c \notin Players
    BY <1>5, <2>2 DEF Came, Same
  <2> QED
    BY <2>1, <2>2
<1>6. ASSUME NEW c \in Users, Left(c, s)'  PROVE Abstract!VisNext \/ Same(s)'
  <2>1. CASE c \in s.online /\ c \in Players
    <3>1. Abstract!Go(c)
      BY <1>1, <1>6, <2>1 DEF Left, Abstract!Go
    <3> QED
      BY <1>2, <2>1, <3>1 DEF Abstract!VisNext
  <2>2. CASE c \notin s.online
    BY <1>6, <2>2 DEF Left, Same
  <2> QED
    BY <1>2, <2>1, <2>2 DEF Exact
<1> QED
  BY <1>3, <1>4, <1>5, <1>6 DEF Outcome

(* What is known of one alone is known of all, or all have settled.        *)
LEMMA SnapMoves ==
  ASSUME TypeInv, TypeInv', NpcsOnly, SerialInv, SerialInv', ~Hung', NEW s,
         Hung \/ \A t \in Threads : Alone(t) => Track(t, s),
         SerialNext \/ UNCHANGED vars
  PROVE  (\A t \in Threads : Alone(t)' => Track(t, s)') \/ (Settled' /\ Outcome(s)')
<1> USE DEF MovedLabels, CameLabels, LeftLabels, EachLabels, OldLabels, ScanLabels, BeatLabels
<1>1. ASSUME EnvironmentStep \/ UNCHANGED vars
      PROVE  \A t \in Threads : Alone(t)' => Track(t, s)'
  <2>1. UNCHANGED <<x, y, bConnected, pc, frame, beat>>
    BY <1>1 DEF EnvironmentStep, TimerFires, PeerFin, PeerReset, vars, board, slots
  <2>2. PictureKept /\ Hung' = Hung
    BY <2>1 DEF PictureKept, PxNow, PyNow, OnNow, Hung
  <2>3. \A t \in Threads : /\ Alone(t)' <=> Alone(t)
                           /\ Phase(t)' = Phase(t) /\ frame'[t].cl = frame[t].cl
    BY <2>1 DEF Alone, Running, Phase
  <2>4. \A t \in Threads : frame[t].cl \in Users
    BY FrameFields DEF TypeInv, LocalInv
  <2> QED
    BY <2>2, <2>3, <2>4, PictureOutcome DEF Track
<1>2. ASSUME NEW t \in Threads, ThreadStep(t), Starts(t) => \A u \in Threads : ~Running(u)
      PROVE  (\A u \in Threads : Alone(u)' => Track(u, s)') \/ (Settled' /\ Outcome(s)')
  <2>1. \A u \in Threads : u # t => /\ pc'[u] = pc[u] /\ (Running(u)' <=> Running(u))
                                    /\ frame'[u].cl = frame[u].cl /\ Phase(u)' = Phase(u)
    BY <1>2, TurnOfOne DEF SerialInv
  <2>2. ~Hung /\ \A u \in Threads : Alone(u) => Track(u, s)
    BY <1>2, TurnOfOne DEF SerialInv
  <2>3. \A u \in Threads : ~Running(u) => Phase(u) = pc[u] /\ pc[u] \in {"gqcs", "accept", "hung"}
    BY PhaseOfOwn DEF Running
  <2>4. \A u \in Threads : ~Running(u)' => Phase(u)' = pc'[u] /\ pc'[u] \in {"gqcs", "accept", "hung"}
    BY DEF Phase, Running
  <2>5. CASE Running(t) \/ Running(t)'
    <3>1. Alone(t) /\ Alone(t)'
      BY <1>2, <2>5, TurnOfOne DEF SerialInv
    <3>2. Sessions(t)
      BY <2>2, <3>1 DEF SerialInv, Solid
    <3>3. Track(t, s)' \/ (pc'[t] \in {"gqcs", "parse", "accept"} /\ Outcome(s)')
      BY <1>2, <2>2, <3>1, <3>2, TrackStep
    <3>4. \A u \in Threads : u # t => ~Running(u)'
      BY <3>1 DEF Alone
    <3>5. ASSUME Track(t, s)', NEW u \in Threads, u # t, Alone(u)'  PROVE Track(u, s)'
      <4>1. ~Running(t)' /\ ~Running(u)'
        BY <3>4, <3>5 DEF Alone
      <4>2. Same(s)'
        BY <2>4, <3>5, <4>1 DEF Track
      <4> QED
        BY <2>4, <4>1, <4>2 DEF Track
    <3>6. ASSUME pc'[t] \in {"gqcs", "parse", "accept"}  PROVE Settled'
      <4>1. \A u \in Threads : pc'[u] \in {"gqcs", "accept", "parse"} \/ (u \in Workers /\ pc'[u] = "hung")
        BY <2>4, <3>4, <3>6 DEF Hung, Threads
      <4> QED
        BY <4>1 DEF Settled, Idle
    <3> QED
      BY <3>3, <3>5, <3>6
  <2>6. CASE ~Running(t) /\ ~Running(t)'
    <3>1. t \in Workers /\ \E p \in Users : AbortedCompletion(t, p)
      BY <1>2, <2>6, TurnOfOne DEF SerialInv
    <3>2. PictureKept
      BY <1>2, <2>6, <2>3, PictureSteps DEF PpMove, DcFree, AcConnect
    <3>3. Same(s)' <=> Same(s)
      BY <3>2, PictureOutcome
    <3>4. \A u \in Threads : Running(u)' <=> Running(u)
      BY <2>1, <2>6
    <3>5. ASSUME NEW u \in Threads, Alone(u)'  PROVE Track(u, s)'
      <4>1. Track(u, s)
        BY <2>2, <3>4, <3>5 DEF Alone
      <4>2. CASE u = t
        BY <2>3, <2>4, <2>6, <3>3, <4>1, <4>2 DEF Track
      <4>3. CASE u # t
        <5>1. frame[u].cl \in Users
          BY FrameFields DEF TypeInv, LocalInv
        <5> QED
          BY <2>1, <3>2, <4>1, <4>3, <5>1, PictureOutcome DEF Track
      <4> QED
        BY <4>2, <4>3
    <3> QED
      BY <3>5
  <2> QED
    BY <2>5, <2>6
<1> QED
  BY <1>1, <1>2 DEF SerialNext

(* All settled: everybody stands where the one alone left them.            *)
LEMMA SettledTracks ==
  ASSUME ExactAtRest', Settled', NEW s, \A t \in Threads : Alone(t)' => Track(t, s)'
  PROVE  Same(s)'
<1>1. PICK t \in Threads : Alone(t)' /\ Phase(t)' \in {"gqcs", "accept", "hung", "parse"}
  BY DEF ExactAtRest
<1> QED
  BY <1>1 DEF Track, MovedLabels, CameLabels, LeftLabels, EachLabels, OldLabels, ScanLabels

TracksAtRest == Settled /\ snap = Snapshot => \A t \in Threads : Track(t, snap)

LEMMA SettledTracked == ExactAtRest => TracksAtRest
<1> SUFFICES ASSUME ExactAtRest, Settled, snap = Snapshot, NEW t \in Threads  PROVE Track(t, snap)
  BY DEF TracksAtRest
<1>1. Same(snap)
  BY DEF Same, Snapshot, PxNow, PyNow, OnNow
<1>2. Phase(t) \in {"gqcs", "accept", "hung", "parse"}
  BY DEF ExactAtRest
<1> QED
  BY <1>1, <1>2 DEF Track, MovedLabels, CameLabels, LeftLabels, EachLabels, OldLabels, ScanLabels

LEMMA SnapInitial == SnapInit => SnapInv /\ Abstract!VisInit
<1> SUFFICES ASSUME SnapInit  PROVE SnapInv /\ Abstract!VisInit
  OBVIOUS
<1>1. Init /\ snap = Snapshot
  BY DEF SnapInit
<1>2. TypeInv /\ SerialInv
  BY <1>1, TypeInit, SerialInit
<1>3. Settled
  BY <1>1 DEF Init, Settled, Idle
<1>4. Exact(snap)
  BY <1>1, <1>2, <1>3, SettledIsExact DEF ExactAtRest
<1>5. SnapInv
  BY <1>1, <1>2, <1>3, <1>4, SettledIsExact, SettledTracked DEF SnapInv, TracksAtRest
<1>6. \A p \in Players : p \in Objects /\ x[p] = 0 /\ y[p] = 0 /\ ~bConnected[p]
  BY <1>1, UsersAreObjects DEF Init, Players
<1>7. Abstract!VisInit
  BY <1>1, <1>6 DEF Snapshot, Abstract!VisInit
<1> QED
  BY <1>5, <1>7

LEMMA SnapStep ==
  /\ TypeInv /\ NpcsOnly /\ SerialInv /\ SnapInv /\ [SnapNext]_snapVars
  /\ ExactAtRest' /\ TracksAtRest' /\ TypeInv' /\ SerialInv'
  => SnapInv' /\ [Abstract!VisNext]_(Abstract!visVars)
<1> SUFFICES ASSUME TypeInv, NpcsOnly, SerialInv, SnapInv, [SnapNext]_snapVars,
                    TypeInv', SerialInv', ExactAtRest', TracksAtRest'
    PROVE  SnapInv' /\ [Abstract!VisNext]_(Abstract!visVars)
  OBVIOUS
<1>1. PICK s : s = snap
  OBVIOUS
<1>2. Exact(s) /\ (Hung \/ \A t \in Threads : Alone(t) => Track(t, s))
  BY <1>1 DEF SnapInv
<1>3. SerialNext \/ UNCHANGED vars
  BY DEF SnapNext, snapVars
<1>4. ASSUME ~Hung'
      PROVE  (\A t \in Threads : Alone(t)' => Track(t, s)') \/ (Settled' /\ Outcome(s)')
  BY <1>2, <1>3, <1>4, SnapMoves
<1>5. ASSUME snap' = snap  PROVE UNCHANGED (Abstract!visVars)
  BY <1>5 DEF Abstract!visVars
<1>6. CASE snap' = Snapshot' /\ Settled'
  <2>1. ~Hung' /\ Exact(snap)'
    BY <1>6 DEF ExactAtRest, Exact
  <2>2. Outcome(s)'
    <3>1. ASSUME \A t \in Threads : Alone(t)' => Track(t, s)'  PROVE Same(s)'
      BY <1>6, <3>1, SettledTracks
    <3> QED
      BY <1>4, <2>1, <3>1 DEF Outcome
  <2>3. [Abstract!VisNext]_(Abstract!visVars)
    BY <1>1, <1>6, <2>1, <2>2, OutcomeIsStep DEF SnapInv
  <2>4. \A t \in Threads : Track(t, snap)'
    BY <1>6 DEF TracksAtRest
  <2> QED
    BY <2>1, <2>3, <2>4 DEF SnapInv
<1>7. CASE snap' = snap /\ ~Settled'
  <2>1. Exact(snap)'
    BY <1>1, <1>2, <1>7 DEF Exact
  <2>2. ASSUME ~Hung', NEW t \in Threads, Alone(t)'  PROVE Track(t, snap)'
    BY <1>1, <1>4, <1>7, <2>2 DEF Track, Same, Moved, Came, Left
  <2> QED
    BY <1>5, <1>7, <2>1, <2>2 DEF SnapInv
<1>8. CASE UNCHANGED snapVars
  <2>1. Exact(snap)'
    BY <1>1, <1>2, <1>8 DEF Exact, snapVars
  <2>2. ASSUME ~Hung', NEW t \in Threads, Alone(t)'  PROVE Track(t, snap)'
    <3>1. UNCHANGED <<x, y, bConnected, pc, frame, beat, snap>>
      BY <1>8 DEF snapVars, vars, board, slots
    <3>2. ~Hung /\ Alone(t)
      BY <2>2, <3>1 DEF Hung, Alone, Running
    <3>3. Track(t, s)
      BY <1>2, <3>2
    <3> QED
      BY <1>1, <3>1, <3>3 DEF Track, Phase, Same, Moved, Came, Left, PxNow, PyNow, OnNow
  <2> QED
    BY <1>5, <1>8, <2>1, <2>2 DEF SnapInv, snapVars
<1> QED
  BY <1>6, <1>7, <1>8 DEF SnapNext

LEMMA SnapIsSerial == SnapSpec => SerialSpec
<1>1. [SnapNext]_snapVars => [SerialNext]_vars
  BY DEF SnapNext, snapVars
<1> QED
  BY <1>1, PTL DEF SnapSpec, SnapInit, SerialSpec

(* Handlers that do not overlap implement Visibility: the players, seen    *)
(* between packets, come, move and go one at a time, and each player's     *)
(* view list is then what stands near it.                                  *)
THEOREM SerialServerIsVisibility == SnapSpec => ServesVisibility
<1>1. Spec => [](TypeInv /\ NpcsOnly)
  BY TypeInvariant, NpcsOnlyInit, NpcsOnlyNext, PTL DEF Spec
<1>2. SnapSpec => [](TypeInv /\ NpcsOnly /\ SerialInv)
  BY <1>1, SnapIsSerial, SerialIsSpec, SerialInvariant, PTL
<1>3. SnapSpec => [](ExactAtRest /\ TracksAtRest)
  BY <1>2, SettledIsExact, SettledTracked, PTL
<1> QED
  BY <1>2, <1>3, SnapInitial, SnapStep, PTL DEF SnapSpec, ServesVisibility, Abstract!VisSpec
=============================================================================
