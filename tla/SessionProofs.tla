---------------------------- MODULE SessionProofs ----------------------------
(***************************************************************************)
(* Who owns a slot: theorems about the sessions of ViewServer when no      *)
(* connection is reset.                                                    *)
(***************************************************************************)
EXTENDS ViewServerProofs

(* What a thread is to the slot it works for.  A thread with a role holds  *)
(* the slot: nobody else may.                                              *)
ServingLabels == {"parse", "rearm"} \cup PacketLabels
HoldingLabels ==
  {"dc_close", "dc_free", "ac_clear", "ac_open", "ac_connect", "ac_live", "ac_recv", "hung"}

Role(t) ==
  IF pc[t] \in HoldingLabels THEN pc[t]
  ELSE IF pc[t] \in ServingLabels \/ (pc[t] \in BeatLabels /\ beat[t].back = "pp_unsee")
    THEN "serving" ELSE "none"

Holds(t) == Role(t) # "none"

(* The inductive invariant.  A slot is held by one thread or by its posted *)
(* receive, never by both; and the holder knows whether the slot is taken, *)
(* whether its socket is open, and whether the remote end has gone.        *)
Orderly == \A p \in Users :
  /\ lost[p] = 0 /\ aborted[p] = 0 /\ peer[p] # "rst" /\ recv[p] <= 1
  /\ recv[p] > 0 => open[p] /\ bConnected[p]

OneHolder == \A t \in Threads : Holds(t) =>
  /\ recv[frame[t].cl] = 0
  /\ \A u \in Threads : Holds(u) /\ frame[u].cl = frame[t].cl => u = t

HolderKnows == \A t \in Threads :
  /\ Role(t) # "hung" /\ ~frame[t].again
  /\ Role(t) \in {"serving", "dc_close", "dc_free", "ac_live", "ac_recv"}
       => bConnected[frame[t].cl]
  /\ Role(t) \in {"ac_clear", "ac_open", "ac_connect"} => ~bConnected[frame[t].cl]
  /\ Role(t) \in {"serving", "dc_close", "ac_connect", "ac_live", "ac_recv"}
       => open[frame[t].cl]
  /\ Role(t) \in {"dc_close", "dc_free"} => peer[frame[t].cl] = "fin"

OwnerInv == Orderly /\ OneHolder /\ HolderKnows

-----------------------------------------------------------------------------
(* A step that changes neither the sessions nor any thread's role.         *)

SameRole(t) ==
  /\ Role(t)' = Role(t)
  /\ Holds(t) => frame'[t].cl = frame[t].cl
  /\ frame'[t].again => frame[t].again

LEMMA OthersSameRole ==
  ASSUME TypeInv, NEW t \in Threads, OnlySelf(t), NEW u \in Threads, u # t
  PROVE  frame'[u] = frame[u] /\ Role(u)' = Role(u)
<1>1. pc'[u] = pc[u] /\ frame'[u] = frame[u] /\ beat'[u] = beat[u]
  BY DEF TypeInv, Functional, OnlySelf
<1> QED
  BY <1>1 DEF Role

LEMMA SameRoleStep ==
  ASSUME TypeInv, OwnerInv, NEW t \in Threads, OnlySelf(t), SameRole(t),
         UNCHANGED <<bConnected, net>>
  PROVE  OwnerInv'
<1>1. \A u \in Threads : /\ Role(u)' = Role(u) /\ (frame'[u].again => frame[u].again)
                         /\ Holds(u) => frame'[u].cl = frame[u].cl
  BY OthersSameRole DEF SameRole
<1>2. UNCHANGED <<bConnected, open, peer, recv, lost, aborted>>
  BY DEF net
<1>3. Orderly'
  BY <1>2 DEF OwnerInv, Orderly
<1>4. OneHolder'
  BY <1>1, <1>2 DEF OwnerInv, OneHolder, Holds
<1>5. HolderKnows'
  BY <1>1, <1>2 DEF OwnerInv, HolderKnows, Holds
<1> QED
  BY <1>3, <1>4, <1>5 DEF OwnerInv

LEMMA HeartBeatRole ==
  ASSUME TypeInv, NEW t \in Threads, HeartBeatStep(t)
  PROVE  SameRole(t) /\ UNCHANGED <<bConnected, net>>
<1>1. frame' = frame /\ UNCHANGED <<bConnected, net>>
  BY DEF HeartBeatStep, HbLoad, HbStore, HbClamp, HbView, HbNear, HbFar, HbPut,
         HbRemove, HbAlive, HbRevive, HbPush, slots
<1>2. Role(t)' = Role(t)
  <2>1. Functional /\ beat[t] \in BeatType /\ pc[t] \in BeatLabels /\ beat[t].back \in {"gqcs", "pp_unsee", "ac_see"}
    BY DEF TypeInv, LocalInv, BeatType, HeartBeatStep, HbLoad, HbStore, HbClamp, HbView,
           HbNear, HbFar, HbPut, HbRemove, HbAlive, HbRevive, HbPush, BeatLabels
  <2>2. \/ pc'[t] \in BeatLabels /\ beat'[t].back = beat[t].back
        \/ pc'[t] = beat[t].back
    <3> USE <2>1 DEF Functional, Goto, BeatLabels, BeatType
    <3>1. CASE NextUser(t) /\ pc'[t] \in BeatLabels
      BY <3>1 DEF NextUser
    <3>2. CASE beat' = beat /\ pc'[t] \in BeatLabels
      BY <3>2
    <3>3. CASE HbReturn(t)
      BY <3>3 DEF HbReturn
    <3>4. CASE HbLoad(t)
      BY <3>4 DEF HbLoad
    <3>5. CASE HbClamp(t)
      BY <3>5 DEF HbClamp
    <3>6. CASE HbView(t)
      BY <3>1, <3>2, <3>6 DEF HbView
    <3> QED
      BY <3>1, <3>2, <3>3, <3>4, <3>5, <3>6 DEF HeartBeatStep, HbStore, HbNear,
         HbFar, HbPut, HbRemove, HbAlive, HbRevive, HbPush
  <2> QED
    BY <2>1, <2>2 DEF Role, BeatLabels, ServingLabels, HoldingLabels, PacketLabels
<1> QED
  BY <1>1, <1>2 DEF SameRole

LEMMA PacketRole ==
  ASSUME TypeInv, NEW t \in Workers, PacketStep(t)
  PROVE  SameRole(t) /\ UNCHANGED <<bConnected, net>>
<1>1. t \in Threads /\ Functional /\ frame[t] \in FrameType /\ beat[t] \in BeatType
  BY DEF TypeInv, LocalInv, Threads
<1>2. UNCHANGED <<bConnected, net>> /\ Role(t) = "serving"
  BY DEF PacketStep, PpMove, PpScan, PpCopy, PpEach, PpPut, PpPeer, PpPeerPut, PpOld,
         PpRemove, PpUnsee, PpPeerRemove, PpMerge, slots, Role, HoldingLabels, ServingLabels,
         PacketLabels
<1>3. CASE PpMerge(t)
  <2>1. frame'[t] = [NoFrame EXCEPT !.cl = frame[t].cl, !.left = frame[t].left]
        /\ pc'[t] = "parse"
    BY <1>1, <1>3 DEF PpMerge, Functional, Goto
  <2> QED
    BY <1>2, <2>1 DEF NoFrame, SameRole, Role, HoldingLabels, ServingLabels
<1>4. CASE ~PpMerge(t)
  <2>1. frame'[t].cl = frame[t].cl /\ frame'[t].again = frame[t].again
    <3> USE <1>1 DEF FrameType, Functional
    <3>1. CASE PpScan(t)
      BY <3>1 DEF PpScan
    <3>2. CASE PpCopy(t)
      BY <3>2 DEF PpCopy
    <3>3. CASE \E o \in frame[t].todo :
                 frame' = [frame EXCEPT ![t].todo = @ \ {o}, ![t].id = o, ![t].ovl = @ \cup {o}]
      <4>1. PICK o : frame'[t] = [frame[t] EXCEPT !.todo = frame[t].todo \ {o}, !.id = o,
                                                  !.ovl = frame[t].ovl \cup {o}]
        BY <3>3
      <4> QED
        BY <4>1
    <3>4. CASE \E o \in frame[t].todo : frame' = [frame EXCEPT ![t].todo = @ \ {o}, ![t].id = o]
      <4>1. PICK o : frame'[t] = [frame[t] EXCEPT !.todo = frame[t].todo \ {o}, !.id = o]
        BY <3>4
      <4> QED
        BY <4>1
    <3>5. CASE frame' = [frame EXCEPT ![t].todo = frame[t].ovl \ frame[t].seen]
      BY <3>5
    <3>6. CASE frame' = frame
      BY <3>6
    <3> QED
      BY <1>4, <3>1, <3>2, <3>3, <3>4, <3>5, <3>6 DEF PacketStep, PpMove, PpEach, PpOld, PpPut, PpPeer,
         PpPeerPut, PpRemove, PpUnsee, PpPeerRemove
  <2>2. Role(t)' = "serving"
    <3> USE <1>1 DEF Functional, Goto, Role, HoldingLabels, ServingLabels, PacketLabels, BeatLabels
    <3>1. CASE pc'[t] \in PacketLabels
      BY <3>1
    <3>2. CASE EnterHeartBeat(t, frame[t].id, "pp_unsee")
      BY <3>2 DEF EnterHeartBeat, NoBeat
    <3> QED
      BY <1>4, <3>1, <3>2 DEF PacketStep, PpMove, PpScan, PpCopy, PpEach, PpPut, PpPeer,
         PpPeerPut, PpOld, PpRemove, PpUnsee, PpPeerRemove, WakeUpNPC
  <2> QED
    BY <1>2, <2>1, <2>2 DEF SameRole
<1> QED
  BY <1>2, <1>3, <1>4

-----------------------------------------------------------------------------
(* A step that takes, passes on or gives up a slot.                        *)

(* Step t is about slot p alone, and leaves p as t's role says.            *)
HoldsAlone(t, p) ==
  \A u \in Threads : Holds(u) /\ frame[u].cl = p => u = t

Touches(p) ==
  \A q \in Users \ {p} : /\ recv'[q] = recv[q] /\ open'[q] = open[q]
                         /\ bConnected'[q] = bConnected[q] /\ peer'[q] = peer[q]

Leaves(t, p) ==
  /\ ~frame'[t].again /\ Role(t)' # "hung" /\ (Holds(t)' => frame'[t].cl = p)
  /\ recv'[p] \in {0, 1} /\ peer'[p] # "rst"
  /\ recv'[p] = 1 => open'[p] /\ bConnected'[p] /\ ~Holds(t)'
  /\ Role(t)' \in {"serving", "dc_close", "dc_free", "ac_live", "ac_recv"} => bConnected'[p]
  /\ Role(t)' \in {"ac_clear", "ac_open", "ac_connect"} => ~bConnected'[p]
  /\ Role(t)' \in {"serving", "dc_close", "ac_connect", "ac_live", "ac_recv"} => open'[p]
  /\ Role(t)' \in {"dc_close", "dc_free"} => peer'[p] = "fin"

(* How a slot passes from hand to hand.                                    *)
JoinRoles == {"ac_clear", "ac_open", "ac_connect", "ac_live", "ac_recv"}
LeaveRoles == {"dc_close", "dc_free"}

Handover(t, p) ==
  \/ ~Holds(t) /\ recv[p] > 0 /\ recv'[p] = 0 /\ Role(t)' \in {"serving", "dc_close"}
  \/ ~Holds(t) /\ recv[p] = 0 /\ recv'[p] = 0 /\ Role(t)' \in JoinRoles /\ t = Acceptor
  \/ Role(t) \in JoinRoles /\ Role(t)' \in JoinRoles /\ recv'[p] = 0
  \/ Role(t) \in LeaveRoles /\ Role(t)' \in LeaveRoles /\ recv'[p] = 0
  \/ Role(t) \in JoinRoles \cup {"serving"} /\ recv'[p] = 1
  \/ Role(t) \in LeaveRoles /\ ~Holds(t)' /\ recv'[p] = 0

Passes(t, p) ==
  /\ HoldsAlone(t, p) /\ Touches(p) /\ Leaves(t, p) /\ UNCHANGED <<lost, aborted>>
  /\ Holds(t) => frame[t].cl = p
  /\ Handover(t, p)

Keeps(t) == SameRole(t) /\ UNCHANGED <<bConnected, net>>

LEMMA PassesStep ==
  ASSUME TypeInv, OwnerInv, NEW t \in Threads, OnlySelf(t), NEW p \in Users, Passes(t, p)
  PROVE  OwnerInv'
<1> USE DEF Passes, HoldsAlone, Touches, Leaves
<1>1. ASSUME NEW u \in Threads, u # t
      PROVE  frame'[u] = frame[u] /\ Role(u)' = Role(u) /\ frame[u].cl \in Users
  BY <1>1, OthersSameRole, FrameFields DEF TypeInv, LocalInv
<1>2. Orderly'
  BY DEF OwnerInv, Orderly
<1>3. OneHolder'
  <2> SUFFICES ASSUME NEW u \in Threads, Holds(u)'
      PROVE  /\ recv'[frame'[u].cl] = 0
             /\ \A v \in Threads : Holds(v)' /\ frame'[v].cl = frame'[u].cl => v = u
    BY DEF OneHolder
  <2>1. CASE u = t
    BY <1>1, <2>1 DEF Holds, OwnerInv, OneHolder
  <2>2. CASE u # t
    BY <1>1, <2>2 DEF Holds, OwnerInv, OneHolder
  <2> QED
    BY <2>1, <2>2
<1>4. HolderKnows'
  <2> SUFFICES ASSUME NEW u \in Threads  PROVE HolderKnows!(u)'
    BY DEF HolderKnows
  <2>1. CASE u = t
    BY <2>1 DEF Holds
  <2>2. CASE u # t
    BY <1>1, <2>2 DEF Holds, OwnerInv, HolderKnows
  <2> QED
    BY <2>1, <2>2
<1> QED
  BY <1>2, <1>3, <1>4 DEF OwnerInv

(* Nobody holds a slot whose receive is posted.                            *)
LEMMA PostedIsUnheld ==
  ASSUME OwnerInv, NEW p \in Users, recv[p] > 0
  PROVE  /\ \A u \in Threads : Holds(u) => frame[u].cl # p
         /\ open[p] /\ bConnected[p] /\ recv[p] <= 1
  BY DEF OwnerInv, OneHolder, Orderly

LEMMA TakeReceive ==
  ASSUME TypeInv, OwnerInv, NEW t \in Workers, NEW p \in Users,
         RecvData(t, p) \/ RecvEof(t, p)
  PROVE  Passes(t, p)
<1>1. t \in Threads /\ Functional /\ OnlySelf(t) /\ SharedType
  BY WorkerLocal DEF Threads, TypeInv, WorkerStep
<1>2. /\ recv' = [recv EXCEPT ![p] = @ - 1] /\ recv[p] > 0
      /\ UNCHANGED <<bConnected, open, peer, lost, aborted>>
  BY DEF RecvData, RecvEof, slots
<1>3. frame'[t].cl = p /\ ~frame'[t].again
  BY <1>1 DEF RecvData, RecvEof, StartFrame, NoFrame, Functional
<1>4. Role(t)' = "serving" \/ (Role(t)' = "dc_close" /\ peer[p] = "fin")
  <2>1. CASE RecvData(t, p)
    <3>1. pc' = [pc EXCEPT ![t] = "parse"]
      BY <2>1 DEF RecvData, Goto
    <3> QED
      BY <1>1, <3>1 DEF Functional, Role, HoldingLabels, ServingLabels
  <2>2. CASE RecvEof(t, p)
    <3>1. pc' = [pc EXCEPT ![t] = "dc_close"] /\ peer[p] = "fin"
      BY <2>2 DEF RecvEof, Goto
    <3> QED
      BY <1>1, <3>1 DEF Functional, Role, HoldingLabels
  <2> QED
    BY <2>1, <2>2
<1>5. recv'[p] = 0 /\ recv' \in [Users -> Nat] /\ peer'[p] # "rst"
  BY <1>1, <1>2, PostedIsUnheld DEF SharedType, OwnerInv, Orderly
<1>6. ~Holds(t)
  BY DEF RecvData, RecvEof, Holds, Role, HoldingLabels, ServingLabels, PacketLabels, BeatLabels
<1>7. HoldsAlone(t, p) /\ Touches(p) /\ Leaves(t, p)
  BY <1>1, <1>2, <1>3, <1>4, <1>5, PostedIsUnheld DEF SharedType, HoldsAlone, Touches, Leaves
<1> QED
  BY <1>2, <1>4, <1>5, <1>6, <1>7 DEF Passes, Handover

LEMMA RearmOwner ==
  ASSUME TypeInv, OwnerInv, NEW t \in Workers, Rearm(t)
  PROVE  Passes(t, frame[t].cl)
<1>1. t \in Threads /\ Functional /\ OnlySelf(t) /\ SharedType /\ frame[t].cl \in Users
  BY WorkerLocal, FrameFields DEF Threads, TypeInv, WorkerStep, LocalInv
<1>2. Role(t) = "serving"
  BY DEF Rearm, Role, HoldingLabels, ServingLabels
<1>3. /\ open[frame[t].cl] /\ bConnected[frame[t].cl] /\ peer[frame[t].cl] # "rst"
      /\ recv[frame[t].cl] = 0
      /\ \A u \in Threads : Holds(u) /\ frame[u].cl = frame[t].cl => u = t
  BY <1>1, <1>2 DEF OwnerInv, Orderly, OneHolder, HolderKnows, Holds
<1>4. /\ recv' = [recv EXCEPT ![frame[t].cl] = @ + 1]
      /\ UNCHANGED <<bConnected, open, peer, lost, aborted>>
  BY <1>3 DEF Rearm, CanPost, Cl, slots
<1>5. ~frame'[t].again /\ Role(t)' = "none"
  BY <1>1, <1>3 DEF Rearm, CanPost, Cl, StartFrame, NoFrame, Goto, Functional, Role, HoldingLabels,
                    ServingLabels, PacketLabels, BeatLabels
<1>6. recv'[frame[t].cl] = 1 /\ recv' \in [Users -> Nat]
  BY <1>1, <1>3, <1>4 DEF SharedType
<1>7. HoldsAlone(t, frame[t].cl) /\ Touches(frame[t].cl) /\ Leaves(t, frame[t].cl)
  BY <1>1, <1>3, <1>4, <1>5, <1>6 DEF SharedType, HoldsAlone, Touches, Leaves, Holds
<1> QED
  BY <1>2, <1>4, <1>6, <1>7 DEF Passes, Handover

LEMMA CloseOwner ==
  ASSUME TypeInv, OwnerInv, NEW t \in Workers, DcClose(t) \/ DcFree(t)
  PROVE  Passes(t, frame[t].cl)
<1>1. t \in Threads /\ Functional /\ OnlySelf(t) /\ SharedType /\ frame[t].cl \in Users
  BY WorkerLocal, FrameFields DEF Threads, TypeInv, WorkerStep, LocalInv
<1>2. Role(t) = pc[t]
  BY DEF DcClose, DcFree, Role, HoldingLabels
<1>3. /\ bConnected[frame[t].cl] /\ peer[frame[t].cl] = "fin"
      /\ recv[frame[t].cl] = 0 /\ aborted[frame[t].cl] = 0
      /\ \A u \in Threads : Holds(u) /\ frame[u].cl = frame[t].cl => u = t
  BY <1>1, <1>2 DEF OwnerInv, Orderly, OneHolder, HolderKnows, Holds, DcClose, DcFree
<1>4. UNCHANGED <<peer, lost, frame>> /\ ~frame[t].again
  BY <1>1 DEF DcClose, DcFree, OwnerInv, HolderKnows, net
<1>5. CASE DcClose(t)
  <2>1. recv' = recv /\ aborted' = aborted /\ bConnected' = bConnected
    BY <1>1, <1>3, <1>5, BoundsAssumption DEF DcClose, Cl, Capped, SharedType, slots
  <2>2. open' = [open EXCEPT ![frame[t].cl] = FALSE]
    BY <1>5 DEF DcClose, Cl
  <2>3. Role(t)' = "dc_free"
    BY <1>1, <1>5 DEF DcClose, Goto, Functional, Role, HoldingLabels
  <2>4. Touches(frame[t].cl)
    BY <1>1, <1>4, <2>1, <2>2 DEF Touches, SharedType
  <2>5. Leaves(t, frame[t].cl)
    BY <1>1, <1>3, <1>4, <2>1, <2>2, <2>3 DEF Leaves
  <2> QED
    BY <1>2, <1>3, <1>4, <1>5, <2>1, <2>3, <2>4, <2>5 DEF Passes, Handover, LeaveRoles, HoldsAlone, DcClose
<1>6. CASE DcFree(t)
  <2>1. UNCHANGED <<recv, aborted, open>> /\ bConnected' = [bConnected EXCEPT ![frame[t].cl] = FALSE]
    BY <1>6 DEF DcFree, Cl, net
  <2>2. Role(t)' = "none"
    BY <1>1, <1>6 DEF DcFree, Goto, Functional, Role, HoldingLabels, ServingLabels, PacketLabels, BeatLabels
  <2>3. Touches(frame[t].cl)
    BY <1>1, <1>4, <2>1, UsersAreObjects DEF Touches, SharedType
  <2>4. Leaves(t, frame[t].cl)
    BY <1>1, <1>3, <1>4, <2>1, <2>2 DEF Leaves, Holds
  <2> QED
    BY <1>2, <1>3, <1>4, <1>6, <2>1, <2>2, <2>3, <2>4
    DEF Passes, Handover, LeaveRoles, HoldsAlone, Holds, DcFree
<1> QED
  BY <1>5, <1>6

LEMMA WorkerOwner ==
  ASSUME TypeInv, OwnerInv, NEW t \in Workers, WorkerStep(t)
  PROVE  Keeps(t) \/ \E p \in Users : Passes(t, p)
<1>1. /\ t \in Threads /\ Functional /\ OnlySelf(t) /\ frame[t] \in FrameType
      /\ beat[t] \in BeatType /\ ~frame[t].again
  BY WorkerLocal DEF Threads, TypeInv, LocalInv, OwnerInv, HolderKnows
<1>2. ASSUME NEW p \in Users  PROVE ~LostCompletion(t, p) /\ ~AbortedCompletion(t, p)
  BY DEF OwnerInv, Orderly, LostCompletion, AbortedCompletion
<1>4. ASSUME NEW n \in Objects, DoAi(t, n)  PROVE Keeps(t)
  <2>1. pc'[t] = "hb_load" /\ beat'[t] = [NoBeat EXCEPT !.npc = n, !.back = "gqcs"]
    BY <1>1, <1>4 DEF DoAi, EnterHeartBeat, Goto, Functional
  <2>2. Role(t)' = "none"
    BY <2>1 DEF NoBeat, Role, HoldingLabels, ServingLabels, PacketLabels
  <2>3. Role(t) = "none" /\ frame' = frame /\ UNCHANGED <<bConnected, net>>
    BY <1>4 DEF DoAi, Role, HoldingLabels, ServingLabels, PacketLabels, BeatLabels, slots
  <2> QED
    BY <1>1, <2>2, <2>3 DEF Keeps, SameRole
<1>5. CASE Parse(t)
  <2>1. Role(t) = "serving" /\ UNCHANGED <<bConnected, net>>
    BY <1>5 DEF Parse, Role, HoldingLabels, ServingLabels, slots
  <2>2. pc'[t] \in {"pp_move", "rearm"}
    BY <1>1, <1>5 DEF Parse, Goto, Functional
  <2>3. Role(t)' = "serving"
    BY <2>2 DEF Role, HoldingLabels, ServingLabels, PacketLabels
  <2>4. frame'[t].cl = frame[t].cl /\ frame'[t].again = frame[t].again
    BY <1>1, <1>5 DEF Parse, FrameType, Functional
  <2> QED
    BY <1>1, <2>1, <2>3, <2>4 DEF Keeps, SameRole
<1>6. CASE DcDead(t) \/ DcScan(t) \/ DcRemove(t)
  <2>1. Role(t) = "none" /\ UNCHANGED <<bConnected, net>>
    BY <1>6 DEF DcDead, DcScan, DcRemove, Role, HoldingLabels, ServingLabels, PacketLabels,
                BeatLabels, slots
  <2>2. ~frame'[t].again
    <3>1. CASE frame' = [frame EXCEPT ![t].idx = @ + 1]
      BY <1>1, <3>1 DEF FrameType, Functional
    <3>2. CASE frame' = [frame EXCEPT ![t] = NoFrame]
      BY <1>1, <3>2 DEF NoFrame, Functional
    <3>3. CASE frame' = frame
      BY <1>1, <3>3
    <3> QED
      BY <1>1, <1>6, <3>1, <3>2, <3>3 DEF DcDead, DcScan, DcRemove, DcReturn, StartFrame
  <2>3. pc'[t] \in {"dc_scan", "dc_remove", "gqcs"}
    BY <1>1, <1>6 DEF DcDead, DcScan, DcRemove, DcReturn, Goto, Functional
  <2>4. Role(t)' = "none"
    BY <2>3 DEF Role, HoldingLabels, ServingLabels, PacketLabels, BeatLabels
  <2> QED
    BY <2>1, <2>2, <2>4 DEF Keeps, SameRole, Holds
<1>7. CASE PacketStep(t)
  BY <1>7, PacketRole DEF Keeps
<1>8. CASE Rearm(t) \/ DcClose(t) \/ DcFree(t)
  BY <1>1, <1>8, FrameFields, RearmOwner, CloseOwner
<1> QED
  BY <1>2, <1>4, <1>5, <1>6, <1>7, <1>8, TakeReceive DEF WorkerStep

(* While the accept thread has a role, no worker touches its slot.         *)
LEMMA AcceptOwner ==
  ASSUME TypeInv, OwnerInv, NEW t \in Threads, t = Acceptor, AcceptStep(t)
  PROVE  Keeps(t) \/ \E p \in Users : Passes(t, p)
<1>1. /\ Functional /\ OnlySelf(t) /\ SharedType /\ frame[t].cl \in Users
      /\ frame[t] \in FrameType /\ ~frame[t].again
  BY AcceptLocal, FrameFields DEF TypeInv, LocalInv, OwnerInv, HolderKnows
<1>2. ASSUME NEW p \in Users, Accept(t, p)  PROVE Passes(t, p)
  <2>1. ~bConnected[p] /\ UNCHANGED <<bConnected, open, peer, recv, lost, aborted>>
    BY <1>2 DEF Accept, FirstFree, slots, net
  <2>2. recv[p] = 0 /\ peer[p] # "rst"
    BY <1>1, <2>1 DEF OwnerInv, Orderly, SharedType
  <2>3. HoldsAlone(t, p)
    <3> SUFFICES ASSUME NEW u \in Threads, u # t, Holds(u), frame[u].cl = p  PROVE FALSE
      BY DEF HoldsAlone
    <3>1. Role(u) \in {"serving", "dc_close", "dc_free", "hung"}
      BY DEF Holds, Role, HoldingLabels, TypeInv, LocalInv, CodeOf, WorkerLabels, PacketLabels,
             CloseLabels, BeatLabels
    <3> QED
      BY <2>1, <3>1 DEF OwnerInv, HolderKnows
  <2>4. frame'[t].cl = p /\ ~frame'[t].again
    BY <1>1, <1>2 DEF Accept, StartFrame, NoFrame, Functional
  <2>5. Role(t)' = "ac_clear"
    BY <1>1, <1>2 DEF Accept, Goto, Functional, Role, HoldingLabels
  <2>6. Leaves(t, p)
    BY <2>1, <2>2, <2>4, <2>5 DEF Leaves
  <2>7. Touches(p)
    BY <2>1 DEF Touches
  <2>8. Role(t) = "none" /\ t = Acceptor
    BY <1>2 DEF Accept, Role, HoldingLabels, ServingLabels, PacketLabels, BeatLabels
  <2> QED
    BY <2>1, <2>2, <2>3, <2>5, <2>6, <2>7, <2>8 DEF Passes, Handover, JoinRoles, Holds
<1>3. ASSUME Holds(t)
      PROVE  /\ HoldsAlone(t, frame[t].cl) /\ recv[frame[t].cl] = 0
             /\ peer[frame[t].cl] # "rst"
  BY <1>1, <1>3 DEF OwnerInv, Orderly, OneHolder, HoldsAlone
<1>4. CASE AcClear(t)
  <2>1. Role(t) = "ac_clear" /\ UNCHANGED <<bConnected, open, peer, recv, lost, aborted, frame>>
    BY <1>4 DEF AcClear, Role, HoldingLabels, slots, net
  <2>2. Role(t)' = "ac_open"
    BY <1>1, <1>4 DEF AcClear, Goto, Functional, Role, HoldingLabels
  <2>3. ~bConnected[frame[t].cl]
    BY <2>1 DEF OwnerInv, HolderKnows
  <2>4. Leaves(t, frame[t].cl) /\ Touches(frame[t].cl)
    BY <1>1, <1>3, <2>1, <2>2, <2>3 DEF Leaves, Touches, Holds
  <2> QED
    BY <1>1, <1>3, <2>1, <2>2, <2>4 DEF Passes, Handover, JoinRoles, Holds
<1>5. CASE AcOpen(t)
  <2>1. Role(t) = "ac_open" /\ UNCHANGED <<bConnected, recv, lost, aborted, frame>>
    BY <1>5 DEF AcOpen, Role, HoldingLabels, slots
  <2>2. Role(t)' = "ac_connect"
    BY <1>1, <1>5 DEF AcOpen, Goto, Functional, Role, HoldingLabels
  <2>3. ~bConnected[frame[t].cl]
    BY <2>1 DEF OwnerInv, HolderKnows
  <2>4. /\ open' = [open EXCEPT ![frame[t].cl] = TRUE]
        /\ peer' = [peer EXCEPT ![frame[t].cl] = "up"]
    BY <1>5 DEF AcOpen, Cl
  <2>5. Touches(frame[t].cl)
    BY <1>1, <2>1, <2>4 DEF Touches, SharedType
  <2>6. open'[frame[t].cl] /\ peer'[frame[t].cl] = "up"
    BY <1>1, <2>4 DEF SharedType
  <2>7. Holds(t)
    BY <2>1 DEF Holds
  <2>8. Leaves(t, frame[t].cl)
    BY <1>1, <1>3, <2>1, <2>2, <2>3, <2>6, <2>7 DEF Leaves
  <2> QED
    BY <1>1, <1>3, <2>1, <2>2, <2>5, <2>7, <2>8 DEF Passes, Handover, JoinRoles
<1>6. CASE AcConnect(t)
  <2>1. Role(t) = "ac_connect" /\ UNCHANGED <<open, peer, recv, lost, aborted, frame>>
    BY <1>6 DEF AcConnect, Role, HoldingLabels, net
  <2>2. Role(t)' = "ac_live"
    BY <1>1, <1>6 DEF AcConnect, Goto, Functional, Role, HoldingLabels
  <2>3. open[frame[t].cl]
    BY <2>1 DEF OwnerInv, HolderKnows
  <2>4. bConnected' = [bConnected EXCEPT ![frame[t].cl] = TRUE]
    BY <1>6 DEF AcConnect, Cl
  <2>5. Touches(frame[t].cl)
    BY <1>1, <2>1, <2>4, UsersAreObjects DEF Touches, SharedType
  <2>6. bConnected'[frame[t].cl]
    BY <1>1, <2>4, UsersAreObjects DEF SharedType
  <2>7. Holds(t)
    BY <2>1 DEF Holds
  <2>8. Leaves(t, frame[t].cl)
    BY <1>1, <1>3, <2>1, <2>2, <2>3, <2>6, <2>7 DEF Leaves
  <2> QED
    BY <1>1, <1>3, <2>1, <2>2, <2>5, <2>7, <2>8 DEF Passes, Handover, JoinRoles
<1>7. CASE AcLive(t)
  <2>1. Role(t) = "ac_live" /\ UNCHANGED <<bConnected, open, peer, recv, lost, aborted, frame>>
    BY <1>7 DEF AcLive, Role, HoldingLabels, net
  <2>2. Role(t)' = "ac_recv"
    BY <1>1, <1>7 DEF AcLive, Goto, Functional, Role, HoldingLabels
  <2>3. open[frame[t].cl] /\ bConnected[frame[t].cl]
    BY <2>1 DEF OwnerInv, HolderKnows
  <2>4. Leaves(t, frame[t].cl) /\ Touches(frame[t].cl)
    BY <1>1, <1>3, <2>1, <2>2, <2>3 DEF Leaves, Touches, Holds
  <2> QED
    BY <1>1, <1>3, <2>1, <2>2, <2>4 DEF Passes, Handover, JoinRoles, Holds
<1>8. CASE AcRecv(t)
  <2>1. Role(t) = "ac_recv" /\ UNCHANGED <<bConnected, open, peer, lost, aborted, frame>>
    BY <1>8 DEF AcRecv, Role, HoldingLabels, slots
  <2>2. open[frame[t].cl] /\ bConnected[frame[t].cl]
    BY <2>1 DEF OwnerInv, HolderKnows
  <2>3. recv' = [recv EXCEPT ![frame[t].cl] = @ + 1] /\ pc'[t] = "ac_self"
    BY <1>1, <1>3, <1>8, <2>1, <2>2 DEF AcRecv, CanPost, Cl, Goto, Functional, Holds
  <2>4. Role(t)' = "none"
    BY <2>3 DEF Role, HoldingLabels, ServingLabels, PacketLabels, BeatLabels
  <2>5. Leaves(t, frame[t].cl) /\ Touches(frame[t].cl)
    BY <1>1, <1>3, <2>1, <2>2, <2>3, <2>4 DEF Leaves, Touches, Holds, SharedType
  <2>6. recv'[frame[t].cl] = 1
    BY <1>1, <1>3, <2>1, <2>3 DEF SharedType, Holds
  <2> QED
    BY <1>1, <1>3, <2>1, <2>6, <2>5 DEF Passes, Handover, JoinRoles, Holds
<1>9. CASE AcSelf(t) \/ AcScan(t) \/ AcSee(t) \/ AcPeer(t) \/ AcPeerPut(t) \/ AcMerge(t)
  <2>1. Role(t) = "none" /\ UNCHANGED <<bConnected, net>>
    BY <1>9 DEF AcSelf, AcScan, AcSee, AcPeer, AcPeerPut, AcMerge, Role, HoldingLabels,
                ServingLabels, PacketLabels, BeatLabels, slots
  <2>2. frame'[t].again => frame[t].again
    <3>1. CASE NextSlot(t)
      BY <1>1, <3>1 DEF NextSlot, FrameType, Functional
    <3>2. CASE AcSee(t)
      BY <1>1, <3>2 DEF AcSee, FrameType, Functional
    <3>3. CASE AcMerge(t)
      BY <1>1, <3>3 DEF AcMerge, StartFrame, NoFrame, Functional
    <3>4. CASE frame' = frame
      BY <3>4
    <3> QED
      BY <1>9, <3>1, <3>2, <3>3, <3>4 DEF AcSelf, AcScan, AcPeer, AcPeerPut
  <2>3. Role(t)' = "none"
    <3>1. CASE EnterHeartBeat(t, frame[t].idx, "ac_see")
      <4>1. pc'[t] = "hb_load" /\ beat'[t] = [NoBeat EXCEPT !.npc = frame[t].idx, !.back = "ac_see"]
        BY <1>1, <3>1 DEF EnterHeartBeat, Goto, Functional
      <4> QED
        BY <4>1 DEF NoBeat, Role, HoldingLabels, ServingLabels, PacketLabels
    <3>2. CASE pc'[t] \in AcceptLabels \ HoldingLabels
      BY <3>2 DEF AcceptLabels, Role, ServingLabels, PacketLabels, BeatLabels
    <3> QED
      BY <1>1, <1>9, <3>1, <3>2 DEF AcSelf, AcScan, AcSee, AcPeer, AcPeerPut, AcMerge, WakeUpNPC,
         Goto, Functional, AcceptLabels, HoldingLabels
  <2> QED
    BY <1>1, <2>1, <2>2, <2>3 DEF Keeps, SameRole, Holds
<1> QED
  BY <1>1, <1>2, <1>4, <1>5, <1>6, <1>7, <1>8, <1>9 DEF AcceptStep

(* Every step of a thread keeps its role or passes one slot on.             *)
LEMMA ThreadOwner ==
  ASSUME TypeInv, OwnerInv, NEW t \in Threads, ThreadStep(t)
  PROVE  OnlySelf(t) /\ (Keeps(t) \/ \E p \in Users : Passes(t, p))
<1>1. CASE HeartBeatStep(t)
  BY <1>1, HeartBeatLocal, HeartBeatRole DEF Keeps
<1>2. CASE t \in Workers /\ WorkerStep(t)
  BY <1>2, WorkerLocal, WorkerOwner
<1>3. CASE t = Acceptor /\ AcceptStep(t)
  BY <1>3, AcceptLocal, AcceptOwner
<1> QED
  BY <1>1, <1>2, <1>3 DEF ThreadStep

(* The timer thread and the remote ends give no slot to anybody.           *)
LEMMA EnvironmentOwner ==
  ASSUME HardResets = FALSE, TypeInv, OwnerInv, EnvironmentStep
  PROVE  OwnerInv'
<1>1. /\ UNCHANGED <<bConnected, open, recv, lost, aborted, pc, frame, beat>>
      /\ peer' = peer \/ \E p \in Users : peer' = [peer EXCEPT ![p] = "fin"]
  BY DEF EnvironmentStep, TimerFires, PeerFin, PeerReset, slots, net
<1>2. \A q \in Users : peer'[q] \in {peer[q], "fin"}
  BY <1>1 DEF TypeInv, SharedType
<1>3. \A t \in Threads : Role(t)' = Role(t) /\ frame[t].cl \in Users
  BY <1>1, FrameFields DEF Role, TypeInv, LocalInv
<1>4. Orderly' /\ OneHolder'
  BY <1>1, <1>2, <1>3 DEF OwnerInv, Orderly, OneHolder, Holds
<1>5. HolderKnows'
  BY <1>1, <1>2, <1>3 DEF OwnerInv, HolderKnows
<1> QED
  BY <1>4, <1>5 DEF OwnerInv

LEMMA OwnerInit == Init => OwnerInv
<1> SUFFICES ASSUME Init PROVE OwnerInv
  OBVIOUS
<1>1. ASSUME NEW t \in Threads  PROVE Role(t) = "none" /\ ~frame[t].again
  BY <1>1 DEF Init, NoFrame, Role, HoldingLabels, ServingLabels, PacketLabels, BeatLabels
<1>2. Orderly
  BY DEF Init, Orderly
<1> QED
  BY <1>1, <1>2 DEF OwnerInv, OneHolder, HolderKnows, Holds

LEMMA OwnerNext ==
  ASSUME HardResets = FALSE
  PROVE  TypeInv /\ OwnerInv /\ [Next]_vars => OwnerInv'
<1> SUFFICES ASSUME TypeInv, OwnerInv, [Next]_vars PROVE OwnerInv'
  OBVIOUS
<1>1. ASSUME NEW t \in Threads, ThreadStep(t)  PROVE OwnerInv'
  BY <1>1, ThreadOwner, SameRoleStep, PassesStep DEF Keeps
<1>2. CASE UNCHANGED vars
  BY <1>2 DEF vars, OwnerInv, Orderly, OneHolder, HolderKnows, Holds, Role
<1> QED
  BY <1>1, <1>2, EnvironmentOwner DEF Next

LEMMA OwnerInvariant ==
  ASSUME HardResets = FALSE
  PROVE  Spec => [](TypeInv /\ OwnerInv)
  BY TypeInit, TypeNext, OwnerInit, OwnerNext, PTL DEF Spec

-----------------------------------------------------------------------------
(* The theorems.                                                           *)

LEMMA ServingIsHolding ==
  ASSUME TypeInv, NEW w \in Workers, NEW p \in Users, Serving(w, p)
  PROVE  /\ frame[w].cl = p /\ Role(w) \in {"serving", "dc_close", "dc_free"}
         /\ Role(w) = "dc_free" => pc[w] = "dc_free"
  BY DEF Serving, Role, ServingLabels, HoldingLabels, PacketLabels, BeatLabels

(* WorkerThread re-arms a receive only at its very end, and only then may  *)
(* another worker take the connection: no two workers ever serve the same  *)
(* client, and the slot they serve stays the client's, for any number of   *)
(* workers and users.                                                      *)
THEOREM OneOwnerHolds ==
  ASSUME HardResets = FALSE
  PROVE  Spec => []OneOwner
<1>1. TypeInv /\ OwnerInv => OneOwner
  <2> SUFFICES ASSUME TypeInv, OwnerInv, NEW p \in Users
      PROVE  /\ recv[p] <= 1
             /\ \A w \in Workers : Serving(w, p) =>
                  /\ recv[p] = 0 /\ bConnected[p]
                  /\ pc[w] # "dc_free" => open[p]
                  /\ \A v \in Workers : Serving(v, p) => v = w
    BY DEF OneOwner
  <2>1. recv[p] <= 1
    BY DEF OwnerInv, Orderly
  <2>2. ASSUME NEW w \in Workers, Serving(w, p)
        PROVE  /\ recv[p] = 0 /\ bConnected[p]
               /\ pc[w] # "dc_free" => open[p]
               /\ \A v \in Workers : Serving(v, p) => v = w
    BY <2>2, ServingIsHolding DEF OwnerInv, OneHolder, HolderKnows, Holds, Threads
  <2> QED
    BY <2>1, <2>2
<1> QED
  BY <1>1, OwnerInvariant, PTL

(* While no connection is reset, neither a worker nor the accept thread is *)
(* ever lost in error_display.                                             *)
THEOREM NoThreadEverHangs ==
  ASSUME HardResets = FALSE
  PROVE  Spec => []NoThreadHangs
<1>1. OwnerInv => NoThreadHangs
  BY DEF OwnerInv, HolderKnows, NoThreadHangs, Role, HoldingLabels
<1> QED
  BY <1>1, OwnerInvariant, PTL

(* DisconnectClient frees a slot only when its own client has gone.        *)
THEOREM OnlyTheGoneAreDropped ==
  ASSUME HardResets = FALSE
  PROVE  Spec => DroppedOnlyWhenGone
<1>1. TypeInv /\ OwnerInv /\ [Next]_vars
      => [\A p \in Users : bConnected[p] /\ ~bConnected'[p] => peer[p] # "up"]_vars
  <2> SUFFICES ASSUME TypeInv, OwnerInv, Next, NEW p \in Users, bConnected[p], ~bConnected'[p]
      PROVE  peer[p] # "up"
    BY DEF vars
  <2>1. PICK t \in Threads : ThreadStep(t)
    BY DEF Next, EnvironmentStep, TimerFires, PeerFin, PeerReset, slots
  <2>2. CASE HeartBeatStep(t)
    BY <2>2, HeartBeatRole
  <2>3. CASE t = Acceptor /\ AcceptStep(t)
    <3>1. bConnected' = bConnected \/ \E q \in Users : bConnected' = [bConnected EXCEPT ![q] = TRUE]
      BY <2>3, FrameFields DEF TypeInv, LocalInv, AcceptStep, Accept, AcClear, AcOpen, AcConnect, AcLive,
         AcRecv, AcSelf, AcScan, AcSee, AcPeer, AcPeerPut, AcMerge, slots, Cl
    <3> QED
      BY <3>1, UsersAreObjects DEF TypeInv, SharedType
  <2>4. CASE t \in Workers /\ WorkerStep(t)
    <3>1. bConnected' = bConnected \/ DcFree(t)
      BY <2>4, PacketRole DEF WorkerStep, RecvData, RecvEof, LostCompletion, AbortedCompletion,
         DoAi, Parse, Rearm, DcClose, DcDead, DcScan, DcRemove, slots
    <3>2. DcFree(t) /\ frame[t].cl = p
      BY <3>1, UsersAreObjects DEF DcFree, Cl, TypeInv, SharedType
    <3>3. Role(t) = "dc_free"
      BY <3>2 DEF DcFree, Role, HoldingLabels
    <3> QED
      BY <3>2, <3>3 DEF OwnerInv, HolderKnows
  <2> QED
    BY <2>1, <2>2, <2>3, <2>4 DEF ThreadStep
<1> QED
  BY <1>1, OwnerInvariant, PTL DEF Spec, DroppedOnlyWhenGone

-----------------------------------------------------------------------------
(* The refinement of SlotLife.                                             *)

StageOf(role) ==
  IF role \in JoinRoles THEN "joining" ELSE IF role \in LeaveRoles THEN "leaving" ELSE "serving"

(* The refinement mapping, read off the holder.                            *)
HolderStage(p) ==
  /\ recv[p] > 0 => SlotStage[p] = "waiting"
  /\ \A t \in Threads : Holds(t) /\ frame[t].cl = p => SlotStage[p] = StageOf(Role(t))
  /\ recv[p] = 0 /\ (\A t \in Threads : Holds(t) => frame[t].cl # p) => SlotStage[p] = "free"

LEMMA StagesFollow == TypeInv /\ OwnerInv => \A p \in Users : HolderStage(p)
<1> SUFFICES ASSUME TypeInv, OwnerInv, NEW p \in Users  PROVE HolderStage(p)
  OBVIOUS
<1> DEFINE Held(t) == Holds(t) /\ frame[t].cl = p
           Served == \E w \in Workers : Serving(w, p) /\ ~Leaving(w, p)
           Left   == \E w \in Workers : Leaving(w, p)
<1>1. SlotStage[p] = CASE Joining(p)  -> "joining"
                       [] recv[p] > 0 -> "waiting"
                       [] Left        -> "leaving"
                       [] Served      -> "serving"
                       [] OTHER       -> "free"
  BY DEF SlotStage
<1>2. Acceptor \in Threads /\ \A w \in Workers : w \in Threads /\ w # Acceptor
  BY ThreadsAssumption DEF Threads
<1>3. Joining(p) <=> Held(Acceptor) /\ Role(Acceptor) \in JoinRoles
  BY DEF Joining, Holds, Role, JoinRoles, HoldingLabels, ServingLabels, PacketLabels, BeatLabels
<1>4. ASSUME NEW t \in Threads, Holds(t)
      PROVE  /\ t = Acceptor => Role(t) \in JoinRoles
             /\ t # Acceptor => t \in Workers /\ Role(t) \in LeaveRoles \cup {"serving"}
  <2>1. pc[t] \in CodeOf(t) /\ Role(t) # "hung"
        /\ (t = Acceptor /\ pc[t] \in BeatLabels => beat[t].back = "ac_see")
    BY DEF TypeInv, LocalInv, PlaceOK, OwnerInv, HolderKnows
  <2>2. CASE t = Acceptor
    BY <1>4, <2>1, <2>2 DEF CodeOf, AcceptLabels, Holds, Role, JoinRoles, HoldingLabels, ServingLabels,
       PacketLabels, BeatLabels
  <2>3. CASE t # Acceptor
    BY <1>4, <2>1, <2>3 DEF CodeOf, WorkerLabels, CloseLabels, Holds, Role, LeaveRoles, HoldingLabels,
       ServingLabels, PacketLabels, BeatLabels, Threads
  <2> QED
    BY <2>2, <2>3
<1>5. ASSUME NEW w \in Workers
      PROVE  /\ Leaving(w, p) <=> Held(w) /\ Role(w) \in LeaveRoles
             /\ Serving(w, p) /\ ~Leaving(w, p) <=> Held(w) /\ Role(w) = "serving"
  BY DEF Leaving, Serving, Holds, Role, LeaveRoles, HoldingLabels, ServingLabels, PacketLabels, BeatLabels
<1>6. ASSUME NEW t \in Threads, Held(t)
      PROVE  recv[p] = 0 /\ \A u \in Threads : Held(u) => u = t
  BY <1>6 DEF OwnerInv, OneHolder
<1> HIDE DEF Served, Left
<1>7. ASSUME recv[p] > 0  PROVE SlotStage[p] = "waiting"
  <2>1. ~Joining(p) /\ ~Left /\ ~Served
    BY <1>2, <1>3, <1>5, <1>6, <1>7 DEF Left, Served
  <2> QED
    BY <1>1, <1>7, <2>1
<1>8. ASSUME NEW t \in Threads, Held(t)  PROVE SlotStage[p] = StageOf(Role(t))
  <2>1. CASE t = Acceptor
    <3>1. Joining(p) /\ Role(t) \in JoinRoles
      BY <1>3, <1>4, <1>8, <2>1
    <3>2. recv[p] = 0 /\ ~Left /\ ~Served
      BY <1>2, <1>5, <1>6, <1>8, <2>1 DEF Left, Served
    <3> QED
      BY <1>1, <3>1, <3>2 DEF StageOf
  <2>2. CASE t # Acceptor
    <3>1. ~Joining(p) /\ ~(recv[p] > 0)
      BY <1>2, <1>3, <1>6, <1>8, <2>2
    <3>2. t \in Workers /\ Role(t) \in LeaveRoles \cup {"serving"}
      BY <1>4, <1>8, <2>2
    <3>3. CASE Role(t) \in LeaveRoles
      <4>1. Left /\ ~Served
        BY <1>2, <1>5, <1>6, <1>8, <3>2, <3>3 DEF Left, Served, LeaveRoles
      <4> QED
        BY <1>1, <3>1, <3>3, <4>1 DEF StageOf, JoinRoles, LeaveRoles
    <3>4. CASE Role(t) = "serving"
      <4>1. ~Left /\ Served
        BY <1>2, <1>5, <1>6, <1>8, <3>2, <3>4 DEF Left, Served, LeaveRoles
      <4> QED
        BY <1>1, <3>1, <3>4, <4>1 DEF StageOf, JoinRoles, LeaveRoles
    <3> QED
      BY <3>2, <3>3, <3>4
  <2> QED
    BY <2>1, <2>2
<1>9. ASSUME recv[p] = 0, \A t \in Threads : Holds(t) => frame[t].cl # p
      PROVE  SlotStage[p] = "free"
  <2>1. ~Joining(p) /\ ~Left /\ ~Served
    BY <1>2, <1>3, <1>5, <1>9 DEF Left, Served
  <2> QED
    BY <1>1, <1>9, <2>1
<1> QED
  BY <1>7, <1>8, <1>9 DEF HolderStage

LEMMA StagesKept ==
  ASSUME TypeInv, NEW p \in Users, HolderStage(p), HolderStage(p)', recv'[p] = recv[p],
         \A t \in Threads : Holds(t)' /\ frame'[t].cl = p <=> Holds(t) /\ frame[t].cl = p,
         \A t \in Threads : Holds(t) /\ frame[t].cl = p => Role(t)' = Role(t)
  PROVE  SlotStage'[p] = SlotStage[p]
<1>1. recv[p] \in Nat
  BY DEF TypeInv, SharedType
<1> QED
  BY <1>1 DEF HolderStage

LEMMA SlotStep ==
  ASSUME TypeInv, OwnerInv, NEW t \in Threads, OnlySelf(t), NEW p \in Users, Passes(t, p),
         \A q \in Users : HolderStage(q), \A q \in Users : HolderStage(q)'
  PROVE  [Life!SlNext]_SlotStage
<1>1. \A q \in Users \ {p} : SlotStage'[q] = SlotStage[q]
  <2> TAKE q \in Users \ {p}
  <2>1. recv'[q] = recv[q]
    BY DEF Passes, Touches
  <2>2. ASSUME NEW u \in Threads
        PROVE  /\ Holds(u)' /\ frame'[u].cl = q <=> Holds(u) /\ frame[u].cl = q
               /\ Holds(u) /\ frame[u].cl = q => Role(u)' = Role(u)
    <3>1. CASE u = t
      BY <3>1 DEF Passes, Leaves
    <3>2. CASE u # t
      BY <3>2, OthersSameRole DEF Holds
    <3> QED
      BY <3>1, <3>2
  <2> QED
    BY <2>1, <2>2, StagesKept
<1>2. SlotStage' = [SlotStage EXCEPT ![p] = SlotStage'[p]]
  <2> DEFINE S == [q \in Users |-> SlotStage[q]]
             T == [q \in Users |-> SlotStage'[q]]
  <2>1. SlotStage = S
    BY DEF SlotStage
  <2>2. SlotStage' = T
    BY DEF SlotStage
  <2>3. T = [S EXCEPT ![p] = SlotStage'[p]]
    BY <1>1
  <2> QED
    BY <2>1, <2>2, <2>3
<1>3. HolderStage(p) /\ HolderStage(p)' /\ recv'[p] \in {0, 1}
  BY DEF Passes, Leaves
<1>4. /\ Holds(t) => SlotStage[p] = StageOf(Role(t))
      /\ Holds(t)' => SlotStage'[p] = StageOf(Role(t)')
      /\ recv[p] > 0 => SlotStage[p] = "waiting"
      /\ recv'[p] = 1 => SlotStage'[p] = "waiting"
  BY <1>3 DEF HolderStage, Passes, Leaves
<1>5. recv[p] = 0 /\ ~Holds(t) => SlotStage[p] = "free"
  BY <1>3 DEF HolderStage, Passes, HoldsAlone
<1>6. recv'[p] = 0 /\ ~Holds(t)' => SlotStage'[p] = "free"
  <2> SUFFICES ASSUME ~Holds(t)', NEW u \in Threads, Holds(u)', frame'[u].cl = p  PROVE FALSE
    BY <1>3 DEF HolderStage
  <2>1. u # t
    OBVIOUS
  <2>2. Holds(u) /\ frame[u].cl = p
    BY <2>1, OthersSameRole DEF Holds
  <2> QED
    BY <2>1, <2>2 DEF Passes, HoldsAlone
<1> USE DEF Holds, StageOf, JoinRoles, LeaveRoles, Life!SlNext, Life!Pass
<1>7. CASE ~Holds(t) /\ recv[p] > 0 /\ Role(t)' \in {"serving", "dc_close"}
  BY <1>2, <1>4, <1>7 DEF Life!Serve, Life!Drop
<1>8. CASE ~Holds(t) /\ recv[p] = 0 /\ recv'[p] = 0 /\ Role(t)' \in JoinRoles /\ t = Acceptor
  <2>1. ASSUME NEW q \in Users  PROVE SlotStage[q] # "joining"
    <3>1. ASSUME NEW u \in Threads, Holds(u)  PROVE Role(u) \notin JoinRoles
      <4>1. u # Acceptor
        BY <1>8, <3>1
      <4> QED
        BY <4>1 DEF TypeInv, LocalInv, CodeOf, WorkerLabels, PacketLabels, CloseLabels, BeatLabels, Role,
                    HoldingLabels
    <3>2. HolderStage(q) /\ recv[q] \in Nat
      BY DEF TypeInv, SharedType
    <3> QED
      BY <3>1, <3>2 DEF HolderStage
  <2> QED
    BY <1>2, <1>4, <1>5, <1>8, <2>1 DEF Life!Take
<1>9. CASE \/ Role(t) \in JoinRoles /\ Role(t)' \in JoinRoles /\ recv'[p] = 0
           \/ Role(t) \in LeaveRoles /\ Role(t)' \in LeaveRoles /\ recv'[p] = 0
  <2>1. SlotStage'[p] = SlotStage[p]
    BY <1>4, <1>9
  <2>2. SlotStage' = SlotStage
    BY <1>1, <2>1 DEF SlotStage
  <2> QED
    BY <2>2
<1>10. CASE Role(t) \in JoinRoles \cup {"serving"} /\ recv'[p] = 1
  BY <1>2, <1>4, <1>10 DEF Life!Post, Life!Repost
<1>11. CASE Role(t) \in LeaveRoles /\ ~Holds(t)' /\ recv'[p] = 0
  BY <1>2, <1>4, <1>6, <1>11 DEF Life!Free
<1> QED
  BY <1>7, <1>8, <1>9, <1>10, <1>11 DEF Passes, Handover

Stages == \A p \in Users : HolderStage(p)

LEMMA StagesNext ==
  ASSUME HardResets = FALSE
  PROVE  TypeInv /\ OwnerInv /\ Stages /\ Stages' /\ [Next]_vars => [Life!SlNext]_SlotStage
<1> SUFFICES ASSUME TypeInv, OwnerInv, Stages, Stages', [Next]_vars
    PROVE  [Life!SlNext]_SlotStage
  OBVIOUS
<1>1. ASSUME NEW t \in Threads, ThreadStep(t)  PROVE [Life!SlNext]_SlotStage
  <2>1. OnlySelf(t)
    BY <1>1, ThreadOwner
  <2>2. CASE Keeps(t)
    <3>1. ASSUME NEW u \in Threads
          PROVE  Role(u)' = Role(u) /\ (Holds(u) => frame'[u].cl = frame[u].cl)
      BY <2>1, <2>2, OthersSameRole DEF Keeps, SameRole
    <3>2. recv' = recv
      BY <2>2 DEF Keeps, net
    <3>3. ASSUME NEW p \in Users  PROVE SlotStage'[p] = SlotStage[p]
      BY <3>1, <3>2, StagesKept DEF Stages, Holds
    <3> QED
      BY <3>3 DEF SlotStage
  <2>3. ASSUME NEW p \in Users, Passes(t, p)  PROVE [Life!SlNext]_SlotStage
    BY <2>1, <2>3, SlotStep DEF Stages
  <2> QED
    BY <1>1, <2>2, <2>3, ThreadOwner
<1>2. CASE UNCHANGED <<pc, frame, beat, recv>>
  BY <1>2 DEF SlotStage, Joining, Leaving, Serving
<1> QED
  BY <1>1, <1>2 DEF Next, EnvironmentStep, TimerFires, PeerFin, PeerReset, vars, net

(* While no connection is reset, the server implements SlotLife: every     *)
(* slot is free, joining, waiting, served or leaving, and only passes from *)
(* one to the next, however many threads there are and however they        *)
(* interleave.                                                             *)
THEOREM SlotsAreOrderly ==
  ASSUME HardResets = FALSE
  PROVE  Spec => SlotsLiveOrderly
<1>1. Init => Life!SlInit
  <2> SUFFICES ASSUME Init  PROVE Life!SlInit
    OBVIOUS
  <2>1. TypeInv /\ OwnerInv
    BY TypeInit, OwnerInit
  <2>2. ASSUME NEW p \in Users  PROVE SlotStage[p] = "free"
    <3>1. \A t \in Threads : Role(t) = "none"
      BY DEF Init, Role, HoldingLabels, ServingLabels, PacketLabels, BeatLabels
    <3>2. HolderStage(p) /\ recv[p] = 0
      BY <2>1, StagesFollow DEF Init
    <3> QED
      BY <3>1, <3>2 DEF HolderStage, Holds
  <2> QED
    BY <2>2 DEF Life!SlInit, SlotStage
<1>2. TypeInv /\ OwnerInv => Stages
  BY StagesFollow DEF Stages
<1> QED
  BY <1>1, <1>2, StagesNext, OwnerInvariant, PTL DEF Spec, SlotsLiveOrderly, Life!SlSpec
=============================================================================
