----------------------------- MODULE ServerState -----------------------------
(***************************************************************************)
(* The shared and the thread-local state of the 2017Server game server     *)
(* (the program 2017Server.vcxproj builds), and the primitive operations   *)
(* on it that every handler uses: stepping a thread, sending a packet,     *)
(* pushing a timer.  The handlers are in HeartBeat, PlayerPacket and       *)
(* Session; ViewServer composes them.                                      *)
(*                                                                         *)
(* A step of the model is one access to shared memory, or one whole        *)
(* critical section of a vl_lock (the code never holds two locks and never *)
(* blocks inside one), or one send.  Memory is sequentially consistent.    *)
(***************************************************************************)
EXTENDS World

CONSTANTS
  Workers,      \* the threads that run WorkerThread (main starts 6)
  Acceptor,     \* the thread that runs AcceptThread
  HardResets,   \* BOOLEAN: may a connection end in error 64 (a reset)?
  RecvPackets,  \* bound: packets completed by one receive
  LostSends,    \* bound: sends still outstanding when a connection is reset
  QueueCap,     \* bound: equal entries counted in a completion or timer queue
  NpcOverrun    \* bound: cells beyond an edge from which an NPC no longer draws
                \*        a step outwards (the code has no such bound)

ASSUME ThreadsAssumption == Acceptor \notin Workers

ASSUME BoundsAssumption ==
  /\ HardResets \in BOOLEAN
  /\ RecvPackets \in Nat /\ LostSends \in Nat /\ NpcOverrun \in Nat
  /\ QueueCap \in Nat \ {0}

Threads == Workers \cup {Acceptor}

VARIABLES
  x, y,         \* gclients[o].x, gclients[o].y
  bConnected,   \* gclients[o].bConnected
  bIsAlive,     \* gclients[o].bIsAlive
  bIsActive,    \* gclients[o].bIsActive
  view_list,    \* gclients[p].view_list
  open,         \* is gclients[p].s a socket that has not been closed here?
  peer,         \* the remote end of that socket: "up", "fin" or "rst"
  recv,         \* receives posted on it that have not completed
  lost,         \* queued completions with key p and error 64
  aborted,      \* queued completions with key p and another error
  timer_queue,  \* entries of timer_queue, by object
  posted,       \* queued E_DOAI completions, by object
  shown,        \* what the client of slot p displays once it has read all
                \* that was sent to it: Put adds an object, Remove deletes it
  pc,           \* where each thread is
  frame,        \* locals of ProcessPacket, DisconnectClient, AcceptThread
  beat          \* locals of HEART_BEAT

board == <<x, y>>
slots == <<bConnected, bIsAlive, bIsActive>>
net   == <<open, peer, recv, lost, aborted>>
ai    == <<timer_queue, posted>>
vars  == <<x, y, bConnected, bIsAlive, bIsActive, view_list, open, peer, recv,
           lost, aborted, timer_queue, posted, shown, pc, frame, beat>>

-----------------------------------------------------------------------------
(* Thread-local state.                                                     *)
(*   cl    the slot being served           left  packets still in the buffer*)
(*   idx   index of the running for loop   seen  new_view_list, locallist   *)
(*   ovl   copy of the old view list       todo  rest of a range-for        *)
(*   id    element of the range-for        again DisconnectClient once more *)

NoFrame == [cl |-> 0, left |-> 0, idx |-> 0, seen |-> {}, ovl |-> {},
            todo |-> {}, id |-> 0, again |-> FALSE]

(*   npc   HEART_BEAT's argument           dir   rand() % 4                 *)
(*   tmp   the coordinate as loaded        pi    index of the user loops    *)
(*   back  where HEART_BEAT returns to                                      *)

NoBeat == [npc |-> 0, dir |-> 0, tmp |-> 0, pi |-> 0, back |-> "gqcs"]

BeatLabels == {"hb_load", "hb_store", "hb_clamp", "hb_view", "hb_near", "hb_far",
               "hb_put", "hb_remove", "hb_alive", "hb_revive", "hb_push"}

PacketLabels == {"pp_move", "pp_scan", "pp_copy", "pp_each", "pp_put", "pp_peer",
                 "pp_peer_put", "pp_old", "pp_remove", "pp_unsee",
                 "pp_peer_remove", "pp_merge"}

CloseLabels == {"dc_close", "dc_free", "dc_dead", "dc_scan", "dc_remove"}

WorkerLabels == {"gqcs", "parse", "rearm"} \cup PacketLabels \cup CloseLabels

AcceptLabels == {"accept", "ac_clear", "ac_open", "ac_connect", "ac_live",
                 "ac_recv", "ac_self", "ac_scan", "ac_see", "ac_peer",
                 "ac_peer_put", "ac_merge"}

Goto(t, label) == pc' = [pc EXCEPT ![t] = label]

Idle(t) == pc[t] \in {"gqcs", "accept"}

-----------------------------------------------------------------------------
(* Shared operations.                                                      *)

IsNear(from, to) == Within(x[from] - x[to], y[from] - y[to])

See(p, o)   == view_list' = [view_list EXCEPT ![p] = @ \cup {o}]
Unsee(p, o) == view_list' = [view_list EXCEPT ![p] = @ \ {o}]

(* A send to a slot whose socket is closed fails, and the code ignores it. *)
SendPutPlayerPacket(to, o) ==
  shown' = [shown EXCEPT ![to] = IF open[to] THEN @ \cup {o} ELSE @]

SendRemovePlayerPacket(to, o) ==
  shown' = [shown EXCEPT ![to] = IF open[to] THEN @ \ {o} ELSE @]

(* A queue keeps at most QueueCap equal entries; further ones are merged.  *)
Capped(n) == IF n > QueueCap THEN QueueCap ELSE n

(* WakeUpNPC, up to the call of HEART_BEAT: `back` is where it returns.    *)
EnterHeartBeat(t, n, back) ==
  /\ beat' = [beat EXCEPT ![t] = [NoBeat EXCEPT !.npc = n, !.back = back]]
  /\ Goto(t, "hb_load")

WakeUpNPC(t, n, back) ==
  IF bIsActive[n]
    THEN Goto(t, back) /\ UNCHANGED beat
    ELSE EnterHeartBeat(t, n, back)
=============================================================================
