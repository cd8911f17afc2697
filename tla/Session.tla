------------------------------- MODULE Session -------------------------------
(***************************************************************************)
(* The life of a connection: AcceptThread gives it a slot, WorkerThread    *)
(* takes its completions one by one, DisconnectClient frees the slot; and  *)
(* what the remote ends and the timer thread put into the queues.          *)
(***************************************************************************)
EXTENDS PlayerPacket

-----------------------------------------------------------------------------
(* WorkerThread: one completion from GetQueuedCompletionStatus.  Send      *)
(* completions only free their buffer and are left out.                    *)

StartFrame(t, f) == frame' = [frame EXCEPT ![t] = f]

(* A receive that holds n whole packets (n = 0: a fragment).               *)
RecvData(t, p) ==
  /\ pc[t] = "gqcs" /\ recv[p] > 0 /\ peer[p] = "up"
  /\ \E n \in 0 .. RecvPackets : StartFrame(t, [NoFrame EXCEPT !.cl = p, !.left = n])
  /\ recv' = [recv EXCEPT ![p] = @ - 1]
  /\ Goto(t, "parse")
  /\ UNCHANGED <<board, slots, view_list, open, peer, lost, aborted, ai, shown, beat>>

(* A receive of 0 bytes: the remote end has closed.                        *)
RecvEof(t, p) ==
  /\ pc[t] = "gqcs" /\ recv[p] > 0 /\ peer[p] = "fin"
  /\ StartFrame(t, [NoFrame EXCEPT !.cl = p])
  /\ recv' = [recv EXCEPT ![p] = @ - 1]
  /\ Goto(t, "dc_close")
  /\ UNCHANGED <<board, slots, view_list, open, peer, lost, aborted, ai, shown, beat>>

(* Error 64: DisconnectClient runs, and runs again because io_size is 0.   *)
LostCompletion(t, p) ==
  /\ pc[t] = "gqcs" /\ lost[p] > 0
  /\ StartFrame(t, [NoFrame EXCEPT !.cl = p, !.again = TRUE])
  /\ lost' = [lost EXCEPT ![p] = @ - 1]
  /\ Goto(t, "dc_close")
  /\ UNCHANGED <<board, slots, view_list, open, peer, recv, aborted, ai, shown, beat>>

(* Any other error: error_display never returns.                           *)
AbortedCompletion(t, p) ==
  /\ pc[t] = "gqcs" /\ aborted[p] > 0
  /\ aborted' = [aborted EXCEPT ![p] = @ - 1]
  /\ Goto(t, "hung")
  /\ UNCHANGED <<board, slots, view_list, open, peer, recv, lost, ai, shown, frame, beat>>

DoAi(t, n) ==
  /\ pc[t] = "gqcs" /\ posted[n] > 0
  /\ posted' = [posted EXCEPT ![n] = @ - 1]
  /\ EnterHeartBeat(t, n, "gqcs")
  /\ UNCHANGED <<board, slots, view_list, net, timer_queue, shown, frame>>

(* The next receive is posted before the packets of this one are handled.  *)
ParsePostsFirst(t) ==
  /\ pc[t] = "parse"
  /\ recv' = [recv EXCEPT ![Cl(t)] = 1]
  /\ IF frame[t].left > 0
       THEN Goto(t, "pp_move") /\ frame' = [frame EXCEPT ![t].left = @ - 1]
       ELSE Goto(t, "gqcs") /\ StartFrame(t, NoFrame)
  /\ UNCHANGED <<board, slots, view_list, open, peer, lost, aborted, ai, shown, beat>>

(* The reassembly loop: the next whole packet, or the end of the buffer.   *)
Parse(t) ==
  /\ pc[t] = "parse"
  /\ IF frame[t].left > 0
       THEN Goto(t, "pp_move") /\ frame' = [frame EXCEPT ![t].left = @ - 1]
       ELSE Goto(t, "rearm") /\ UNCHANGED frame
  /\ UNCHANGED <<board, slots, view_list, net, ai, shown, beat>>

(* WSARecv again.  On a socket that is closed or reset it fails at once,   *)
(* and error_display never returns.                                        *)
CanPost(p) == open[p] /\ peer[p] # "rst"

(* The worker goes back to the queue without posting a receive.            *)
RearmForgotten(t) ==
  /\ pc[t] = "rearm"
  /\ Goto(t, "gqcs")
  /\ StartFrame(t, NoFrame)
  /\ UNCHANGED <<board, slots, view_list, net, ai, shown, beat>>

Rearm(t) ==
  /\ pc[t] = "rearm"
  /\ IF CanPost(Cl(t))
       THEN recv' = [recv EXCEPT ![Cl(t)] = @ + 1] /\ Goto(t, "gqcs")
       ELSE UNCHANGED recv /\ Goto(t, "hung")
  /\ StartFrame(t, NoFrame)
  /\ UNCHANGED <<board, slots, view_list, open, peer, lost, aborted, ai, shown, beat>>

-----------------------------------------------------------------------------
(* DisconnectClient.                                                       *)

(* closesocket aborts the receives that are still posted on the socket.    *)
DcClose(t) ==
  /\ pc[t] = "dc_close"
  /\ open' = [open EXCEPT ![Cl(t)] = FALSE]
  /\ aborted' = [aborted EXCEPT ![Cl(t)] = Capped(@ + recv[Cl(t)])]
  /\ recv' = [recv EXCEPT ![Cl(t)] = 0]
  /\ Goto(t, "dc_free")
  /\ UNCHANGED <<board, slots, view_list, peer, lost, ai, shown, frame, beat>>

DcFree(t) ==
  /\ pc[t] = "dc_free"
  /\ bConnected' = [bConnected EXCEPT ![Cl(t)] = FALSE]
  /\ Goto(t, "dc_dead")
  /\ UNCHANGED <<board, bIsAlive, bIsActive, view_list, net, ai, shown, frame, beat>>

(* The slot is freed and its object left alive.                            *)
DcDeadForgotten(t) ==
  /\ pc[t] = "dc_dead"
  /\ Goto(t, "dc_scan")
  /\ UNCHANGED <<board, slots, view_list, net, ai, shown, frame, beat>>

DcDead(t) ==
  /\ pc[t] = "dc_dead"
  /\ bIsAlive' = [bIsAlive EXCEPT ![Cl(t)] = FALSE]
  /\ Goto(t, "dc_scan")
  /\ UNCHANGED <<board, bConnected, bIsActive, view_list, net, ai, shown, frame, beat>>

(* Missing `continue` after DisconnectClient: on to the E_RECV branch.      *)
DcReturnFallsThrough(t) ==
  IF frame[t].again
    THEN StartFrame(t, [NoFrame EXCEPT !.cl = Cl(t)]) /\ Goto(t, "dc_close")
    ELSE StartFrame(t, [NoFrame EXCEPT !.cl = Cl(t)]) /\ Goto(t, "rearm")

(* Every lost connection is disconnected twice, as error 64 is.            *)
DcReturnTwice(t) ==
  IF frame[t].ovl = {}
    THEN StartFrame(t, [NoFrame EXCEPT !.cl = Cl(t), !.ovl = {0}]) /\ Goto(t, "dc_close")
    ELSE StartFrame(t, NoFrame) /\ Goto(t, "gqcs")

DcReturn(t) ==
  IF frame[t].again
    THEN StartFrame(t, [NoFrame EXCEPT !.cl = Cl(t)]) /\ Goto(t, "dc_close")
    ELSE StartFrame(t, NoFrame) /\ Goto(t, "gqcs")

(* The check of bConnected and the critical section are one step: a view   *)
(* list that is no longer in use may change in between, no other.          *)
DcScan(t) ==
  LET i == frame[t].idx
      listed == bConnected[i] /\ Cl(t) \in view_list[i]
  IN /\ pc[t] = "dc_scan"
     /\ \/ /\ i < MaxUser /\ listed
           /\ Unsee(i, Cl(t))
           /\ Goto(t, "dc_remove") /\ UNCHANGED frame
        \/ /\ i < MaxUser /\ ~listed
           /\ frame' = [frame EXCEPT ![t].idx = @ + 1]
           /\ UNCHANGED <<view_list, pc>>
        \/ /\ i = MaxUser
           /\ DcReturn(t) /\ UNCHANGED view_list
     /\ UNCHANGED <<board, slots, net, ai, shown, beat>>

(* The remove goes to the wrong one of the two clients.                    *)
DcRemoveSwapped(t) ==
  /\ pc[t] = "dc_remove"
  /\ SendRemovePlayerPacket(Cl(t), frame[t].idx)
  /\ frame' = [frame EXCEPT ![t].idx = @ + 1]
  /\ Goto(t, "dc_scan")
  /\ UNCHANGED <<board, slots, view_list, net, ai, beat>>

DcRemove(t) ==
  /\ pc[t] = "dc_remove"
  /\ SendRemovePlayerPacket(frame[t].idx, Cl(t))
  /\ frame' = [frame EXCEPT ![t].idx = @ + 1]
  /\ Goto(t, "dc_scan")
  /\ UNCHANGED <<board, slots, view_list, net, ai, beat>>

WorkerStep(t) ==
  \/ \E p \in Users : \/ RecvData(t, p) \/ RecvEof(t, p)
                      \/ LostCompletion(t, p) \/ AbortedCompletion(t, p)
  \/ \E n \in Objects : DoAi(t, n)
  \/ Parse(t) \/ Rearm(t)
  \/ DcClose(t) \/ DcFree(t) \/ DcDead(t) \/ DcScan(t) \/ DcRemove(t)
  \/ PacketStep(t)

-----------------------------------------------------------------------------
(* AcceptThread.  A connection that finds no free slot is closed at once   *)
(* and leaves no trace in the server.                                      *)

(* The slot is taken for free as soon as its socket is closed.             *)
FirstFreeBySocket(p) == ~open[p] /\ \A q \in Users : q < p => open[q]

FirstFree(p) == ~bConnected[p] /\ \A q \in Users : q < p => bConnected[q]

Accept(t, p) ==
  /\ pc[t] = "accept" /\ FirstFree(p)
  /\ StartFrame(t, [NoFrame EXCEPT !.cl = p])
  /\ Goto(t, "ac_clear")
  /\ UNCHANGED <<board, slots, view_list, net, ai, shown, beat>>

AcClear(t) ==
  /\ pc[t] = "ac_clear"
  /\ view_list' = [view_list EXCEPT ![Cl(t)] = {}]
  /\ Goto(t, "ac_open")
  /\ UNCHANGED <<board, slots, net, ai, shown, frame, beat>>

(* gclients[].s = sClient: from here on, sends reach the new client.       *)
AcOpen(t) ==
  /\ pc[t] = "ac_open"
  /\ open' = [open EXCEPT ![Cl(t)] = TRUE]
  /\ peer' = [peer EXCEPT ![Cl(t)] = "up"]
  /\ shown' = [shown EXCEPT ![Cl(t)] = {}]
  /\ Goto(t, "ac_connect")
  /\ UNCHANGED <<board, slots, view_list, recv, lost, aborted, ai, frame, beat>>

AcConnect(t) ==
  /\ pc[t] = "ac_connect"
  /\ bConnected' = [bConnected EXCEPT ![Cl(t)] = TRUE]
  /\ Goto(t, "ac_live")
  /\ UNCHANGED <<board, bIsAlive, bIsActive, view_list, net, ai, shown, frame, beat>>

AcLive(t) ==
  /\ pc[t] = "ac_live"
  /\ bIsAlive' = [bIsAlive EXCEPT ![Cl(t)] = TRUE]
  /\ Goto(t, "ac_recv")
  /\ UNCHANGED <<board, bConnected, bIsActive, view_list, net, ai, shown, frame, beat>>

(* The first receive: from here on a worker may serve the client.          *)
AcRecv(t) ==
  /\ pc[t] = "ac_recv"
  /\ IF CanPost(Cl(t))
       THEN recv' = [recv EXCEPT ![Cl(t)] = @ + 1] /\ Goto(t, "ac_self")
       ELSE UNCHANGED recv /\ Goto(t, "hung")
  /\ UNCHANGED <<board, slots, view_list, open, peer, lost, aborted, ai, shown, frame, beat>>

AcSelf(t) ==
  /\ pc[t] = "ac_self"
  /\ SendPutPlayerPacket(Cl(t), Cl(t))
  /\ Goto(t, "ac_scan")
  /\ UNCHANGED <<board, slots, view_list, net, ai, frame, beat>>

(* An NPC that is near is given a beat first, and stays in the list        *)
(* wherever the beat takes it.                                             *)
NextSlot(t) == frame' = [frame EXCEPT ![t].idx = @ + 1]

AcScan(t) ==
  LET i == frame[t].idx
      sees == i < NumOfNpc /\ bIsAlive[i] /\ i # Cl(t) /\ IsNear(i, Cl(t))
  IN /\ pc[t] = "ac_scan"
     /\ \/ /\ sees /\ isNPC(i)
           /\ WakeUpNPC(t, i, "ac_see") /\ UNCHANGED frame
        \/ /\ sees /\ ~isNPC(i)
           /\ Goto(t, "ac_see") /\ UNCHANGED <<frame, beat>>
        \/ /\ ~sees /\ i < NumOfNpc
           /\ NextSlot(t) /\ UNCHANGED <<pc, beat>>
        \/ /\ i = NumOfNpc
           /\ Goto(t, "ac_merge") /\ UNCHANGED <<frame, beat>>
     /\ UNCHANGED <<board, slots, view_list, net, ai, shown>>

AcSee(t) ==
  LET i == frame[t].idx
  IN /\ pc[t] = "ac_see"
     /\ frame' = [frame EXCEPT ![t].seen = @ \cup {i}]
     /\ SendPutPlayerPacket(Cl(t), i)
     /\ Goto(t, "ac_peer")
     /\ UNCHANGED <<board, slots, view_list, net, ai, beat>>

AcPeer(t) ==
  LET i == frame[t].idx
  IN /\ pc[t] = "ac_peer"
     /\ IF bConnected[i] /\ Cl(t) \notin view_list[i]
          THEN See(i, Cl(t)) /\ Goto(t, "ac_peer_put") /\ UNCHANGED frame
          ELSE NextSlot(t) /\ Goto(t, "ac_scan") /\ UNCHANGED view_list
     /\ UNCHANGED <<board, slots, net, ai, shown, beat>>

AcPeerPut(t) ==
  /\ pc[t] = "ac_peer_put"
  /\ SendPutPlayerPacket(frame[t].idx, Cl(t))
  /\ NextSlot(t) /\ Goto(t, "ac_scan")
  /\ UNCHANGED <<board, slots, view_list, net, ai, beat>>

AcMerge(t) ==
  /\ pc[t] = "ac_merge"
  /\ view_list' = [view_list EXCEPT ![Cl(t)] = @ \cup frame[t].seen]
  /\ StartFrame(t, NoFrame)
  /\ Goto(t, "accept")
  /\ UNCHANGED <<board, slots, net, ai, shown, beat>>

AcceptStep(t) ==
  \/ \E p \in Users : Accept(t, p)
  \/ AcClear(t) \/ AcOpen(t) \/ AcConnect(t) \/ AcLive(t) \/ AcRecv(t)
  \/ AcSelf(t) \/ AcScan(t) \/ AcSee(t) \/ AcPeer(t) \/ AcPeerPut(t) \/ AcMerge(t)

-----------------------------------------------------------------------------
(* TimerThread: a due entry becomes an E_DOAI completion.  Every entry is  *)
(* pushed for one second ahead and any pushed one may come due.            *)
TimerFires(n) ==
  /\ timer_queue[n] > 0
  /\ timer_queue' = [timer_queue EXCEPT ![n] = @ - 1]
  /\ posted' = [posted EXCEPT ![n] = Capped(@ + 1)]
  /\ UNCHANGED <<board, slots, view_list, net, shown, pc, frame, beat>>

(* The remote end closes its connection in good order, or it is reset:     *)
(* then the posted receives and up to LostSends sends complete with an     *)
(* error 64.                                                               *)
PeerFin(p) ==
  /\ open[p] /\ peer[p] = "up"
  /\ peer' = [peer EXCEPT ![p] = "fin"]
  /\ UNCHANGED <<board, slots, view_list, open, recv, lost, aborted, ai, shown,
                 pc, frame, beat>>

PeerReset(p) ==
  /\ HardResets /\ open[p] /\ peer[p] = "up"
  /\ peer' = [peer EXCEPT ![p] = "rst"]
  /\ \E k \in 0 .. LostSends : lost' = [lost EXCEPT ![p] = Capped(@ + recv[p] + k)]
  /\ recv' = [recv EXCEPT ![p] = 0]
  /\ UNCHANGED <<board, slots, view_list, open, aborted, ai, shown, pc, frame, beat>>
=============================================================================
