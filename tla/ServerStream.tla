----------------------------- MODULE ServerStream -----------------------------
(***************************************************************************)
(* The reassembly of packets in a server's WorkerThread, for one slot: the *)
(* bytes of a receive are cut into packets, and what remains waits in      *)
(* packet_buf for the next receive, perhaps on another thread.  The same   *)
(* loop is in IOCPServer_2017.  That of server_main.cpp tests another      *)
(* variable: StaleTest.                                                    *)
(***************************************************************************)
EXTENDS Integers

CONSTANTS
  Sizes,      \* the sizes of the packets the clients send
  MaxStream,  \* bound: bytes sent on one connection
  MaxBuff,    \* MAX_BUFF_SIZE: bytes one receive can hold
  MaxPacket,  \* MAX_PACKET_SIZE: length of packet_buf
  StaleTest   \* BOOLEAN: the test of server_main.cpp

ASSUME SizesAssumption ==
  /\ MaxPacket \in Nat /\ Sizes \subseteq 1 .. MaxPacket
  /\ MaxStream \in Nat /\ MaxBuff \in Nat \ {0} /\ StaleTest \in BOOLEAN

VARIABLES
  size, tail,         \* what the remote end has sent, as in PacketStream
  taken,              \* bytes received so far
  at,                 \* "recv": a receive is posted; "loop": in the loop
  buf_ptr,            \* the stream position that buf_ptr points at
  to_process,         \* bytes of this receive left to process
  psize, pr_size,     \* the loop's locals
  curr_packet_size, prev_recv_size,  \* the slot's: kept from receive to receive
  packet_buf,         \* the slot's: the bytes of an unfinished packet
  packet              \* what ProcessPacket was last called with

sent   == <<size, tail>>
saved  == <<curr_packet_size, prev_recv_size>>
locals == <<buf_ptr, to_process, psize, pr_size>>
vars   == <<sent, taken, at, locals, saved, packet_buf, packet>>

Positions == 0 .. MaxStream

(* Byte i after buf_ptr: past the end of what was received, IOCP_buf holds *)
(* bytes of an earlier receive.                                            *)
Stale == -1
Byte(i) == IF buf_ptr + i < taken THEN buf_ptr + i ELSE Stale

(* The value of the byte at buf_ptr.  One that does not begin a packet may *)
(* have any value.                                                         *)
Heads == IF buf_ptr < taken /\ size[buf_ptr] > 0 THEN {size[buf_ptr]} ELSE Sizes

Init ==
  /\ size = [p \in Positions |-> 0] /\ tail = 0 /\ taken = 0 /\ at = "recv"
  /\ buf_ptr = 0 /\ to_process = 0 /\ psize = 0 /\ pr_size = 0
  /\ curr_packet_size = 0 /\ prev_recv_size = 0
  /\ packet_buf = [j \in 0 .. MaxPacket - 1 |-> Stale]
  /\ packet = [j \in {} |-> 0]

(* The remote end sends a packet.                                          *)
Send(s) ==
  /\ tail + s <= MaxStream
  /\ size' = [size EXCEPT ![tail] = s]
  /\ tail' = tail + s
  /\ UNCHANGED <<taken, at, locals, saved, packet_buf, packet>>

(* A receive completes with any part of what has been sent.                *)
Receive(n) ==
  /\ at = "recv" /\ n <= tail - taken
  /\ at' = "loop"
  /\ buf_ptr' = taken /\ to_process' = n /\ taken' = taken + n
  /\ psize' = curr_packet_size /\ pr_size' = prev_recv_size
  /\ UNCHANGED <<sent, saved, packet_buf, packet>>

(* The comparison without the equality.                                    *)
FitsStrictly(ps) == ps < to_process + (IF StaleTest THEN prev_recv_size ELSE pr_size)

(* psize <= to_process + pr_size: the packet is whole.                     *)
Fits(ps) == ps <= to_process + (IF StaleTest THEN prev_recv_size ELSE pr_size)

PSizes == IF psize = 0 THEN Heads ELSE {psize}

(* pr_size is not reset after a packet.                                    *)
WholePacketNoReset ==
  /\ at = "loop" /\ to_process # 0
  /\ \E ps \in PSizes :
       /\ Fits(ps)
       /\ packet' = [j \in 0 .. ps - 1 |-> IF j < pr_size THEN packet_buf[j] ELSE Byte(j - pr_size)]
       /\ to_process' = to_process - (ps - pr_size)
       /\ buf_ptr' = buf_ptr + (ps - pr_size)
  /\ psize' = 0
  /\ UNCHANGED <<sent, taken, at, pr_size, saved, packet_buf>>

WholePacket ==
  /\ at = "loop" /\ to_process # 0
  /\ \E ps \in PSizes :
       /\ Fits(ps)
       /\ packet' = [j \in 0 .. ps - 1 |-> IF j < pr_size THEN packet_buf[j] ELSE Byte(j - pr_size)]
       /\ to_process' = to_process - (ps - pr_size)
       /\ buf_ptr' = buf_ptr + (ps - pr_size)
  /\ psize' = 0 /\ pr_size' = 0
  /\ UNCHANGED <<sent, taken, at, saved, packet_buf>>

Fragment ==
  /\ at = "loop" /\ to_process # 0
  /\ \E ps \in PSizes : ~Fits(ps) /\ psize' = ps
  /\ packet_buf' = [j \in DOMAIN packet_buf |->
       IF j \in pr_size .. pr_size + to_process - 1 THEN Byte(j - pr_size) ELSE packet_buf[j]]
  /\ pr_size' = pr_size + to_process
  /\ buf_ptr' = buf_ptr + to_process
  /\ to_process' = 0
  /\ UNCHANGED <<sent, taken, at, saved, packet>>

(* The slot keeps what the loop left, and the next receive is posted.      *)
LoopEnd ==
  /\ at = "loop" /\ to_process = 0
  /\ curr_packet_size' = psize /\ prev_recv_size' = pr_size
  /\ at' = "recv"
  /\ UNCHANGED <<sent, taken, locals, packet_buf, packet>>

(* The accept thread gives the slot to a new client as it is.              *)
ReconnectAsItIs ==
  /\ at = "recv"
  /\ size' = [p \in Positions |-> 0] /\ tail' = 0 /\ taken' = 0
  /\ UNCHANGED <<at, locals, saved, packet_buf, packet>>

(* The connection ends between two receives, wherever it was in a packet;  *)
(* the accept thread gives the slot to a new client.                       *)
Reconnect ==
  /\ at = "recv"
  /\ size' = [p \in Positions |-> 0] /\ tail' = 0 /\ taken' = 0
  /\ curr_packet_size' = 0 /\ prev_recv_size' = 0
  /\ UNCHANGED <<at, locals, packet_buf, packet>>

Loop == WholePacket \/ Fragment \/ LoopEnd

Next ==
  \/ \E s \in Sizes : Send(s)
  \/ \E n \in 1 .. MaxBuff : Receive(n)
  \/ Loop
  \/ Reconnect

Spec == Init /\ [][Next]_vars

(* The network brings what was sent, and the worker stays in its loop.     *)
Fairness == WF_vars(\E n \in 1 .. MaxBuff : Receive(n)) /\ WF_vars(Loop)

LiveSpec == Spec /\ Fairness

-----------------------------------------------------------------------------
(* What the slot holds of an unfinished packet, and the size it will have; *)
(* 0 when nothing waits.                                                   *)
Held   == IF at = "loop" THEN pr_size ELSE prev_recv_size
Awaits == IF at = "loop" THEN psize ELSE curr_packet_size

(* The first byte not yet handed over.                                     *)
First == (IF at = "loop" THEN buf_ptr ELSE taken) - Held

Stream == INSTANCE PacketStream WITH next <- First

(* However the network cuts the stream into receives, ProcessPacket is     *)
(* called with the packets that were sent, whole, once each and in order,  *)
(* and a new connection starts with none of the last one's bytes.          *)
DeliversInOrder == Stream!StreamSpec

(* And every packet is handed over at last, or its connection ends.        *)
DeliversAll == Stream!StreamLiveSpec

(* What the loop copies stays inside its buffers: it never counts past the *)
(* bytes of the receive, and packet_buf holds the beginning of one packet, *)
(* less than the whole of it, in the order it was sent.                    *)
KeepsTheFragment ==
  /\ at = "loop" => to_process \in 0 .. taken - buf_ptr
  /\ IF Awaits = 0 THEN Held = 0 ELSE Held < Awaits /\ Awaits = size[First]
  /\ \A j \in 0 .. Held - 1 : packet_buf[j] = First + j

(* "to_process is what was received now and prev_recv_size what was        *)
(* received last time", says a comment at the test: a packet is handed     *)
(* over once the two together hold it, so all its bytes have arrived.      *)
OnlyReceivedBytes == \A j \in DOMAIN packet : packet[j] # Stale
=============================================================================
