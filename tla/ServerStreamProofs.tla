-------------------------- MODULE ServerStreamProofs --------------------------
(***************************************************************************)
(* For every set of packet sizes, every buffer and every way the network   *)
(* cuts the stream, the loop of ServerStream hands over the packets that   *)
(* were sent, whole and in order.                                          *)
(***************************************************************************)
EXTENDS ServerStream, TLAPS

Types ==
  /\ size \in [Positions -> {0} \cup Sizes] /\ tail \in Positions /\ taken \in 0 .. tail
  /\ at \in {"recv", "loop"} /\ buf_ptr \in Int /\ to_process \in Int
  /\ psize \in {0} \cup Sizes /\ curr_packet_size \in {0} \cup Sizes
  /\ pr_size \in Nat /\ prev_recv_size \in Nat
  /\ DOMAIN packet_buf = 0 .. MaxPacket - 1

(* A packet begins at p, or will.                                          *)
Boundary(p) == p = tail \/ size[p] > 0

(* Packets follow one another without a gap, up to the tail.               *)
StreamWhole ==
  /\ \A p \in Positions : size[p] > 0 => p + size[p] <= tail /\ Boundary(p + size[p])
  /\ \A p \in Positions : p >= tail => size[p] = 0

(* The slot is at a packet's beginning, plus the part it holds.            *)
AtBoundary == First \in 0 .. tail /\ Boundary(First)

LoopCounts == at = "loop" => to_process >= 0 /\ buf_ptr + to_process = taken

Awaiting == IF Awaits = 0 THEN Held = 0 ELSE Held < Awaits /\ Awaits = size[First]

Content == \A j \in 0 .. Held - 1 : packet_buf[j] = First + j

StreamInv == Types /\ StreamWhole /\ AtBoundary /\ LoopCounts /\ Awaiting /\ Content

-----------------------------------------------------------------------------
(* A packet has at least its size byte, and fits packet_buf.               *)
LEMMA SizesArePositive == \A s \in Sizes : s \in Nat /\ s > 0 /\ s <= MaxPacket
  BY SizesAssumption

(* The invariant holds of the empty slot before its first connection.      *)
LEMMA StreamInvInit == Init => StreamInv
  BY SizesAssumption
  DEF Init, StreamInv, Types, StreamWhole, Boundary, AtBoundary, LoopCounts, Awaiting,
      Content, First, Held, Awaits, Positions

(* A packet that is sent begins at the tail, and moves nothing before it.  *)
LEMMA SendKeeps == ASSUME StreamInv, NEW s \in Sizes, Send(s) PROVE StreamInv'
<1>1. s \in 1 .. MaxPacket /\ s \in Nat /\ MaxStream \in Nat
  BY SizesAssumption
<1>2. Types'
  BY <1>1 DEF StreamInv, Types, Send, locals, saved, Positions
<1>3. \A p \in Positions : p # tail => size'[p] = size[p]
  BY DEF StreamInv, Types, Send
<1>4. size'[tail] = s /\ tail' = tail + s
  BY DEF StreamInv, Types, Send
<1>5. \A p \in 0 .. tail : Boundary(p) => Boundary(p)'
  BY <1>1, <1>3, <1>4 DEF StreamInv, Types, Boundary, Positions
<1>6. StreamWhole'
  <2>1. ASSUME NEW p \in Positions, size'[p] > 0
        PROVE  p + size'[p] <= tail' /\ Boundary(p + size[p])'
    <3>1. CASE p = tail
      BY <3>1, <1>1, <1>4 DEF Boundary, StreamInv, Types, Positions
    <3>2. CASE p # tail
      <4>1. size'[p] = size[p] /\ size[p] \in Nat
        BY <3>2, <1>3, SizesArePositive DEF StreamInv, Types
      <4>2. p + size[p] <= tail /\ Boundary(p + size[p]) /\ p + size[p] \in 0 .. tail
        BY <4>1, <2>1 DEF StreamInv, StreamWhole, Types, Positions
      <4> QED BY <4>1, <4>2, <1>1, <1>4, <1>5 DEF StreamInv, Types, Positions, Boundary
    <3> QED BY <3>1, <3>2
  <2>2. ASSUME NEW p \in Positions, p >= tail' PROVE size'[p] = 0
    BY <2>2, <1>1, <1>3, <1>4 DEF StreamInv, StreamWhole, Types, Positions
  <2> QED BY <2>1, <2>2 DEF StreamWhole, Positions
<1>7. First' = First /\ Held' = Held /\ Awaits' = Awaits /\ packet_buf' = packet_buf
  BY DEF Send, First, Held, Awaits, locals, saved
<1>8. AtBoundary'
  BY <1>1, <1>4, <1>5, <1>7 DEF StreamInv, AtBoundary, Types, Boundary, Positions
<1>9. LoopCounts'
  BY DEF StreamInv, LoopCounts, Send, locals
<1>10. Awaiting'
  <2>1. Awaits # 0 => First # tail /\ First \in Positions
    BY SizesAssumption
    DEF StreamInv, Awaiting, AtBoundary, StreamWhole, Types, Awaits, Positions
  <2> QED BY <2>1, <1>3, <1>7 DEF StreamInv, Awaiting
<1>11. Content'
  BY <1>7 DEF StreamInv, Content
<1> QED BY <1>2, <1>6, <1>8, <1>9, <1>10, <1>11 DEF StreamInv

(* A receive starts the loop with what the slot had kept.                  *)
LEMMA ReceiveKeeps ==
  ASSUME StreamInv, NEW n \in 1 .. MaxBuff, Receive(n)
  PROVE  StreamInv' /\ First' = First
<1>1. MaxBuff \in Nat
  BY SizesAssumption
<1>2. Types'
  BY <1>1 DEF StreamInv, Types, Receive, sent, saved, Positions
<1>3. First' = First /\ Held' = Held /\ Awaits' = Awaits
  BY DEF Receive, First, Held, Awaits
<1>4. StreamWhole' /\ AtBoundary' /\ Awaiting' /\ Content'
  BY <1>3 DEF Receive, sent, StreamInv, StreamWhole, AtBoundary, Boundary, Awaiting, Content, Positions
<1>5. LoopCounts'
  BY <1>1 DEF Receive, LoopCounts, StreamInv, Types, Positions
<1> QED BY <1>2, <1>3, <1>4, <1>5 DEF StreamInv

(* The size the loop goes by is that of the packet at the boundary.        *)
LEMMA SizeKnown ==
  ASSUME StreamInv, at = "loop", to_process # 0
  PROVE  /\ PSizes = {size[First]} /\ size[First] \in Sizes
         /\ First \in Positions /\ First < tail /\ First = buf_ptr - pr_size
         /\ pr_size < size[First] /\ to_process \in Nat \ {0}
         /\ buf_ptr + to_process = taken /\ taken <= tail
<1>1. /\ First = buf_ptr - pr_size /\ First \in 0 .. tail /\ First \in Positions
      /\ to_process \in Nat \ {0}
      /\ buf_ptr + to_process = taken /\ taken <= tail /\ Held = pr_size /\ Awaits = psize
  BY SizesAssumption DEF StreamInv, First, Held, Awaits, AtBoundary, LoopCounts, Types, Positions
<1>2. CASE psize = 0
  <2>1. pr_size = 0 /\ First = buf_ptr /\ buf_ptr < taken
    BY <1>1, <1>2 DEF StreamInv, Awaiting, Types
  <2>2. size[First] > 0 /\ size[First] \in Sizes /\ First < tail
    BY <1>1, <2>1, SizesAssumption DEF StreamInv, AtBoundary, Boundary, Types
  <2> QED BY <1>1, <1>2, <2>1, <2>2 DEF PSizes, Heads
<1>3. CASE psize # 0
  <2>1. pr_size < psize /\ psize = size[First] /\ psize \in Sizes
    BY <1>1, <1>3 DEF StreamInv, Awaiting, Types
  <2>2. First # tail
    BY <1>1, <1>3, <2>1 DEF StreamInv, StreamWhole, Types
  <2> QED BY <1>1, <1>3, <2>1, <2>2 DEF PSizes, StreamInv, Types, Positions
<1> QED BY <1>2, <1>3

(* A whole packet is the one at the boundary, byte by byte.                *)
LEMMA WholePacketKeeps ==
  ASSUME StaleTest = FALSE, StreamInv, WholePacket
  PROVE  /\ StreamInv'
         /\ First < tail /\ packet' = [j \in 0 .. size[First] - 1 |-> First + j]
         /\ First' = First + size[First] /\ UNCHANGED sent
<1> DEFINE ps == size[First]
<1>1. /\ PSizes = {ps} /\ ps \in Sizes /\ First \in Positions /\ First < tail
      /\ First = buf_ptr - pr_size /\ pr_size < ps /\ to_process \in Nat \ {0}
      /\ buf_ptr + to_process = taken /\ taken <= tail
  BY SizeKnown DEF WholePacket
<1>2. ps \in Nat /\ ps > 0
  BY <1>1, SizesArePositive
<1>3. /\ ps <= to_process + pr_size
      /\ packet' = [j \in 0 .. ps - 1 |-> IF j < pr_size THEN packet_buf[j] ELSE Byte(j - pr_size)]
      /\ to_process' = to_process - (ps - pr_size) /\ buf_ptr' = buf_ptr + (ps - pr_size)
      /\ psize' = 0 /\ pr_size' = 0 /\ at' = "loop" /\ at = "loop"
      /\ UNCHANGED <<sent, taken, saved, packet_buf>>
  <2> HIDE DEF ps
  <2> QED BY <1>1 DEF WholePacket, Fits
<1>4. \A j \in 0 .. ps - 1 : (IF j < pr_size THEN packet_buf[j] ELSE Byte(j - pr_size)) = First + j
  <2> SUFFICES ASSUME NEW j \in 0 .. ps - 1
               PROVE (IF j < pr_size THEN packet_buf[j] ELSE Byte(j - pr_size)) = First + j
    OBVIOUS
  <2>1. CASE j < pr_size
    BY <2>1, <1>2, <1>3 DEF StreamInv, Content, Held, Types
  <2>2. CASE ~(j < pr_size)
    <3>1. buf_ptr + (j - pr_size) < taken
      <4> HIDE DEF ps
      <4> QED BY <1>1, <1>2, <1>3 DEF StreamInv, Types
    <3>2. Byte(j - pr_size) = buf_ptr + (j - pr_size)
      BY <3>1 DEF Byte
    <3> QED BY <2>2, <3>2, <1>1, <1>2 DEF StreamInv, Types
  <2> QED BY <2>1, <2>2
<1>5. packet' = [j \in 0 .. ps - 1 |-> First + j]
  <2> HIDE DEF ps
  <2> QED BY <1>3, <1>4
<1>6. Held' = 0 /\ Awaits' = 0 /\ First' = First + ps
  BY <1>1, <1>2, <1>3 DEF Held, Awaits, First, StreamInv, Types
<1>7. Types'
  BY <1>1, <1>2, <1>3 DEF StreamInv, Types, sent, saved
<1>8. StreamWhole'
  BY <1>3 DEF StreamInv, StreamWhole, Boundary, sent, Positions
<1>9. AtBoundary'
  <2>1. First + ps <= tail /\ Boundary(First + ps)
    BY <1>1, <1>2 DEF StreamInv, StreamWhole
  <2>2. tail' = tail /\ size' = size
    BY <1>3 DEF sent
  <2> QED BY <1>1, <1>2, <1>6, <2>1, <2>2 DEF AtBoundary, Boundary, Positions, StreamInv, Types
<1>10. LoopCounts'
  BY <1>1, <1>2, <1>3 DEF LoopCounts, StreamInv, Types
<1>11. Awaiting' /\ Content'
  BY <1>6 DEF Awaiting, Content
<1> QED BY <1>1, <1>3, <1>5, <1>6, <1>7, <1>8, <1>9, <1>10, <1>11 DEF StreamInv

(* What is left of a receive is less than a packet, and is kept.           *)
LEMMA FragmentKeeps ==
  ASSUME StaleTest = FALSE, StreamInv, Fragment
  PROVE  StreamInv' /\ First' = First
<1> DEFINE ps == size[First]
<1>1. /\ PSizes = {ps} /\ ps \in Sizes /\ First \in Positions /\ First < tail
      /\ First = buf_ptr - pr_size /\ pr_size < ps /\ to_process \in Nat \ {0}
      /\ buf_ptr + to_process = taken /\ taken <= tail
  BY SizeKnown DEF Fragment
<1>2. ps \in Nat /\ ps > 0 /\ ps <= MaxPacket /\ MaxPacket \in Nat
  BY <1>1, SizesArePositive, SizesAssumption
<1>3. /\ ps > to_process + pr_size /\ psize' = ps
      /\ packet_buf' = [j \in DOMAIN packet_buf |->
           IF j \in pr_size .. pr_size + to_process - 1 THEN Byte(j - pr_size) ELSE packet_buf[j]]
      /\ pr_size' = pr_size + to_process /\ buf_ptr' = buf_ptr + to_process
      /\ to_process' = 0 /\ at' = "loop" /\ at = "loop"
      /\ UNCHANGED <<sent, taken, saved>>
  <2>1. ~(ps <= to_process + pr_size) /\ psize' = ps
    <3> HIDE DEF ps
    <3> QED BY <1>1 DEF Fragment, Fits
  <2> QED BY <2>1, <1>1, <1>2 DEF Fragment, StreamInv, Types
<1>4. Held' = pr_size + to_process /\ Awaits' = ps /\ First' = First
  BY <1>1, <1>2, <1>3 DEF Held, Awaits, First, StreamInv, Types
<1>5. Types'
  BY <1>1, <1>2, <1>3 DEF StreamInv, Types, sent, saved
<1>6. StreamWhole' /\ AtBoundary'
  BY <1>3, <1>4 DEF StreamInv, StreamWhole, AtBoundary, Boundary, sent, Positions
<1>7. LoopCounts'
  BY <1>1, <1>3 DEF LoopCounts, StreamInv, Types
<1>8. Awaiting'
  <2>1. size' = size
    BY <1>3 DEF sent
  <2> QED BY <2>1, <1>1, <1>2, <1>3, <1>4 DEF Awaiting, StreamInv, Types
<1>9. Content'
  <2> SUFFICES ASSUME NEW j \in 0 .. (pr_size + to_process) - 1
               PROVE  packet_buf'[j] = First + j
    BY <1>4 DEF Content
  <2>1. j \in DOMAIN packet_buf /\ pr_size \in Nat /\ j \in Nat
    BY <1>1, <1>2, <1>3 DEF StreamInv, Types
  <2>2. CASE j < pr_size
    <3>1. packet_buf'[j] = packet_buf[j]
      BY <2>1, <2>2, <1>1, <1>3
    <3> QED BY <2>1, <2>2, <3>1, <1>3 DEF StreamInv, Content, Held
  <2>3. CASE ~(j < pr_size)
    <3>1. packet_buf'[j] = Byte(j - pr_size)
      BY <2>1, <2>3, <1>1, <1>3
    <3>2. Byte(j - pr_size) = buf_ptr + (j - pr_size)
      BY <2>1, <1>1 DEF Byte, StreamInv, Types
    <3> QED BY <2>1, <3>1, <3>2, <1>1 DEF StreamInv, Types
  <2> QED BY <2>2, <2>3
<1> QED BY <1>4, <1>5, <1>6, <1>7, <1>8, <1>9 DEF StreamInv

(* The slot keeps exactly what the loop left.                              *)
LEMMA LoopEndKeeps == ASSUME StreamInv, LoopEnd PROVE StreamInv' /\ First' = First
<1>1. Types'
  BY DEF StreamInv, Types, LoopEnd, sent, locals
<1>2. First' = First /\ Held' = Held /\ Awaits' = Awaits
  BY DEF LoopEnd, First, Held, Awaits, locals, StreamInv, LoopCounts, Types
<1>3. StreamWhole' /\ AtBoundary' /\ Awaiting' /\ Content'
  BY <1>2 DEF LoopEnd, sent, StreamInv, StreamWhole, AtBoundary, Boundary, Awaiting, Content, Positions
<1>4. LoopCounts'
  BY DEF LoopEnd, LoopCounts
<1> QED BY <1>1, <1>2, <1>3, <1>4 DEF StreamInv

(* A new connection starts at its own first byte.                          *)
LEMMA ReconnectKeeps == ASSUME StreamInv, Reconnect PROVE StreamInv' /\ First' = 0
<1>1. First' = 0 /\ Held' = 0 /\ Awaits' = 0
  BY DEF Reconnect, First, Held, Awaits
<1>2. Types'
  BY SizesAssumption DEF StreamInv, Types, Reconnect, locals, Positions
<1>3. StreamWhole' /\ AtBoundary' /\ Awaiting' /\ Content' /\ LoopCounts'
  BY <1>1, SizesAssumption
  DEF Reconnect, StreamWhole, AtBoundary, Boundary, Awaiting, Content, LoopCounts, Positions
<1> QED BY <1>1, <1>2, <1>3 DEF StreamInv

LEMMA StutterKeeps == ASSUME StreamInv, UNCHANGED vars PROVE StreamInv' /\ First' = First
  BY DEF vars, sent, saved, locals, StreamInv, Types, StreamWhole, AtBoundary, Boundary,
         LoopCounts, Awaiting, Content, First, Held, Awaits, Positions

LEMMA StreamInvNext == ASSUME StaleTest = FALSE, StreamInv, [Next]_vars PROVE StreamInv'
  BY SendKeeps, ReceiveKeeps, WholePacketKeeps, FragmentKeeps, LoopEndKeeps, ReconnectKeeps,
     StutterKeeps
  DEF Next, Loop

LEMMA StreamInvAlways == ASSUME StaleTest = FALSE PROVE Spec => []StreamInv
<1>1. StreamInv /\ [Next]_vars => StreamInv'
  BY StreamInvNext
<1> QED BY <1>1, StreamInvInit, PTL DEF Spec

(* Whatever sizes packets have and however receives cut them, what a slot  *)
(* keeps between receives is the beginning of the packet being received,   *)
(* and the loop never counts past what it was given.                       *)
THEOREM FragmentsKept == ASSUME StaleTest = FALSE PROVE Spec => []KeepsTheFragment
<1>1. StreamInv => KeepsTheFragment
  BY DEF StreamInv, KeepsTheFragment, LoopCounts, Awaiting, Content, Types
<1> QED BY <1>1, StreamInvAlways, PTL

-----------------------------------------------------------------------------
(* Every step of the loop hands over the next packet, or none.             *)
LEMMA StreamStep ==
  ASSUME StaleTest = FALSE, StreamInv, [Next]_vars
  PROVE  [Stream!StreamNext]_(Stream!streamVars)
<1>1. ASSUME NEW s \in Sizes, Send(s) PROVE Stream!Put(s)
  BY <1>1 DEF Send, Stream!Put, First, Held, locals, saved
<1>2. ASSUME WholePacket PROVE Stream!Deliver
  BY <1>2, WholePacketKeeps DEF Stream!Deliver, Stream!Bytes, sent
<1>3. ASSUME Reconnect PROVE Stream!Restart
  BY <1>3, ReconnectKeeps DEF Reconnect, Stream!Restart, Stream!Empty, Stream!Positions, Positions
<1>4. ASSUME NEW n \in 1 .. MaxBuff, Receive(n) PROVE UNCHANGED Stream!streamVars
  BY <1>4, ReceiveKeeps DEF Receive, Stream!streamVars, sent
<1>5. ASSUME Fragment PROVE UNCHANGED Stream!streamVars
  BY <1>5, FragmentKeeps DEF Fragment, Stream!streamVars, sent
<1>6. ASSUME LoopEnd PROVE UNCHANGED Stream!streamVars
  BY <1>6, LoopEndKeeps DEF LoopEnd, Stream!streamVars, sent
<1>7. ASSUME UNCHANGED vars PROVE UNCHANGED Stream!streamVars
  BY <1>7, StutterKeeps DEF vars, sent, Stream!streamVars
<1> QED BY <1>1, <1>2, <1>3, <1>4, <1>5, <1>6, <1>7 DEF Next, Loop, Stream!StreamNext

(* ProcessPacket is called with the packets that were sent, whole, once    *)
(* each and in order, for every set of sizes and every cut of the stream.  *)
THEOREM ReassemblyIsFaithful == ASSUME StaleTest = FALSE PROVE Spec => DeliversInOrder
<1>1. Init => Stream!StreamInit
  BY DEF Init, Stream!StreamInit, Stream!Empty, Stream!Positions, Positions, Stream!Bytes,
         First, Held
<1>2. StreamInv /\ [Next]_vars => [Stream!StreamNext]_(Stream!streamVars)
  BY StreamStep
<1> QED BY <1>1, <1>2, StreamInvAlways, PTL DEF Spec, DeliversInOrder, Stream!StreamSpec
=============================================================================
