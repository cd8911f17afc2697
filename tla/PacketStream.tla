----------------------------- MODULE PacketStream -----------------------------
(***************************************************************************)
(* What a connection promises the code that handles packets: the packets   *)
(* the remote end sends are handed over whole, once each and in order,     *)
(* however the network cuts the bytes.  A byte is named by its position in *)
(* the stream.                                                             *)
(***************************************************************************)
EXTENDS Integers

CONSTANTS
  Sizes,      \* the sizes packets have; the first byte of each is its size
  MaxStream   \* bound: bytes sent on one connection

VARIABLES
  size,     \* size[p]: size of the packet that starts at byte p, 0 if none does
  tail,     \* bytes sent
  next,     \* first byte not handed over
  packet    \* the last packet handed over, byte by byte

streamVars == <<size, tail, next, packet>>

Positions == 0 .. MaxStream

Empty == [p \in Positions |-> 0]

Bytes(from, n) == [j \in 0 .. n - 1 |-> from + j]

StreamInit == size = Empty /\ tail = 0 /\ next = 0 /\ packet = Bytes(0, 0)

Put(s) ==
  /\ tail + s <= MaxStream
  /\ size' = [size EXCEPT ![tail] = s]
  /\ tail' = tail + s
  /\ UNCHANGED <<next, packet>>

Deliver ==
  /\ next < tail
  /\ packet' = Bytes(next, size[next])
  /\ next' = next + size[next]
  /\ UNCHANGED <<size, tail>>

(* The connection ends, and another one begins.                            *)
Restart ==
  /\ size' = Empty /\ tail' = 0 /\ next' = 0
  /\ UNCHANGED packet

StreamNext == (\E s \in Sizes : Put(s)) \/ Deliver \/ Restart

StreamSpec == StreamInit /\ [][StreamNext]_streamVars

(* Nothing that was sent is held back for good.                            *)
StreamLiveSpec == StreamSpec /\ WF_streamVars(Deliver)
=============================================================================
