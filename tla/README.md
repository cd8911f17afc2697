# A formal model of an IOCP game server, its predecessors and its clients

The repository holds a small online game built on Windows I/O completion ports: a
server on which players and NPCs walk over a tile board and every client is told what
happens near its player, several earlier or later versions of that server, and clients.
This directory models them in TLA+:

- the program that the project file `src/2017Server/2017Server.vcxproj` builds,
  `src/2017Server/교수님_server_main.cpp` with `protocol.h`, thread by thread. Line
  numbers below are of that file unless another is named;
- the two servers of 2016 in the same directory, whose NPCs sleep while nobody is near;
- the client framework `IOCPClient_2017` together with `IOCPServer_2017`, the server it
  connects to, from a key to the picture.

## 1. The system

### 1.1 The 2017Server program

State, all of it global and shared by every thread:

| state | what it is | guarded by |
|---|---|---|
| `gclients[NUM_OF_NPC]` | one slot per object; slots below `MAX_USER` serve players, slots from `NPC_START` on are NPCs | nothing but `vl_lock` |
| `.x .y` | position | nothing |
| `.bConnected .bIsAlive .bIsActive` | slot taken; object alive; NPC active | nothing |
| `.view_list` | the set of objects the client has been told of | `vl_lock` of the slot |
| `.s`, `.recv_over`, `.packet_buf`, `.prev_recv_size`, `.curr_packet_size` | socket and receive buffers | nothing: one receive is outstanding at a time |
| `timer_queue` | priority queue of future NPC beats | `tq_lock` |
| the completion port | receives, sends, posted NPC beats | the operating system |

Threads and their operations:

- **six worker threads** (`WorkerThread`, 369-445). Each takes a completion: an E_RECV
  (reassemble packets, `ProcessPacket` for each, post the next receive), an E_RECV of 0
  bytes or with error 64 (`DisconnectClient`), an E_SEND (free the buffer), an E_DOAI
  (`HEART_BEAT` of an NPC).
- **the accept thread** (`AcceptThread`, 447-529): finds the first free slot, fills it,
  posts its first receive, then scans all objects to build the new client's view list
  and to add the client to the view lists of those that see it.
- **the timer thread** (`TimerThread`, 531-563): moves due entries of `timer_queue` to
  the completion port as E_DOAI.
- **`HEART_BEAT`** (197-260) moves an NPC one random step, corrects every connected
  client's view list, and schedules the next beat while a client is near. It is called
  by a worker (E_DOAI) and, through `WakeUpNPC`, from inside `ProcessPacket` (335) and
  `AcceptThread` (508).
- **`ProcessPacket`** (262-351) moves the player, scans all objects, copies the old view
  list, sends Put and Remove packets for the difference, corrects the view lists of the
  other players one by one, and merges the result into its own list at the end.
- **`DisconnectClient`** (353-367) closes the socket, frees the slot, marks the object
  dead, and takes it off every client's list.

They interact only through the shared slots, `timer_queue`, the completion port and the
packets. A view-list lock is held for one look-up and one update; no two locks are ever
held together; packets are sent after the lock is released.

What is hard here: view lists of two clients must agree although each handler computes
from stale copies; slots are reused while late completions and half-finished handlers
still refer to them; NPC beats of one NPC run on several threads; and a thread that
meets an unexpected socket error is lost for ever (`error_display`, 63-76, does not
return).

What makes it correct:
- *sessions*: one receive outstanding per slot, one worker serving it, no live client
  dropped, no thread lost;
- *views*: a client's view list is what is near it, sight is mutual, departed players
  leave every list, and the display that the client builds agrees with the list;
- *NPCs*: an NPC in the wrong place in some list has a beat under way that will fix it.

### 1.2 The servers of 2016

`2016_NPC.cpp` and `2016_NPC_02.cpp` are the same server at two stages: worker threads, an
accept thread and a timer thread over `clients[]`. An NPC has `is_active`; a token in
`p_queue` stands for its next beat.

- `ProcessPacket` moves the player and wakes every near NPC whose `is_active` is false:
  `WakeUpNPC` sets the flag and pushes a token, without the lock of the queue.
- `timer_thread` pops a due token and posts it as OP_MOVE; `do_move` then moves the NPC,
  tells the clients, pushes the next token, and at last puts the NPC to sleep if its scan
  had found no player.
- `SendPacket` loops for ever after any result of `WSASend` other than 0.

What is hard: the scan of a beat is old when it clears the flag; a token pushed just
before falling asleep is still on its way when the NPC is woken again; nothing joins two
chains of beats; the unlocked push; the unlocked step of an NPC. What makes it correct: an
active NPC never loses its last token, one beside a busy player keeps beating, one that is
alone comes to rest. In the view lists: `ProcessPacket` goes by lists, `do_move` by positions, `accept_thread`
by scans, and what they leave must agree.

### 1.3 IOCPClient_2017 and IOCPServer_2017

The client is one thread, a message loop that advances a frame when no message waits.
`InputManager` records which keys are down (`m_bKeyState`), which of them the stick
pressed (`bStick`), and queues an event when a key goes down or up; it reads the gamepad
when one is plugged and the keyboard when not. `IOCPClient` sends each event as a move
packet; the server moves the player and answers with its position as two BYTEs. The
client draws the player there and nowhere else.

What is hard: `GetKeyboardState` goes by the messages of this window, `GetAsyncKeyState`
by the hardware; a stick held askew presses two keys, and a held one breaks out of the
loop over the keys; a pad may be plugged or pulled, or the window lose the focus, between
press and release; a slot is used again by the next player. What makes it correct: no
move is lost or made up, every key is released in the end, and the picture follows the
server.

### 1.4 All components

| component | state and operations | in this project |
|---|---|---|
| 2017Server: slots, view lists, sessions | see 1.1 | `World` to `ViewServer`, `SlotLife`, `Visibility` |
| packet reassembly (392-416) | bytes of a partial packet carried from one receive to the next | `ServerStream`, byte by byte; in `Session`, a number of packets per receive |
| 2016 servers: tokens, timer | see 1.2 | `SleepingNpc` |
| 2016 servers: view lists, sessions | see 1.2 | `SleepServer` |
| `IOCPServer_2017`, `IOCPClient_2017` (network, input) | see 1.3 | `EchoGame` |
| `2017_2D_CLIENT/2DClient.cpp` | the game client: packet handler, display | the variable `shown` of `ServerState` and of `SleepServer` |
| `2017Server/server_main.cpp` | an earlier student server: same slots, other locking, another reassembly test | the test, in `ServerStream` |
| `protocol.h` wire format; frame timers; scripts, camera, drawing of `IOCPClient_2017`; `2017_GameServer`, `Lua_2017`, `obdc.cpp`, `gpdumb1`, `MiniDump.h`, vendored Lua | | not modelled, see section 5 |

`PROJECT.json` lists every component with its status, and every hazard of the code with
the line where it bites and the properties that would catch it.

## 2. The modules

```
World ── ServerState ── HeartBeat ── PlayerPacket ── Session ── ViewServer ─┬─ MCViewServer
  │                                                              │          └─ SerialVisibility ── Visibility
  ├─ SleepingNpc ── SleepingNpcProofs                        SlotLife            │               (abstract)
  └─ SleepServer ── SleepServerProofs                       (abstract)      MCVisibility

ViewServer ── ViewServerProofs ─┬─ SessionProofs
                                └─ ViewListProofs ── SerialProofs (with SerialVisibility)

ServerStream ── PacketStream (abstract)        EchoGame ── EchoGameProofs
     └─ ServerStreamProofs
```

| module | models |
|---|---|
| `World` | slot ranges, board, `IsNear`, the four moves, the beat's step and clamp (the clamp of direction 1 tests `y` and writes `x`, as the code does at 208) |
| `ServerState` | constants, variables, thread locals, and the operations every handler shares: sends, `WakeUpNPC` |
| `HeartBeat` | `HEART_BEAT` |
| `PlayerPacket` | `ProcessPacket` |
| `Session` | `WorkerThread`, `DisconnectClient`, `AcceptThread`, `TimerThread`, the remote ends |
| `ViewServer` | `Init`, `Next`, the schedules, the fairness, every property |
| `SlotLife` | abstract: a slot is free, joining, waiting, served or leaving, and passes from one to the next |
| `Visibility` | abstract: players come, move and go; each sees exactly the players near it |
| `ServerStream` | the reassembly loop of `WorkerThread` (392-416) for one slot, and `AcceptThread`'s reset of the counts; with `StaleTest`, the test of `server_main.cpp` (653) |
| `PacketStream` | abstract: packets handed over whole, once each and in order, however the bytes are cut |
| `SleepingNpc` | `is_active`, the tokens, `timer_thread`, `do_move` and what of a packet wakes NPCs (`2016_NPC.cpp`), step by step |
| `SleepServer` | `ProcessPacket`, `do_move`, `accept_thread` and the closing of a connection (`2016_NPC_02.cpp`), one handler at a time, with view lists and what the clients display |
| `EchoGame` | hands, message loop, `InputManager`, `IOCPClient`, and the accept and worker threads of `IOCPServer.cpp` |
| `SerialVisibility` | the serial schedule of `ViewServer` with the history variable `snap`, which keeps the last settled picture, for the refinement of `Visibility` |
| `MCViewServer`, `MCVisibility` | the instances for TLC |
| `...Proofs` | the theorems; those about 2017Server are split into types (`ViewServerProofs`), sessions (`SessionProofs`), NPCs in view lists (`ViewListProofs`) and the serial schedule (`SerialProofs`) |

### How state and actions correspond to the code

Every thread has a program counter `pc[t]`, and records of its locals: `frame[t]` for
`ProcessPacket`, `DisconnectClient` and `AcceptThread`, `beat[t]` for `HEART_BEAT`, which
may be nested in them (`back` is the return address). An action is one step of one
thread: one access to shared memory, or one whole critical section, or one send. Its
name carries the handler: `Hb...`, `Pp...`, `Dc...`, `Ac...`; `pc` labels are named the
same way. The connection of a slot is `open` (the socket is not closed on this side),
`peer` (the remote end is up, closed in good order, or reset) and counts of the
completions it has coming: `recv` (posted receives), `lost` (error 64), `aborted` (any
other error). `shown[p]` is what the client of slot `p` displays when it has read all
that was sent to it.

In `ServerStream` a byte is its position in the stream of its connection; `size` says
where packets begin and how long they are. One action is one pass of the loop, and the
locals and the slot's fields keep the code's names. `Stale` is a byte that no receive of
this connection has brought. A byte read as a size that does not begin a packet may
have any value.

In `SleepingNpc` a worker's `pc` says where it is in `ProcessPacket` (`pk_`),
`WakeUpNPC` (`wk_`) or `do_move` (`bt_`). Test and setting of `is_active` are separate
steps, so two workers may both wake an NPC. `WakeUpNPC`'s push has a beginning and an
end; a thread that changes the queue between them tears it (`torn`), and from then on a
push may be lost. An NPC's step is three actions, as it is three unlocked accesses: the
test of the edge (`BtTest`), the load (`BtLoad`) and the store (`BtStore`) of `x++` or the
like, with the direction and the value read in `turn`. Two beats of one NPC may overwrite
each other's steps or both pass the test, so an NPC can leave the board; a player cannot.
A failing send leaves the worker in `hung`.

In `SleepServer` an action is a whole handler: `view_list`, `shown` and `tokens` change
together. The definitions keep the code's asymmetries: who tells whom, and by which list.

In `EchoGame` an action is one dispatched message, one of the two halves of
`FrameAdvance` that touch the input, one accept, one completion or one packet; the hands
act between any two of them. `keyboard` is what the hardware says, `told` what the
window's messages say, which are only given while it has the `focus`, and `known` what
the client has made of them. `up` and `down` are the moves and positions on the wire, and
a receive takes any number of whole packets from it.

What is abstracted, and why that keeps the properties meaningful:

- Memory is sequentially consistent. The store buffers of x86 are not modelled.
- Two reads of different variables in one condition (`bConnected` then `IsNear` in
  `HEART_BEAT`, `bIsAlive` then `IsNear` in the scans) are one step, and so are the test
  of `bConnected` and the critical section in `DisconnectClient`'s loop (359-363).
- A send is one step of its own and reaches `shown` at once: TCP keeps the order of one
  socket. SC_POS packets, which only move what is already displayed, are left out, and
  so are send completions, which only free a buffer.
- Each range-`for` visits a set's elements in any order.
- NPC steps draw any direction; NPCs start anywhere on the board (`InitializeNPC` calls
  `rand`).
- `gclients` is zeroed memory and nothing resets `x` and `y` when a slot is reused, so
  a new client stands where the last one stood.
- An unknown packet type ends the program (`exit`) and is left out. So are failures of
  the socket calls other than those of a closed or reset connection, and the reuse of a
  socket handle's number between the two `closesocket` calls of a doubled
  `DisconnectClient`.
- A connection that finds no free slot is closed at once and leaves no trace.
- `SleepServer` runs its handlers one after the other: what it shows is what the view-list
  algorithm computes by itself. Overlapping handlers of the same design are what
  `ViewServer` is about.
- In `SleepingNpc` a player's move and its clamp are one step (one worker serves a player,
  so nothing else writes its place). A packet's display and view-list work is one step
  (`AllWoken`), and so are the scan and the packets of a beat (`BtLook`): they reach the
  tokens only through a send that never returns, or through the scan.
- In `EchoGame` a client ends when nothing is on its way in either direction; resets and
  receives that end inside a packet are in `Session` and `ServerStream`, whose code is the
  same. A connection that finds no free slot is closed and takes no more packets.
- A due timer entry may fire at any time after it was pushed; delays are not modelled.

### Bounds

| constant | in the code | in the runs | why it is enough |
|---|---|---|---|
| `MaxUser` | 10000 | 1-3 | two players make every pairwise conflict; three add a bystander (`visibility`) |
| `NpcStart .. NumOfNpc-1` | NPC slots | 0-1 NPC | NPCs do not interact with each other, only with clients |
| `BoardWidth x BoardHeight`, `ViewMax` | 1000 x 1000, 7 | 2 x 1 with 0, or 3 x 1 with 1 | near and far both happen, and with radius 1 a player sees some and not others |
| `Workers` | 6 | 1-2 | two workers overlap in every way two handlers can; they are symmetric |
| `RecvPackets` | what fits a buffer | 1 | a receive holds none (a fragment) or one; the packets of one receive are processed one after the other |
| `LostSends` | sends outstanding at a reset | 0 or 1 | a reset is noticed through a receive, or through a send while the receive is being processed |
| `Sizes`, `MaxBuff`, `MaxPacket` | 4 or 8, the size of a pointer, which the clients write into a move's size byte; 4000; 255 | 2 to 4, 5, 4 | a receive holds part of a packet, a whole one, or the end of one and the beginning of the next; a packet may come in four parts |
| `MaxStream` | none | 8 | four packets on one connection, then another connection |
| `QueueCap` | none | 1 | equal queue entries above it are merged: an entry in the queue stands for one or more. For failed completions this leaves one per slot, so in `serial` no second one is left over to meet the slot's next client; with 2 the run has more than 17 million states. The theorems about the serial schedule hold for every value |
| `StartX`, `StartZ` | cell (4, 4) | (0, 0) | some NPCs are near the start cell and others are not |
| `SendsMayFail` | a `WSASend` may return an error | TRUE | every send of every worker may be the one that never ends |
| `TokenCap` | none | 2 in `tokens`, 1 in `sleep_server` | two chains of beats of one NPC may run at once; more are counted as two |
| `Drift` | none | 1 | an NPC off the board is nobody's neighbour with radius 0, however far it is; cells further off than `Drift` are counted as the last |
| slot ranges of `sleep_server` | users to 10000, NPCs from 1000 | users 0-2, NPCs 2-3 | they overlap, as in `protocol.h`: slot 2 is a user's and an NPC's |
| `Keys`, `Start`, `Step`, `ByteRange` of `echo` | four arrows, 100, 10, 256 | left and up, 1, 1, 3 | one key of each axis; the second step goes below 0, where the cut to a BYTE shows |
| `MaxUser` of `echo` | 1000 | 1 | a client that comes before the last one's slot is free is refused |
| `MaxTouches` | none | 3 | presses, moves of the stick to a new key, plugs, losses of the focus, and frames in which a key is only believed to be down: press on one device, plug or pull, press on the other, in any order; press, lose the focus, let go, and a frame that releases and presses the key again |
| `NpcOverrun` | none | 0 | how far beyond an edge an NPC draws a further step outwards; positions off the board are still reached through 208 |

The full interleaving of two workers, the accept thread and two players that send
packets has more than 12 million states, too many for one run. The runs split it along
`ViewServer`'s schedules, each a subset of `Spec`: `SerialSpec` (handlers do not
overlap), `WorkersSpec` (workers overlap each other), `Spec` with one worker (a worker
overlaps the accept thread). The properties that all interleavings at once could
endanger most, those of the sessions, are also proved of `Spec` (section 4).

## 3. The runs

| run | schedule | shows |
|---|---|---|
| `serial` | serial, 2 players, 1 NPC, connections also reset | `ViewsMatchBoard`, `DisplayMatchesViews`: what the view-list algorithm computes by itself is exact, resets and the doubled `DisconnectClient` included. Late completions that meet a reused slot are beyond its bounds (`QueueCap`) and left to the theorems. Deadlock is not checked: every thread may be lost in `error_display` |
| `visibility` | serial, 3 players | the server implements `Visibility` |
| `npc_workers` | 2 workers, 1 player, 1 NPC | `TypeOK`, `NpcSightSettles`, `OneOwner`; the server implements `SlotLife` |
| `npc_accept` | accept thread and 1 worker, 1 player, 1 NPC | `NpcSightSettles`, `OneOwner`, `NoThreadHangs`, `DroppedOnlyWhenGone` |
| `live_workers` | 2 workers, 2 players | `ComesToSee`, `LosesSight` |
| `live_accept` | accept thread and 1 worker, 2 players | `LosesSight` |
| `server_stream` | one slot, its receives one after the other | `ServerStream` implements `PacketStream`, with liveness; `KeepsTheFragment` |
| `tokens` | 2016: 2 workers, timer thread, 2 players, 1 NPC, all interleavings, NPCs on and off the board | `TypeOK`, `ActiveHasToken`, `KeepsMoving`, `FallsAsleep`. Deadlock is not checked: every worker may be lost in `SendPacket` |
| `sleep_server` | 2016: handlers in any order, overlapping slot ranges | `TypeOK`, `ViewsExact`, `DisplayExact`. Deadlock is not checked: the accept thread may be lost while no client is connected |
| `echo` | 1 client, which leaves and comes again, and its server | `TypeOK`, `DisplayFollows`, `MovesPaired`, `LetGoSettles` |
| `stale_stream` | `server_stream` with `server_main.cpp`'s test | expected violation, see below |
| `ghost_display` | 2 workers, 2 players | expected violation, see below |

`HardResets = FALSE` means that clients close in good order; the session properties are
stated for that case, because the code does lose threads and drop clients after resets
(384 and 388). `NpcSightSettles` is about pairs nobody is working on: a scan, a stale
merge (349) and any number of concurrent beats may leave an NPC in the wrong list, but
never without another beat of it on its way.

The slots from `NPC_START` to `MAX_USER` are players' and NPCs' at once. There a beat
moves a player and marks it dead, and a packet moves an NPC with no beat to follow; so
`NpcSightSettles`, `ViewsMatchBoard` and `Visibility` speak of the slots that are one or
the other (`Players`), and `DisplayMatchesViews` of all.

`ComesToSee` and `LosesSight` are about
players under overlapping handlers: single states may be wrong (a merge overwrites what
another worker did), but a client that keeps moving converges. `ComesToSee` is not
claimed with the accept thread overlapping: `DisconnectClient` clears `bIsAlive` (357)
after it has given the slot away (356), so a new client can stay marked dead.

`torn` and `hung` play the same part in `SleepingNpc`: the code does lose tokens and
workers after a clash in the queue or a failing send, so `ActiveHasToken` is stated for
states before the first clash (it holds with lost workers), and `KeepsMoving` and
`FallsAsleep` for executions without either. `KeepsMoving` is the property of the race
between falling asleep and arriving: a beat may put its NPC to sleep on an old scan just
after a player came, and the next packet of that player, or of another one beside the
NPC, has to wake it. `FallsAsleep`
says that chains of beats that were started twice die out.

`ViewsExact` and `DisplayExact` speak of clients that were fully accepted: where
`accept_thread` meets an NPC in its loop over the users (531-533 of `2016_NPC_02.cpp`) it
is lost, with the new client in some lists and without a receive.

`MovesPaired` follows the moves from the recorded key through the queue, the wire and the
server's buffer to the board, by their parity on each axis: a single move lost, doubled or
made up shows, a release that is merely late does not. That every release comes in the
end is `LetGoSettles`. It assumes that the player lets go for good, and that the messages
of the window have said so (`told`). The second premise is needed: a key that is held
when the window loses the focus and let go elsewhere stays down in `GetKeyboardState`,
which decides presses, and is up for `GetAsyncKeyState`, which decides releases. The
client then releases and presses it again at every frame until a message of that key
reaches it, or Windows brings its key state up to date as the window gains the focus; the
model allows for either and for neither. `MovesPaired` and `DisplayFollows` hold
throughout.

**Fairness.** The liveness runs of `ViewServer` assume that a thread inside a handler goes on
(`Fairness`): the operating system schedules runnable threads, and nothing inside a
handler blocks, apart from critical sections that hold one lock for a bounded time.
Nothing is assumed of clients, of the timer, or of a worker's taking a completion; the
properties take as a premise that the client keeps sending moves.

`tokens` assumes the same of workers inside a handler and of a timer thread that holds a
token (weak fairness), and that a token is popped, and a posted beat taken, if that can
be done again and again (strong fairness): the timer queue is ordered by time and the
completion queue is first in, first out, so no token is passed over for ever by threads
that keep coming back. `echo` assumes that the client's loop, the accept thread and the
workers run on (weak fairness), and nothing of the player or of the focus.

`server_stream` assumes that the network brings what was sent and that the worker stays
in its loop.

**Findings.**
- `stale_stream`: the comment at `server_main.cpp` 667-668 says that `to_process` counts
  what was received now and `prev_recv_size` what was received last time. The test at 653
  adds the slot's `prev_recv_size`, which still counts a fragment that an earlier packet
  of this receive used up; the local `prevSize`, reset at 666, is not used. A packet of
  which only the beginning has arrived is then handled with bytes that never came.
- `ghost_display`: view lists change under `vl_lock` but the Put or Remove is sent after
  the unlock, so a Remove can overtake the Put of the same object. The client then
  displays a player that its view list does not hold, which the loop at 328-332 never
  takes off.

Each property of a passing run has a mutant in `PROJECT.json`: a plausible slip in the
code (a forgotten line, a wrong order, an inverted argument) under which the property
fails. Mutated definitions stand before the ones they replace, with a comment that says
what the slip is.

## 4. The proofs

All theorems hold for every number of users, NPCs, workers and keys, every board, and
every bound. They hold for overlapping slot ranges too, which `protocol.h` defines (`NPC_START`
1000, `MAX_USER` 10000) and of the runs only `sleep_server` has. "Without resets" is
the hypothesis `HardResets = FALSE`; the other theorems make no such assumption. Those about the server assume only what
`World` and `ServerState` assume of the constants: at least one user slot,
`MaxUser <= NumOfNpc`, natural-number sizes, an accept thread that is not a worker. Those
about reassembly assume that every packet has a size byte and fits `packet_buf`
(`SizesAssumption`); those about `SleepingNpc`, `SleepServer` and `EchoGame` that players
start on the board, or within a BYTE (`SleepingAssumption`, `StartAssumption`,
`EchoAssumption`).

| theorem | says |
|---|---|
| `ViewServerProofs!SightIsMutual` | `IsNear` is symmetric, which the code relies on when it updates both clients from one test |
| `ViewServerProofs!MovesStayOnBoard` | a move packet keeps a player on the board |
| `ViewServerProofs!TypesHold` | `Spec => []TypeOK` |
| `SessionProofs!OneOwnerHolds` | without resets, `Spec => []OneOwner` |
| `SessionProofs!NoThreadEverHangs` | without resets, `Spec => []NoThreadHangs` |
| `SessionProofs!OnlyTheGoneAreDropped` | without resets, `Spec => DroppedOnlyWhenGone` |
| `SessionProofs!SlotsAreOrderly` | without resets, `Spec` implements `SlotLife` |
| `ViewListProofs!StrandedSightIsQueued` | without resets, `Spec => []NpcSightSettles`, for every interleaving of every number of threads |
| `SerialProofs!ViewsAreExactSerially` | `SerialSpec => []ViewsMatchBoard` |
| `SerialProofs!DisplaysAreExactSerially` | `SerialSpec => []DisplayMatchesViews` |
| `SerialProofs!SerialServerIsVisibility` | `SnapSpec`, the serial server, implements `Visibility` |
| `ServerStreamProofs!FragmentsKept` | with the test of 401, `Spec => []KeepsTheFragment`, for all sizes |
| `ServerStreamProofs!ReassemblyIsFaithful` | with the test of 401, `ServerStream` implements `PacketStream` |
| `SleepingNpcProofs!TypesHold` | `Spec => []TypeOK` of `SleepingNpc`: types, and no player leaves the board |
| `SleepingNpcProofs!ActiveKeepTokens` | `Spec => []ActiveHasToken` |
| `SleepServerProofs!TypesHold` | `Spec => []TypeOK` of `SleepServer` |
| `SleepServerProofs!ViewsStayExact` | `Spec => []ViewsExact`, for overlapping slot ranges too |
| `SleepServerProofs!DisplaysStayExact` | `Spec => []DisplayExact` |
| `EchoGameProofs!TypesHold` | `Spec => []TypeOK` of `EchoGame` |
| `EchoGameProofs!DisplayStaysFaithful` | `Spec => []DisplayFollows`, for any step and any width of a coordinate |
| `EchoGameProofs!MovesStayPaired` | `Spec => []MovesPaired`, for any set of keys |

*Type correctness.* `TypeOK` is not inductive: a step that increments a loop index or
uses one as a subscript is only safe where the loop's test has just been made.
`TypeInv` adds, per program counter, what that test established (`PlaceOK`), and that
the nested `HEART_BEAT` returns to code of its own thread. The proof shows for each
handler that its steps change only their own thread's locals (`OnlySelf`), keep the
shared variables' types, and re-establish `PlaceOK`.

*Sessions.* `OneOwner` is not inductive either: that a worker may take a receive without
meeting another one on the same slot depends on the accept thread too, and on what
every holder knows of the slot's socket. `OwnerInv` gives each thread a *role* towards
the slot it works for, and says that a slot has either one posted receive or one thread
with a role, never both (`OneHolder`), and what each role knows of `bConnected`, `open`
and `peer` (`HolderKnows`). The central lemma, `ThreadOwner`, shows that every step of
every thread either keeps its role and leaves the sessions alone (`Keeps`) or passes one
slot on (`Passes`); both keep `OwnerInv`. The refinement reads the abstract stage off
the holder's role (`StagesFollow`), so the same lemma gives the abstract step.

*NPCs in view lists.* `SightInv` looks at one player and one NPC that is not *covered*: it
lives, no beat of it is queued, and no thread is in one. The proof turns on this being
stable backwards (`CoveredStays`): a beat ends by queueing the next or by finding its NPC
dead, so an NPC that is uncovered after a step was uncovered before it, and the step has
not moved it. Of such a pair the invariant says, for each phase of the worker serving
the player, what its copies `seen`, `ovl` and `todo` know of the NPC (`WorkerKnows`), and
that the player's list is right unless that worker is between the move and the merge
(`Fixing`), or the accept thread has the NPC still ahead of it (`Ahead`). That only one
worker serves the player is `OwnerInv`, from which the hypothesis on resets comes. The
accept thread wakes every NPC it finds before it notes it in `seen`, and nothing sets an
uncovered NPC's `bIsActive`, so `seen` never holds one (`AcceptorKnows`).

*The serial schedule.* Where handlers do not overlap, what is wrong in the middle of a
handler is a matter of one thread. `SerialInv` says of every thread that is *alone*, that
is, no other one runs: its session (`Sessions`), the view lists (`Boards`) and the
displays (`Displays`) are as they should be except for what its program counter and its
copies say is still to be done. `Between` gives, for the client being served and each
other player, what both lists hold at each phase; `Display` gives, for each client and
object, whether the packet for the last change of the list has been sent. Of a thread
between handlers this says the same whoever it is (`RestIsCommon`), which hands the
invariant from one thread to the next. A lost accept thread (`Hung`) leaves half a client
behind, and nothing is said from then on; a lost worker leaves nothing, so resets need no
hypothesis.

For `Visibility`, `Track` says at each phase what the running thread has done to the
players since `snap` was taken: nothing, one move, one arrival or one departure. When the
threads have settled, that is the abstract step (`OutcomeIsStep`), and `Boards` gives what
each player then sees (`ExactAtRest`).

*Reassembly.* `KeepsTheFragment` holds because the slot always stands at the beginning of
a packet, plus the part it holds. `StreamInv` says that, and that the packets of the
stream follow one another without a gap up to the tail (`StreamWhole`), without which
the size read after one packet could be any byte. Given it, the size the loop goes by is
that of the packet at the boundary (`SizeKnown`), and each pass hands that packet over
or keeps its beginning. With `StaleTest` the test no longer means what `WholePacketKeeps`
needs, as `stale_stream` shows.

*Tokens.* `ActiveHasToken` says that every active NPC is covered (`Covered`): by a token in
a queue, in the timer thread's hand, or in the hands of a worker that is about to push
one. With `TypeOK` it is inductive. `StaysCovered` is the step every worker has in common:
what it does leaves the other workers' hands alone, so only its own NPC needs looking at;
`BeatCovers` and `PacketCovers` look, action by action. The place of `BtPush` before
`BtSleep` is what makes it true, and `torn` what limits it: `PushAdds` gives a token only
in a queue that is not torn. `TypesHold` keeps
players on the board (`WalkStays`), as nothing comes between their test and their store;
of an NPC's place it only says that the model cuts it off at `Drift` (`StoreStays`).

*Views of 2016.* `ViewsExact` is inductive with `TypeOK`. Each handler's lemma compares
the list it leaves with the new board; what it needs of the old list is just `ViewsExact`
before the step, and that sight is mutual (`RangeIsMutual`), because a handler tests one
direction and changes two lists. `DisplayExact` is inductive given `ViewsExact` before and
after the step: what is listed is then a matter of positions, and only the packets of the
handler are left to compare with it.

*Echo.* `DisplayFollows` is not inductive: it says nothing of the packets a worker still
has in its hands when the client leaves. `Linked` adds what the code's session handling
guarantees: only the connection's own slot has packets in a buffer, no receive is posted
while it has, and a client that waits to be accepted has been told nothing. `MovesPaired`
counts moves as cardinalities of sets of positions, so what appending to a sequence or
taking from its front does to the count is a matter of sets (`CountConcat`), not of
induction. With `Linked` it is inductive: each step keeps, on each axis, the parity of keys
recorded down, moves on their way and steps made.

The hypothesis `HardResets = FALSE` of the sessions cannot be dropped: with resets the
environment's step no longer keeps `OwnerInv`. Nor can that of `NpcSightSettles`: a late
error completion frees a slot whose old worker is still in `ProcessPacket`, the next
client's first packet is then served by a second worker, and when the first one merges
its old scan after the second has copied the list, an NPC stays in the list that the
move took out of sight, with no beat queued.

Left to TLC are the liveness properties and everything about fairness (`DeliversAll`,
`ComesToSee`, `LosesSight`, `KeepsMoving`, `FallsAsleep`, `LetGoSettles`), which are out of
the prover's reach. Every other property of a passing run has a theorem.

## 5. Not modelled

- **The view lists of the student server** (`server_main.cpp`). It takes a `std::mutex`
  that the same thread holds: in `ProcessPacket` (338 and 353-355; 343-348, 357-362 and
  371-385 leave peers' lists locked) and in `Heart_Beat` (775-780, 785-799). That is
  undefined in C++, and where it blocks the server stops within a few packets; there is no
  behaviour to state properties of. Its reassembly test is modelled.
- **Truncation on the wire** (`protocol.h`): ids are cut to WORD and coordinates to BYTE.
  With the constants of 2017Server clients are told of wrong objects at wrong places from
  the start, and no text of the repository denies it. `EchoGame` has the cut, where client
  and server agree on it.
- **The 32-bit clock**: a due entry may fire at any time in these models, which covers
  every order the wrap of `GetTickCount` can cause; that entries fire in time is claimed
  nowhere.
- **The 2D client's own identifier and reassembly**: it takes the first Put's id for its
  own. 2017Server may send another Put first (497); the hazard is listed, the client's
  confusion is not modelled. Its reassembly is the servers' loop.
- **A WSARecv that fails in `IOCPClient`** (123): the loop then uses a variable that was
  never set.
- **`npc_control_thread`** is compiled out (`_USE_AI_THREAD`).
- **Drawing, scripts, timers and files**: `gpdumb1`, the Direct2D managers, `DropManager`,
  `InputScript`, the frame timers, `MiniDump.h`, `obdc.cpp`. They touch no state of the
  game. Together with the vendored Lua headers (three copies) and the textbook graphics
  library they are most of the repository's lines, so that the models cover a small share
  of them although they cover the servers' own logic.
- **`2017_GameServer`** is an empty skeleton, and `Lua_2017` a sample around a third-party
  interpreter.

## 6. What could follow

1. Theorems for handlers that overlap: what `WorkersSpec` guarantees of two players'
   lists, of which `ComesToSee` and `LosesSight` are the liveness side.
2. `SleepServer` with handlers that overlap, as `ViewServer` does for 2017Server, and
   composed with `SleepingNpc`.
3. The 2D client's identifier, composed with `AcceptThread`'s sends.
