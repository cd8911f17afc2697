------------------------------- MODULE EchoGame -------------------------------
(***************************************************************************)
(* The client framework IOCPClient_2017 and the server IOCPServer_2017 it  *)
(* talks to, end to end: InputManager turns the keyboard or a gamepad into *)
(* a queue of key events, IOCPClient sends each event as a move, the       *)
(* server moves the player and sends the position back, and the client     *)
(* draws it there.                                                         *)
(*                                                                         *)
(* The client is one thread: a step is a message it dispatches, or one of  *)
(* the two halves of FrameAdvance that touch the input, Update and the     *)
(* scene's update; keys and sticks change between any two of them.  A step *)
(* of the server is one accept, one completion or one packet.              *)
(***************************************************************************)
EXTENDS Integers, Sequences, FiniteSets

CONSTANTS
  MaxUser,     \* slots of the server (1000)
  Keys,        \* the arrow keys the player uses
  Start,       \* where a player starts, on both axes (100)
  Step,        \* cells per move (10)
  ByteRange,   \* values of a coordinate in a packet (256)
  MaxTouches   \* bound: presses, stick moves, pad plugs, losses of the focus, and
               \* frames in which a key is only believed to be down

YK_LEFT  == 0
YK_RIGHT == 1
YK_UP    == 2
YK_DOWN  == 3

ASSUME EchoAssumption ==
  /\ Keys \subseteq {YK_LEFT, YK_RIGHT, YK_UP, YK_DOWN}
  /\ MaxUser \in Nat \ {0} /\ Start \in Nat /\ Step \in Nat \ {0}
  /\ ByteRange \in Nat /\ Start < ByteRange /\ MaxTouches \in Nat

Slots == 0 .. MaxUser - 1
Horizontal == {YK_LEFT, YK_RIGHT}

(* A connection is in its slot, or in no slot yet, or in none any more.    *)
None    == -1
Backlog == -2
Refused == -3

VARIABLES
  keyboard,      \* the keys that are down
  since,         \* pressed since GetAsyncKeyState was last asked of them
  focus,         \* do the keyboard's messages go to the client's window?
  told,          \* down according to the messages that its queue was given
  known,         \* down according to those it has dispatched (pKeysBuffer)
  plugged,       \* is a gamepad connected?
  dpad, stick,   \* its buttons that are down; where its left stick points
  touches,       \* how many so far of what MaxTouches bounds
  pc,            \* the client's loop: "peek", "update" or "scene"
  m_bConnect,    \* was the gamepad connected at the last Update?
  m_bKeyState,   \* the keys recorded down
  bStick,        \* the keys recorded as pressed by the stick
  m_bInputQueue, \* key events that have not been sent, as their keys
  pos,           \* where the client draws its player
  conn,          \* the connection: None, Backlog, Refused or its slot
  up, down,      \* moves on their way to the server, positions on their way back
  bConnected,    \* the slots in use
  eof,           \* slots in use whose remote end has closed
  posted,        \* slots with a receive outstanding
  buffer,        \* the packets of the receive that is being processed
  place          \* player_info.x, player_info.y

pad    == <<plugged, dpad, stick>>
window == <<focus, told>>
hands  == <<keyboard, since, pad, touches, window>>
input  == <<m_bConnect, m_bKeyState, bStick, m_bInputQueue>>
server == <<bConnected, eof, posted, buffer, place>>
wire   == <<up, down>>
vars   == <<hands, known, pc, input, pos, conn, wire, server>>

Origin == [x |-> Start, y |-> Start]

Moved(at, k) ==
  CASE k = YK_LEFT  -> [at EXCEPT !.x = @ - Step]
    [] k = YK_RIGHT -> [at EXCEPT !.x = @ + Step]
    [] k = YK_UP    -> [at EXCEPT !.y = @ - Step]
    [] k = YK_DOWN  -> [at EXCEPT !.y = @ + Step]

(* sc_packet_pos with coordinates that are not cut to a BYTE.              *)
PacketPosWide(at) == at

(* sc_packet_pos holds each coordinate, an int, in a BYTE.                 *)
PacketPos(at) == [x |-> at.x % ByteRange, y |-> at.y % ByteRange]

(* The loops over the keys run in the order of YT_KEY.                     *)
One(k, S) == IF k \in S THEN <<k>> ELSE <<>>
InOrder(S) == One(YK_LEFT, S) \o One(YK_RIGHT, S) \o One(YK_UP, S) \o One(YK_DOWN, S)

Init ==
  /\ keyboard = {} /\ since = {} /\ plugged = FALSE
  /\ focus = FALSE /\ told = {} /\ known = {}
  /\ dpad = {} /\ stick = {} /\ touches = 0
  /\ pc = "peek" /\ m_bConnect = FALSE /\ m_bKeyState = {} /\ bStick = {}
  /\ m_bInputQueue = <<>> /\ pos = Origin /\ conn = None
  /\ up = <<>> /\ down = <<>>
  /\ bConnected = {} /\ eof = {} /\ posted = {}
  /\ buffer = [p \in Slots |-> <<>>] /\ place = [p \in Slots |-> Origin]

-----------------------------------------------------------------------------
(* The player's hands.                                                     *)

Touch == touches < MaxTouches /\ touches' = touches + 1
Still == UNCHANGED <<known, pc, input, pos, conn, wire, server>>

(* Only while the window has the focus is it told of a key; a key held down *)
(* may also repeat its message.                                            *)
PressKey(k) ==
  /\ Touch /\ k \notin keyboard
  /\ keyboard' = keyboard \cup {k} /\ since' = since \cup {k}
  /\ told' = IF focus THEN told \cup {k} ELSE told
  /\ UNCHANGED <<pad, focus>> /\ Still

RepeatKey(k) ==
  /\ focus /\ k \in keyboard \ told /\ told' = told \cup {k}
  /\ UNCHANGED <<keyboard, since, pad, touches, focus>> /\ Still

ReleaseKey(k) ==
  /\ k \in keyboard /\ keyboard' = keyboard \ {k}
  /\ told' = IF focus THEN told \ {k} ELSE told
  /\ UNCHANGED <<since, pad, touches, focus>> /\ Still

LoseFocus ==
  /\ Touch /\ focus /\ focus' = FALSE
  /\ UNCHANGED <<keyboard, since, pad, told>> /\ Still

(* What happened to the keys meanwhile, the window may or may not learn.   *)
GainFocus ==
  /\ ~focus /\ conn # None /\ focus' = TRUE
  /\ told' \in {told, keyboard}
  /\ UNCHANGED <<keyboard, since, pad, touches>> /\ Still

PressPad(k) ==
  /\ Touch /\ plugged /\ k \notin dpad /\ dpad' = dpad \cup {k}
  /\ UNCHANGED <<keyboard, since, plugged, stick, window>> /\ Still

ReleasePad(k) ==
  /\ k \in dpad /\ dpad' = dpad \ {k}
  /\ UNCHANGED <<keyboard, since, plugged, stick, touches, window>> /\ Still

(* The stick's two axes are tested one by one: pointing askew, it presses  *)
(* a key of each.                                                          *)
Tilts == {S \in SUBSET Keys : /\ Cardinality(S \cap Horizontal) <= 1
                              /\ Cardinality(S \ Horizontal) <= 1}

TiltStick(S) ==
  /\ Touch /\ plugged /\ ~(S \subseteq stick) /\ stick' = S
  /\ UNCHANGED <<keyboard, since, plugged, dpad, window>> /\ Still

RestStick(S) ==
  /\ S \subseteq stick /\ S # stick /\ stick' = S
  /\ UNCHANGED <<keyboard, since, plugged, dpad, touches, window>> /\ Still

Plug ==
  /\ Touch /\ ~plugged /\ plugged' = TRUE
  /\ UNCHANGED <<keyboard, since, dpad, stick, window>> /\ Still

Unplug ==
  /\ plugged /\ plugged' = FALSE /\ dpad' = {} /\ stick' = {}
  /\ UNCHANGED <<keyboard, since, touches, window>> /\ Still

Hands ==
  \/ \E k \in Keys : \/ PressKey(k) \/ RepeatKey(k) \/ ReleaseKey(k)
                     \/ PressPad(k) \/ ReleasePad(k)
  \/ \E S \in Tilts : TiltStick(S) \/ RestStick(S)
  \/ LoseFocus \/ GainFocus \/ Plug \/ Unplug

-----------------------------------------------------------------------------
(* The client.  wWinMain dispatches what PeekMessage finds, and when it    *)
(* finds nothing it advances a frame.                                      *)

DispatchKeys ==
  /\ pc = "peek" /\ conn # None /\ known # told
  /\ known' = told
  /\ UNCHANGED <<hands, pc, input, pos, conn, wire, server>>

(* FD_READ: some packets have arrived, and each moves the player.          *)
ReadPacket ==
  /\ pc = "peek" /\ conn # None /\ down # <<>>
  /\ \E n \in 1 .. Len(down) :
       pos' = down[n] /\ down' = SubSeq(down, n + 1, Len(down))
  /\ UNCHANGED <<hands, known, pc, input, conn, up, server>>

(* While the messages leave a key down that is up, every frame releases    *)
(* the key and presses it again: MaxTouches bounds these frames.           *)
NoMessage ==
  /\ pc = "peek" /\ conn # None /\ known = told /\ down = <<>>
  /\ IF known \subseteq keyboard THEN UNCHANGED touches ELSE Touch
  /\ pc' = "update"
  /\ UNCHANGED <<keyboard, since, pad, window, known, input, pos, conn, wire, server>>

(* A recorded key is up when GetAsyncKeyState is 0: not down now, and not  *)
(* pressed since it was last asked.  The messages may not say so yet.      *)
UpdateKeyBoard == {k \in m_bKeyState : k \notin keyboard \cup since}

(* The break taken for every key the stick once pressed.                   *)
UpdateGamePadStuck ==
  LET held(k) == k \in m_bKeyState \ dpad /\ k \in bStick
  IN {k \in m_bKeyState \ dpad : \A j \in Keys : j <= k => ~held(j)}

(* A key that the stick still holds breaks the loop: the keys after it are *)
(* not looked at.                                                          *)
UpdateGamePad ==
  LET held(k) == k \in m_bKeyState \ dpad /\ k \in bStick /\ k \in stick
  IN {k \in m_bKeyState \ dpad : \A j \in Keys : j <= k => ~held(j)}

(* InputManager::Update, down to InputDataSending, which sends every event *)
(* as a move, whether the key went down or up.  A connection that was      *)
(* refused takes no more packets.                                          *)
Update ==
  LET released == IF plugged THEN UpdateGamePad ELSE UpdateKeyBoard
      events   == m_bInputQueue \o InOrder(released)
  IN /\ pc = "update"
     /\ m_bConnect' = plugged
     /\ m_bKeyState' = m_bKeyState \ released
     /\ bStick' = IF plugged THEN bStick \ released ELSE bStick
     /\ since' = IF plugged THEN since ELSE since \ m_bKeyState
     /\ up' = IF conn = Refused THEN up ELSE up \o events
     /\ m_bInputQueue' = <<>> /\ pc' = "scene"
     /\ UNCHANGED <<keyboard, pad, touches, window, known, pos, conn, down, server>>

(* A key that is down is pushed at every frame.                            *)
KeyDownAgain(pressed) == pressed

(* KeyBoardDown and KeyPadDown push a key that is not recorded yet.        *)
KeyDown(pressed) == pressed \ m_bKeyState

(* CPlayer::update asks KeyDown for the four arrows.                       *)
SceneUpdate ==
  LET pressed == IF m_bConnect THEN dpad \cup stick ELSE known
  IN /\ pc = "scene"
     /\ m_bInputQueue' = m_bInputQueue \o InOrder(KeyDown(pressed))
     /\ m_bKeyState' = m_bKeyState \cup pressed
     /\ bStick' = IF m_bConnect THEN bStick \cup stick ELSE bStick
     /\ pc' = "peek"
     /\ UNCHANGED <<hands, known, m_bConnect, pos, conn, wire, server>>

(* The client is started, and connects.                                    *)
Launch ==
  /\ conn = None /\ conn' = Backlog
  /\ pc' = "peek" /\ pos' = Origin
  /\ focus' = TRUE /\ told' = keyboard /\ known' = keyboard
  /\ m_bConnect' = FALSE /\ m_bKeyState' = {} /\ bStick' = {}
  /\ m_bInputQueue' = <<>> /\ up' = <<>> /\ down' = <<>>
  /\ UNCHANGED <<keyboard, since, pad, touches, server>>

(* WM_DESTROY (the window, or the key Q) or the key U end the process.  It *)
(* ends in good order when nothing is on its way in either direction.      *)
Exit ==
  /\ pc = "peek" /\ conn \in Slots \cup {Refused}
  /\ up = <<>> /\ down = <<>>
  /\ conn \in Slots => conn \in posted
  /\ conn' = None /\ eof' = eof \cup ({conn} \cap Slots)
  /\ focus' = FALSE /\ told' = {}
  /\ UNCHANGED <<keyboard, since, pad, touches, known, pc, input, pos, wire, bConnected, posted, buffer, place>>

Client == \/ DispatchKeys \/ ReadPacket \/ NoMessage \/ Update \/ SceneUpdate

-----------------------------------------------------------------------------
(* The server.                                                             *)

FirstFree(p) == p \in Slots \ bConnected /\ \A q \in Slots : q < p => q \in bConnected

(* The new player stands where the slot's last player stood.               *)
StartPlaceKept(p) == place[p]

StartPlace(p) == Origin

(* AcceptThread gives the connection the first free slot, or closes it.    *)
AcceptThread ==
  /\ conn = Backlog
  /\ \/ \E p \in Slots :
          /\ FirstFree(p) /\ conn' = p
          /\ bConnected' = bConnected \cup {p} /\ posted' = posted \cup {p}
          /\ place' = [place EXCEPT ![p] = StartPlace(p)]
          /\ UNCHANGED <<up, down>>
     \/ /\ Slots \subseteq bConnected /\ conn' = Refused
        /\ up' = <<>> /\ down' = <<>>
        /\ UNCHANGED <<bConnected, posted, place>>
  /\ UNCHANGED <<hands, known, pc, input, pos, eof, buffer>>

(* WorkerThread: a receive completes with some of the packets.             *)
Receive(p) ==
  /\ p \in posted /\ conn = p /\ up # <<>>
  /\ \E n \in 1 .. Len(up) :
       /\ buffer' = [buffer EXCEPT ![p] = SubSeq(up, 1, n)]
       /\ up' = SubSeq(up, n + 1, Len(up))
  /\ posted' = posted \ {p}
  /\ UNCHANGED <<hands, known, pc, input, pos, conn, down, bConnected, eof, place>>

(* The position is sent before the move is made.                           *)
SentPlaceOld(p) == place[p]

SentPlace(p) == Moved(place[p], Head(buffer[p]))

ProcessPacket(p) ==
  /\ buffer[p] # <<>>
  /\ place' = [place EXCEPT ![p] = Moved(@, Head(buffer[p]))]
  /\ down' = Append(down, PacketPos(SentPlace(p)))
  /\ buffer' = [buffer EXCEPT ![p] = Tail(@)]
  /\ UNCHANGED <<hands, known, pc, input, pos, conn, up, bConnected, eof, posted>>

Rearm(p) ==
  /\ p \in bConnected \ posted /\ buffer[p] = <<>>
  /\ posted' = posted \cup {p}
  /\ UNCHANGED <<hands, known, pc, input, pos, conn, wire, bConnected, eof, buffer, place>>

(* A receive of 0 bytes.  View lists are never filled in this server, so   *)
(* DisconnectClient only closes the socket and frees the slot.             *)
DisconnectClient(p) ==
  /\ p \in posted \cap eof
  /\ bConnected' = bConnected \ {p} /\ eof' = eof \ {p} /\ posted' = posted \ {p}
  /\ UNCHANGED <<hands, known, pc, input, pos, conn, wire, buffer, place>>

WorkerThread ==
  \E p \in Slots : Receive(p) \/ ProcessPacket(p) \/ Rearm(p) \/ DisconnectClient(p)

Next == Hands \/ Client \/ Launch \/ Exit \/ AcceptThread \/ WorkerThread

Spec == Init /\ [][Next]_vars

(* The threads of both programs run on.  Nothing is assumed of the player, *)
(* nor of the window's focus.                                              *)
Fairness == WF_vars(Client) /\ WF_vars(AcceptThread) /\ WF_vars(WorkerThread)

LiveSpec == Spec /\ Fairness

-----------------------------------------------------------------------------
Place == [x : Int, y : Int]
Shown == [x : 0 .. ByteRange - 1, y : 0 .. ByteRange - 1]

HandsOK ==
  /\ keyboard \subseteq Keys /\ since \subseteq Keys
  /\ focus \in BOOLEAN /\ told \subseteq Keys /\ known \subseteq Keys
  /\ plugged \in BOOLEAN /\ dpad \subseteq Keys /\ stick \subseteq Keys
  /\ touches \in 0 .. MaxTouches

ClientOK ==
  /\ pc \in {"peek", "update", "scene"} /\ m_bConnect \in BOOLEAN
  /\ m_bKeyState \subseteq Keys /\ bStick \subseteq Keys /\ m_bInputQueue \in Seq(Keys)
  /\ pos \in Shown /\ conn \in Slots \cup {None, Backlog, Refused}
  /\ up \in Seq(Keys) /\ down \in Seq(Shown)

ServerOK ==
  /\ bConnected \subseteq Slots /\ posted \subseteq bConnected /\ eof \subseteq bConnected
  /\ buffer \in [Slots -> Seq(Keys)] /\ place \in [Slots -> Place]

(* Types: what the client draws fits a packet, and a slot is in use while  *)
(* anything is posted for it.                                              *)
TypeOK == HandsOK /\ ClientOK /\ ServerOK

(* What the client draws, once it has read what is on its way, is the      *)
(* player's place in the server, as far as a packet can tell it: for every *)
(* client a slot ever has, at every moment.                                *)
DisplayFollows == conn \in Slots =>
  (IF down = <<>> THEN pos ELSE down[Len(down)]) = PacketPos(place[conn])

Odd(n) == n % 2 = 1
CountIn(s, S) == Cardinality({i \in DOMAIN s : s[i] \in S})

Pending == m_bInputQueue \o up \o (IF conn \in Slots THEN buffer[conn] ELSE <<>>)
Standing == IF conn \in Slots THEN place[conn] ELSE Origin

OddSteps(distance, axis) == Odd(distance \div Step + CountIn(Pending, axis))

(* A press and a release are one move each.  On each axis, from the key to *)
(* the server's board, the steps made and the moves on their way are odd   *)
(* in number just when one key of the axis is recorded down: no single     *)
(* move is lost, made twice or made up on the way.                         *)
MovesPaired == conn \in Slots \cup {Backlog} =>
  /\ OddSteps(Standing.x - Start, Horizontal)
       <=> Odd(Cardinality(m_bKeyState \cap Horizontal))
  /\ OddSteps(Standing.y - Start, Keys \ Horizontal)
       <=> Odd(Cardinality(m_bKeyState \ Horizontal))

HandsOff == keyboard = {} /\ dpad = {} /\ stick = {}

AtRest == conn \in Slots =>
  /\ m_bKeyState = {} /\ Pending = <<>> /\ down = <<>>
  /\ pos = PacketPos(place[conn])

(* Once the player has let go for good, and the window's messages have     *)
(* told it so, every key is recorded up, every move has been made, and the *)
(* client draws its player where the server has it: no release is lost,    *)
(* whatever was pressed on the keyboard, the pad and the stick, whichever  *)
(* of them was read, and whatever the keys did while the window had lost   *)
(* the focus.                                                              *)
LetGoSettles == <>[](HandsOff /\ told = {}) /\ <>[](conn # None) => <>[]AtRest
=============================================================================
