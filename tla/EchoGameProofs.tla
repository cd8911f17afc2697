---------------------------- MODULE EchoGameProofs ----------------------------
(***************************************************************************)
(* Proofs about EchoGame, for any number of slots, any step and any width  *)
(* of a coordinate in a packet.                                            *)
(***************************************************************************)
EXTENDS EchoGame, SequenceTheorems, FiniteSetTheorems, TLAPS

USE DEF Slots, None, Backlog, Refused, Place, Shown, pad, window

(* A key pushed on the queue is one of the player's keys.                  *)
LEMMA InOrderType ==
  ASSUME NEW S, S \subseteq Keys
  PROVE  InOrder(S) \in Seq(Keys)
<1>1. \A k : One(k, S) \in Seq(Keys)
  BY DEF One
<1> QED
  BY <1>1 DEF InOrder

LEMMA MovedType ==
  ASSUME NEW at \in Place, NEW k \in Keys
  PROVE  Moved(at, k) \in Place
<1>1. k \in {YK_LEFT, YK_RIGHT, YK_UP, YK_DOWN} /\ Step \in Nat
  BY EchoAssumption
<1> QED
  BY <1>1 DEF Moved, YK_LEFT, YK_RIGHT, YK_UP, YK_DOWN

LEMMA PacketPosType ==
  ASSUME NEW at \in Place
  PROVE  PacketPos(at) \in Shown
<1>1. ByteRange \in Nat /\ ByteRange > 0
  BY EchoAssumption
<1>2. \A n \in Int : n % ByteRange \in 0 .. ByteRange - 1
  BY <1>1
<1> QED
  BY <1>2 DEF PacketPos

(* A new player stands where its client draws it.                          *)
LEMMA OriginIsShown == Origin \in Place /\ Origin \in Shown /\ PacketPos(Origin) = Origin
  BY EchoAssumption DEF Origin, PacketPos

LEMMA FrontAndRest ==
  ASSUME NEW T, NEW s \in Seq(T), NEW n \in 1 .. Len(s)
  PROVE  /\ SubSeq(s, 1, n) \in Seq(T)
         /\ SubSeq(s, n + 1, Len(s)) \in Seq(T)
         /\ s[n] \in T
<1>1. Len(s) \in Nat /\ \A i \in 1 .. Len(s) : s[i] \in T
  OBVIOUS
<1>2. \A i \in 1 .. n : s[i] \in T
  BY <1>1
<1>3. \A i \in n + 1 .. Len(s) : s[i] \in T
  BY <1>1
<1>4. SubSeq(s, 1, n) \in Seq(T)
  BY <1>1, <1>2, SubSeqProperties
<1>5. SubSeq(s, n + 1, Len(s)) \in Seq(T)
  BY <1>1, <1>3, SubSeqProperties
<1> QED
  BY <1>1, <1>4, <1>5

(* What is left of a sequence ends as the whole of it did.                 *)
LEMMA RestEndsTheSame ==
  ASSUME NEW T, NEW s \in Seq(T), NEW n \in 1 .. Len(s)
  PROVE  LET r == SubSeq(s, n + 1, Len(s))
         IN  s[Len(s)] = IF r = <<>> THEN s[n] ELSE r[Len(r)]
<1> DEFINE r == SubSeq(s, n + 1, Len(s))
<1> SUFFICES s[Len(s)] = IF r = <<>> THEN s[n] ELSE r[Len(r)]
  OBVIOUS
<1>1. Len(s) \in Nat /\ \A i \in n + 1 .. Len(s) : s[i] \in T
  OBVIOUS
<1>2. CASE n = Len(s)
  <2>1. r = <<>>
    BY <1>1, <1>2, SubSeqEmpty
  <2> QED BY <1>2, <2>1
<1>3. CASE n # Len(s)
  <2>0. n < Len(s)
    BY <1>1, <1>3
  <2>1. /\ Len(r) = Len(s) - n
        /\ \A i \in 1 .. Len(s) - (n + 1) + 1 : r[i] = s[(n + 1) + i - 1]
    BY <1>1, <2>0, SubSeqProperties
  <2>2. Len(s) - n \in 1 .. Len(s) - (n + 1) + 1
    BY <1>1, <2>0
  <2>3. r[Len(r)] = s[(n + 1) + (Len(s) - n) - 1]
    BY <2>1, <2>2
  <2>4. (n + 1) + (Len(s) - n) - 1 = Len(s)
    BY <1>1
  <2>5. r # <<>>
    <3>1. Len(r) # 0
      BY <1>1, <2>0, <2>1
    <3>2. Len(<<>>) = 0
      OBVIOUS
    <3> QED BY <3>1, <3>2, Zenon
  <2>6. r[Len(r)] = s[Len(s)]
    BY <2>3, <2>4
  <2> QED BY <2>5, <2>6, Zenon
<1> QED
  BY <1>2, <1>3

-----------------------------------------------------------------------------
LEMMA InitTypes == Init => TypeOK
<1> SUFFICES ASSUME Init PROVE TypeOK
  OBVIOUS
<1>1. HandsOK
  BY EchoAssumption DEF Init, HandsOK
<1>2. ClientOK
  <2>1. <<>> \in Seq(Keys) /\ <<>> \in Seq(Shown)
    OBVIOUS
  <2>2. pos \in Shown /\ conn = None
    BY OriginIsShown DEF Init
  <2> QED BY <2>1, <2>2 DEF Init, ClientOK
<1>3. ServerOK
  <2>1. <<>> \in Seq(Keys)
    OBVIOUS
  <2> QED BY <2>1, OriginIsShown DEF Init, ServerOK
<1> QED BY <1>1, <1>2, <1>3 DEF TypeOK

(* The hands change nothing but the keys, the pad and the stick.           *)
LEMMA HandsTypes == TypeOK /\ Hands => TypeOK'
<1> SUFFICES ASSUME TypeOK, Hands PROVE TypeOK'
  OBVIOUS
<1>1. Still
  BY DEF Hands, PressKey, RepeatKey, ReleaseKey, LoseFocus, GainFocus, PressPad, ReleasePad,
     TiltStick, RestStick, Plug, Unplug
<1>2. ClientOK' /\ ServerOK' /\ known' = known
  BY <1>1 DEF TypeOK, Still, input, wire, server, ClientOK, ServerOK
<1> USE DEF TypeOK, HandsOK, Hands, PressKey, RepeatKey, ReleaseKey, LoseFocus, GainFocus,
            PressPad, ReleasePad, TiltStick, RestStick, Tilts, Plug, Unplug
<1>3. touches' \in 0 .. MaxTouches
  <2>1. touches' = touches \/ Touch
    BY Zenon
  <2> QED BY <2>1, EchoAssumption DEF Touch
<1>4. keyboard' \subseteq Keys /\ since' \subseteq Keys /\ told' \subseteq Keys
  OBVIOUS
<1>5. plugged' \in BOOLEAN /\ focus' \in BOOLEAN
  OBVIOUS
<1>6. dpad' \subseteq Keys /\ stick' \subseteq Keys
  OBVIOUS
<1>7. HandsOK'
  BY <1>2, <1>3, <1>4, <1>5, <1>6 DEF HandsOK, TypeOK
<1> QED BY <1>2, <1>7 DEF TypeOK

LEMMA UpdateTypes == TypeOK /\ Update => TypeOK'
<1> SUFFICES ASSUME TypeOK, Update PROVE TypeOK'
  OBVIOUS
<1> DEFINE released == IF plugged THEN UpdateGamePad ELSE UpdateKeyBoard
           events   == m_bInputQueue \o InOrder(released)
<1>1. released \subseteq m_bKeyState /\ released \subseteq Keys
  BY DEF TypeOK, ClientOK, UpdateGamePad, UpdateKeyBoard
<1>2. events \in Seq(Keys)
  <2>1. InOrder(released) \in Seq(Keys)
    BY <1>1, InOrderType
  <2> QED BY <2>1 DEF TypeOK, ClientOK
<1>3. /\ m_bConnect' = plugged /\ m_bKeyState' = m_bKeyState \ released
      /\ bStick' = IF plugged THEN bStick \ released ELSE bStick
      /\ since' = IF plugged THEN since ELSE since \ m_bKeyState
      /\ up' = IF conn = Refused THEN up ELSE up \o events
      /\ m_bInputQueue' = <<>> /\ pc' = "scene"
      /\ UNCHANGED <<keyboard, pad, touches, window, known, pos, conn, down,
                     bConnected, eof, posted, buffer, place>>
  BY DEF Update, server
<1> HIDE DEF released, events
<1>4. up' \in Seq(Keys)
  BY <1>2, <1>3 DEF TypeOK, ClientOK
<1>5. HandsOK'
  BY <1>3 DEF TypeOK, HandsOK
<1>6. ClientOK'
  BY <1>1, <1>3, <1>4 DEF TypeOK, HandsOK, ClientOK
<1>7. ServerOK'
  BY <1>3 DEF TypeOK, ServerOK
<1> QED BY <1>5, <1>6, <1>7 DEF TypeOK

LEMMA SceneTypes == TypeOK /\ SceneUpdate => TypeOK'
<1> SUFFICES ASSUME TypeOK, SceneUpdate PROVE TypeOK'
  OBVIOUS
<1> DEFINE pressed == IF m_bConnect THEN dpad \cup stick ELSE known
<1>1. pressed \subseteq Keys /\ KeyDown(pressed) \subseteq Keys
  BY DEF TypeOK, HandsOK, KeyDown
<1>2. InOrder(KeyDown(pressed)) \in Seq(Keys)
  BY <1>1, InOrderType
<1>3. /\ m_bInputQueue' = m_bInputQueue \o InOrder(KeyDown(pressed))
      /\ m_bKeyState' = m_bKeyState \cup pressed
      /\ bStick' = IF m_bConnect THEN bStick \cup stick ELSE bStick
      /\ pc' = "peek"
      /\ UNCHANGED <<hands, known, m_bConnect, pos, conn, wire, server>>
  BY DEF SceneUpdate
<1> HIDE DEF pressed
<1>4. HandsOK'
  BY <1>3 DEF TypeOK, HandsOK, hands
<1>5. ClientOK'
  BY <1>1, <1>2, <1>3 DEF TypeOK, HandsOK, ClientOK, wire
<1>6. ServerOK'
  BY <1>3 DEF TypeOK, ServerOK, server
<1> QED BY <1>4, <1>5, <1>6 DEF TypeOK

LEMMA ClientTypes == TypeOK /\ (DispatchKeys \/ ReadPacket \/ NoMessage) => TypeOK'
<1> SUFFICES ASSUME TypeOK, DispatchKeys \/ ReadPacket \/ NoMessage PROVE TypeOK'
  OBVIOUS
<1>1. CASE DispatchKeys
  BY <1>1 DEF DispatchKeys, TypeOK, HandsOK, ClientOK, ServerOK, hands, input, wire, server
<1>2. CASE NoMessage
  <2>1. touches' \in 0 .. MaxTouches
    BY <1>2, EchoAssumption DEF NoMessage, Touch, TypeOK, HandsOK
  <2> QED
    BY <1>2, <2>1 DEF NoMessage, TypeOK, HandsOK, ClientOK, ServerOK, input, wire, server
<1>3. CASE ReadPacket
  <2>1. PICK n \in 1 .. Len(down) :
          pos' = down[n] /\ down' = SubSeq(down, n + 1, Len(down))
    BY <1>3 DEF ReadPacket
  <2>2. pos' \in Shown /\ down' \in Seq(Shown)
    BY <2>1, FrontAndRest DEF TypeOK, ClientOK
  <2>3. UNCHANGED <<hands, known, pc, input, conn, up, server>>
    BY <1>3 DEF ReadPacket
  <2> QED
    BY <2>2, <2>3 DEF TypeOK, HandsOK, ClientOK, ServerOK, hands, input, server
<1> QED BY <1>1, <1>2, <1>3

LEMMA LifeTypes == TypeOK /\ (Launch \/ Exit \/ AcceptThread) => TypeOK'
<1> SUFFICES ASSUME TypeOK, Launch \/ Exit \/ AcceptThread PROVE TypeOK'
  OBVIOUS
<1>0. <<>> \in Seq(Keys) /\ <<>> \in Seq(Shown)
  OBVIOUS
<1>1. CASE Launch
  BY <1>0, <1>1, OriginIsShown
  DEF Launch, TypeOK, HandsOK, ClientOK, ServerOK, hands, server
<1>2. CASE Exit
  <2>1. conn \in Slots => conn \in bConnected
    BY <1>2 DEF Exit, TypeOK, ServerOK
  <2>2. eof' \subseteq bConnected /\ conn' = None
    BY <1>2, <2>1 DEF Exit, TypeOK, ServerOK
  <2>3. /\ focus' = FALSE /\ told' = {}
        /\ UNCHANGED <<keyboard, since, pad, touches, known, pc, input, pos, wire,
                       bConnected, posted, buffer, place>>
    BY <1>2 DEF Exit
  <2> QED
    BY <2>2, <2>3 DEF TypeOK, HandsOK, ClientOK, ServerOK, hands, input, wire
<1>3. CASE AcceptThread
  <2>1. UNCHANGED <<hands, known, pc, input, pos, eof, buffer>>
    BY <1>3 DEF AcceptThread
  <2>2. CASE \E p \in Slots :
          /\ FirstFree(p) /\ conn' = p
          /\ bConnected' = bConnected \cup {p} /\ posted' = posted \cup {p}
          /\ place' = [place EXCEPT ![p] = StartPlace(p)]
          /\ UNCHANGED <<up, down>>
    <3>1. PICK p \in Slots :
          /\ conn' = p
          /\ bConnected' = bConnected \cup {p} /\ posted' = posted \cup {p}
          /\ place' = [place EXCEPT ![p] = Origin]
          /\ UNCHANGED <<up, down>>
      BY <2>2 DEF StartPlace
    <3>2. place' \in [Slots -> Place]
      BY <3>1, OriginIsShown DEF TypeOK, ServerOK
    <3>3. ServerOK'
      BY <2>1, <3>1, <3>2 DEF TypeOK, ServerOK
    <3> QED
      BY <2>1, <3>1, <3>3 DEF TypeOK, HandsOK, ClientOK, hands, input
  <2>3. CASE /\ conn' = Refused /\ up' = <<>> /\ down' = <<>>
             /\ UNCHANGED <<bConnected, posted, place>>
    BY <1>0, <2>1, <2>3 DEF TypeOK, HandsOK, ClientOK, ServerOK, hands, input
  <2> QED BY <1>3, <2>2, <2>3 DEF AcceptThread
<1> QED BY <1>1, <1>2, <1>3

LEMMA WorkerTypes == TypeOK /\ WorkerThread => TypeOK'
<1> SUFFICES ASSUME TypeOK, WorkerThread PROVE TypeOK'
  OBVIOUS
<1>1. PICK p \in Slots : Receive(p) \/ ProcessPacket(p) \/ Rearm(p) \/ DisconnectClient(p)
  BY DEF WorkerThread
<1>2. CASE Receive(p)
  <2>1. PICK n \in 1 .. Len(up) :
          /\ buffer' = [buffer EXCEPT ![p] = SubSeq(up, 1, n)]
          /\ up' = SubSeq(up, n + 1, Len(up))
    BY <1>2 DEF Receive
  <2>2. up' \in Seq(Keys) /\ SubSeq(up, 1, n) \in Seq(Keys)
    BY <2>1, FrontAndRest DEF TypeOK, ClientOK
  <2>3. buffer' \in [Slots -> Seq(Keys)]
    BY <2>1, <2>2 DEF TypeOK, ServerOK
  <2>4. /\ posted' = posted \ {p}
        /\ UNCHANGED <<hands, known, pc, input, pos, conn, down, bConnected, eof, place>>
    BY <1>2 DEF Receive
  <2> QED
    BY <2>2, <2>3, <2>4 DEF TypeOK, HandsOK, ClientOK, ServerOK, hands, input
<1>3. CASE ProcessPacket(p)
  <2>1. buffer[p] \in Seq(Keys) /\ buffer[p] # <<>> /\ place[p] \in Place
    BY <1>3 DEF ProcessPacket, TypeOK, ServerOK
  <2>2. Head(buffer[p]) \in Keys /\ Tail(buffer[p]) \in Seq(Keys)
    BY <2>1, HeadTailProperties
  <2>3. SentPlace(p) \in Place
    BY <2>1, <2>2, MovedType DEF SentPlace
  <2>4. PacketPos(SentPlace(p)) \in Shown
    BY <2>3, PacketPosType
  <2>5. /\ place' = [place EXCEPT ![p] = SentPlace(p)]
        /\ down' = Append(down, PacketPos(SentPlace(p)))
        /\ buffer' = [buffer EXCEPT ![p] = Tail(buffer[p])]
        /\ UNCHANGED <<hands, known, pc, input, pos, conn, up, bConnected, eof, posted>>
    BY <1>3 DEF ProcessPacket, SentPlace
  <2>6. down' \in Seq(Shown)
    BY <2>4, <2>5, AppendProperties DEF TypeOK, ClientOK
  <2>7. place' \in [Slots -> Place] /\ buffer' \in [Slots -> Seq(Keys)]
    BY <2>2, <2>3, <2>5 DEF TypeOK, ServerOK
  <2> QED
    BY <2>5, <2>6, <2>7 DEF TypeOK, HandsOK, ClientOK, ServerOK, hands, input
<1>4. CASE Rearm(p)
  BY <1>4 DEF Rearm, TypeOK, HandsOK, ClientOK, ServerOK, hands, input, wire
<1>5. CASE DisconnectClient(p)
  BY <1>5 DEF DisconnectClient, TypeOK, HandsOK, ClientOK, ServerOK, hands, input, wire
<1> QED BY <1>1, <1>2, <1>3, <1>4, <1>5

LEMMA StutterTypes == TypeOK /\ UNCHANGED vars => TypeOK'
BY DEF TypeOK, HandsOK, ClientOK, ServerOK, vars, hands, input, wire, server

(* Every variable of the two programs keeps its type; what the client      *)
(* draws always fits a packet.                                             *)
THEOREM TypesHold == Spec => []TypeOK
<1>1. TypeOK /\ [Next]_vars => TypeOK'
  BY HandsTypes, UpdateTypes, SceneTypes, ClientTypes, LifeTypes, WorkerTypes, StutterTypes
  DEF Next, Client
<1> QED BY InitTypes, <1>1, PTL DEF Spec
-----------------------------------------------------------------------------
(* What DisplayFollows rests on.  Only the slot of the connection has       *)
(* packets in its buffer, and no receive is outstanding while it has; the  *)
(* connection's slot is in use and its remote end is open; and a client    *)
(* that waits to be accepted has been told nothing.                        *)
Linked ==
  /\ \A p \in Slots : buffer[p] # <<>> => conn = p /\ p \notin posted
  /\ conn \in Slots => conn \in bConnected \ eof
  /\ conn = Backlog => down = <<>> /\ pos = Origin

Faithful == TypeOK /\ Linked /\ DisplayFollows

(* The variables Linked and DisplayFollows speak of.                       *)
joint == <<pos, conn, down, bConnected, eof, posted, buffer, place>>

LEMMA InitFaithful == Init => Linked /\ DisplayFollows
<1> SUFFICES ASSUME Init PROVE Linked /\ DisplayFollows
  OBVIOUS
<1>1. conn = None /\ conn \notin Slots /\ conn # Backlog
  BY DEF Init
<1>2. \A p \in Slots : buffer[p] = <<>>
  BY DEF Init
<1> QED BY <1>1, <1>2 DEF Linked, DisplayFollows

(* The player's hands, and the client's steps that read no packet.         *)
LEMMA ApartFaithful ==
  Faithful /\ (Hands \/ DispatchKeys \/ NoMessage \/ Update \/ SceneUpdate \/ UNCHANGED vars)
    => Linked' /\ DisplayFollows'
<1> SUFFICES ASSUME Faithful,
                    Hands \/ DispatchKeys \/ NoMessage \/ Update \/ SceneUpdate \/ UNCHANGED vars
             PROVE  Linked' /\ DisplayFollows'
  OBVIOUS
<1>1. CASE Hands
  BY <1>1 DEF Hands, PressKey, RepeatKey, ReleaseKey, LoseFocus, GainFocus, PressPad,
     ReleasePad, TiltStick, RestStick, Plug, Unplug, Still, wire, server, Faithful, Linked, DisplayFollows
<1>2. CASE ~Hands
  <2>1. UNCHANGED joint
    BY <1>2 DEF DispatchKeys, NoMessage, Update, SceneUpdate, vars, wire, server, joint
  <2> QED BY <2>1 DEF joint, Faithful, Linked, DisplayFollows
<1> QED BY <1>1, <1>2

LEMMA ReadFaithful == Faithful /\ ReadPacket => Linked' /\ DisplayFollows'
<1> SUFFICES ASSUME Faithful, ReadPacket PROVE Linked' /\ DisplayFollows'
  OBVIOUS
<1>1. PICK n \in 1 .. Len(down) :
        pos' = down[n] /\ down' = SubSeq(down, n + 1, Len(down))
  BY DEF ReadPacket
<1>2. down # <<>> /\ UNCHANGED <<conn, server>>
  BY DEF ReadPacket
<1>3. down \in Seq(Shown)
  BY DEF Faithful, TypeOK, ClientOK
<1>4. down[Len(down)] = IF down' = <<>> THEN pos' ELSE down'[Len(down')]
  BY <1>1, <1>3, RestEndsTheSame
<1>5. Linked'
  BY <1>2 DEF Faithful, Linked, server
<1>6. DisplayFollows'
  BY <1>2, <1>4 DEF Faithful, DisplayFollows, server
<1> QED BY <1>5, <1>6

LEMMA LifeFaithful == Faithful /\ (Launch \/ Exit \/ AcceptThread) => Linked' /\ DisplayFollows'
<1> SUFFICES ASSUME Faithful, Launch \/ Exit \/ AcceptThread PROVE Linked' /\ DisplayFollows'
  OBVIOUS
<1>1. CASE Launch
  <2>1. /\ conn = None /\ conn' = Backlog /\ pos' = Origin /\ down' = <<>>
        /\ UNCHANGED server
    BY <1>1 DEF Launch
  <2>2. \A p \in Slots : buffer[p] = <<>>
    BY <2>1 DEF Faithful, Linked
  <2> QED BY <2>1, <2>2 DEF Linked, DisplayFollows, server
<1>2. CASE Exit
  <2>1. conn' = None /\ buffer' = buffer /\ (conn \in Slots => conn \in posted)
    BY <1>2 DEF Exit
  <2>2. \A p \in Slots : buffer[p] = <<>>
    BY <2>1 DEF Faithful, Linked
  <2> QED BY <2>1, <2>2 DEF Linked, DisplayFollows
<1>3. CASE AcceptThread
  <2>1. conn = Backlog /\ UNCHANGED <<pos, eof, buffer>>
    BY <1>3 DEF AcceptThread
  <2>2. down = <<>> /\ pos = Origin /\ \A p \in Slots : buffer[p] = <<>>
    BY <2>1 DEF Faithful, Linked
  <2>3. CASE conn' = Refused
    BY <2>1, <2>2, <2>3 DEF Linked, DisplayFollows
  <2>4. CASE conn' # Refused
    <3>1. PICK p \in Slots :
          /\ FirstFree(p) /\ conn' = p /\ down' = down
          /\ bConnected' = bConnected \cup {p}
          /\ place' = [place EXCEPT ![p] = Origin]
      BY <1>3, <2>4 DEF AcceptThread, StartPlace
    <3>2. p \notin eof /\ place'[p] = Origin
      BY <3>1 DEF Faithful, TypeOK, ServerOK, FirstFree
    <3>3. Linked'
      BY <2>1, <2>2, <3>1, <3>2 DEF Linked
    <3>4. DisplayFollows'
      BY <2>1, <2>2, <3>1, <3>2, OriginIsShown DEF DisplayFollows
    <3> QED BY <3>3, <3>4
  <2> QED BY <2>3, <2>4
<1> QED BY <1>1, <1>2, <1>3

LEMMA WorkerFaithful == Faithful /\ WorkerThread => Linked' /\ DisplayFollows'
<1> SUFFICES ASSUME Faithful, WorkerThread PROVE Linked' /\ DisplayFollows'
  OBVIOUS
<1>1. PICK p \in Slots : Receive(p) \/ ProcessPacket(p) \/ Rearm(p) \/ DisconnectClient(p)
  BY DEF WorkerThread
<1>2. CASE Receive(p)
  <2>1. /\ p \in posted /\ conn = p /\ posted' = posted \ {p}
        /\ UNCHANGED <<pos, conn, down, bConnected, eof, place>>
    BY <1>2 DEF Receive
  <2>2. \A q \in Slots \ {p} : buffer'[q] = buffer[q]
    BY <1>2 DEF Receive, Faithful, TypeOK, ServerOK
  <2> QED BY <2>1, <2>2 DEF Faithful, Linked, DisplayFollows
<1>3. CASE ProcessPacket(p)
  <2>1. /\ buffer[p] # <<>>
        /\ place' = [place EXCEPT ![p] = SentPlace(p)]
        /\ down' = Append(down, PacketPos(SentPlace(p)))
        /\ buffer' = [buffer EXCEPT ![p] = Tail(buffer[p])]
        /\ UNCHANGED <<pos, conn, bConnected, eof, posted>>
    BY <1>3 DEF ProcessPacket, SentPlace
  <2>2. conn = p /\ p \notin posted
    BY <2>1 DEF Faithful, Linked
  <2>3. \A q \in Slots \ {p} : buffer'[q] = buffer[q]
    BY <2>1 DEF Faithful, TypeOK, ServerOK
  <2>4. place'[p] = SentPlace(p)
    BY <2>1 DEF Faithful, TypeOK, ServerOK
  <2>5. Linked'
    BY <2>1, <2>2, <2>3 DEF Faithful, Linked
  <2>6. down' # <<>> /\ down'[Len(down')] = PacketPos(SentPlace(p))
    <3>1. down \in Seq(Shown) /\ buffer[p] \in Seq(Keys) /\ place[p] \in Place
      BY DEF Faithful, TypeOK, ClientOK, ServerOK
    <3>2. PacketPos(SentPlace(p)) \in Shown
      BY <2>1, <3>1, HeadTailProperties, MovedType, PacketPosType DEF SentPlace
    <3>3. /\ Len(down') = Len(down) + 1 /\ Len(down) \in Nat
          /\ down'[Len(down) + 1] = PacketPos(SentPlace(p))
      BY <2>1, <3>1, <3>2, AppendProperties
    <3>4. Len(down') # 0
      BY <3>3
    <3>5. Len(<<>>) = 0
      OBVIOUS
    <3> QED BY <3>3, <3>4, <3>5, Zenon
  <2>7. DisplayFollows'
    BY <2>1, <2>2, <2>4, <2>6 DEF DisplayFollows
  <2> QED BY <2>5, <2>7
<1>4. CASE Rearm(p)
  BY <1>4 DEF Rearm, wire, Faithful, Linked, DisplayFollows
<1>5. CASE DisconnectClient(p)
  <2>1. /\ p \in eof /\ bConnected' = bConnected \ {p} /\ eof' = eof \ {p}
        /\ posted' = posted \ {p}
        /\ UNCHANGED <<pos, conn, wire, buffer, place>>
    BY <1>5 DEF DisconnectClient
  <2> QED BY <2>1 DEF wire, Faithful, Linked, DisplayFollows
<1> QED BY <1>1, <1>2, <1>3, <1>4, <1>5

(* Whatever the player does, however the moves are packed into receives and *)
(* whichever slot a connection gets, the client that has read all that is  *)
(* on its way draws the player where the server has it.                    *)
THEOREM DisplayStaysFaithful == Spec => []DisplayFollows
<1>1. Faithful /\ [Next]_vars => Linked' /\ DisplayFollows'
  BY ApartFaithful, ReadFaithful, LifeFaithful, WorkerFaithful DEF Next, Client
<1> QED BY InitFaithful, <1>1, TypesHold, PTL DEF Spec, Faithful
-----------------------------------------------------------------------------
(* Counting.  The moves in a sequence, and the keys of a set, are counted  *)
(* as cardinalities, so that a step's effect on them is a fact about       *)
(* finite sets.                                                            *)

LEMMA DivStep ==
  ASSUME NEW d \in Int, NEW s \in Nat \ {0}
  PROVE  (d + s) \div s = (d \div s) + 1
  OBVIOUS

LEMMA CountConcat ==
  ASSUME NEW T, NEW s \in Seq(T), NEW t \in Seq(T), NEW S
  PROVE  /\ CountIn(s, S) \in Nat /\ CountIn(t, S) \in Nat
         /\ CountIn(s \o t, S) = CountIn(s, S) + CountIn(t, S)
<1> DEFINE m == Len(s)
           n == Len(t)
           A == {i \in 1 .. m : s[i] \in S}
           B == {i \in 1 .. n : t[i] \in S}
           C == {i \in m + 1 .. m + n : t[i - m] \in S}
           f == [i \in B |-> m + i]
<1>1. m \in Nat /\ n \in Nat /\ DOMAIN s = 1 .. m /\ DOMAIN t = 1 .. n
  OBVIOUS
<1>2. IsFiniteSet(A) /\ IsFiniteSet(B)
  <2>1. IsFiniteSet(1 .. m) /\ IsFiniteSet(1 .. n)
    BY <1>1, FS_Interval
  <2>2. A \in SUBSET (1 .. m) /\ B \in SUBSET (1 .. n)
    OBVIOUS
  <2> QED BY <2>1, <2>2, FS_Subset
<1>3. Cardinality(A) \in Nat /\ Cardinality(B) \in Nat
  BY <1>2, FS_CardinalityType
<1>4. f \in Bijection(B, C)
  <2>1. f \in [B -> C]
    BY <1>1
  <2>2. \A i, j \in B : f[i] = f[j] => i = j
    BY <1>1
  <2>3. \A c \in C : c - m \in B /\ f[c - m] = c
    BY <1>1
  <2> QED BY <2>1, <2>2, <2>3 DEF Bijection, Injection, Surjection, IsInjective
<1>5. IsFiniteSet(C) /\ Cardinality(C) = Cardinality(B)
  <2>1. ExistsBijection(B, C)
    BY <1>4 DEF ExistsBijection
  <2> QED BY <1>2, <2>1, FS_Bijection
<1>6. /\ DOMAIN (s \o t) = 1 .. m + n
      /\ \A i \in 1 .. m + n : (s \o t)[i] = IF i <= m THEN s[i] ELSE t[i - m]
  BY <1>1, ConcatProperties
<1>7. {i \in DOMAIN (s \o t) : (s \o t)[i] \in S} = A \cup C /\ A \cap C = {}
  BY <1>1, <1>6
<1>8. Cardinality(A \cup C) = Cardinality(A) + Cardinality(C)
  <2>1. Cardinality(A \cup C) = Cardinality(A) + Cardinality(C) - Cardinality({})
    BY <1>2, <1>5, <1>7, FS_Union
  <2> QED BY <1>3, <1>5, <2>1, FS_EmptySet
<1>9. CountIn(s, S) = Cardinality(A) /\ CountIn(t, S) = Cardinality(B)
  BY <1>1 DEF CountIn
<1> QED BY <1>3, <1>5, <1>7, <1>8, <1>9 DEF CountIn

LEMMA CountTypes ==
  ASSUME NEW T, NEW s \in Seq(T), NEW S
  PROVE  CountIn(s, S) \in Nat
  BY CountConcat

LEMMA CountNone ==
  ASSUME NEW S
  PROVE  CountIn(<<>>, S) = 0
<1>1. {i \in DOMAIN <<>> : <<>>[i] \in S} = {}
  OBVIOUS
<1> QED BY <1>1, FS_EmptySet DEF CountIn

LEMMA CountSingle ==
  ASSUME NEW k, NEW S
  PROVE  CountIn(<<k>>, S) = IF k \in S THEN 1 ELSE 0
<1>1. DOMAIN <<k>> = {1} /\ <<k>>[1] = k
  OBVIOUS
<1>2. {i \in DOMAIN <<k>> : <<k>>[i] \in S} = IF k \in S THEN {1} ELSE {}
  BY <1>1
<1> QED BY <1>2, FS_EmptySet, FS_Singleton DEF CountIn

LEMMA CountOne ==
  ASSUME NEW k, NEW R, NEW S
  PROVE  CountIn(One(k, R), S) = IF k \in R \cap S THEN 1 ELSE 0
  BY CountNone, CountSingle DEF One

(* The events pushed for a set of keys are one for each of them.           *)
LEMMA InOrderCount ==
  ASSUME NEW R \in SUBSET Keys, NEW S
  PROVE  IsFiniteSet(R \cap S) /\ CountIn(InOrder(R), S) = Cardinality(R \cap S)
<1> DEFINE Q == R \cap S
           c(k) == IF k \in Q THEN 1 ELSE 0
<1>1. Q \subseteq {YK_LEFT, YK_RIGHT, YK_UP, YK_DOWN}
  BY EchoAssumption
<1> USE DEF YK_LEFT, YK_RIGHT, YK_UP, YK_DOWN
<1>2. ASSUME NEW F, IsFiniteSet(F), NEW k, k \notin F
      PROVE  LET G == IF k \in Q THEN F \cup {k} ELSE F
             IN  IsFiniteSet(G) /\ Cardinality(G) = Cardinality(F) + c(k)
  BY <1>2, FS_AddElement, FS_CardinalityType
<1>3. IsFiniteSet(Q \cap {0}) /\ Cardinality(Q \cap {0}) = c(0)
  <2>1. CASE 0 \in Q
    <3>1. Q \cap {0} = {0} /\ c(0) = 1
      BY <2>1
    <3> QED BY <3>1, FS_Singleton
  <2>2. CASE 0 \notin Q
    <3>1. Q \cap {0} = {} /\ c(0) = 0
      BY <2>2
    <3> QED BY <3>1, FS_EmptySet
  <2> QED BY <2>1, <2>2
<1>4. /\ IsFiniteSet(Q \cap {0, 1})
      /\ Cardinality(Q \cap {0, 1}) = c(0) + c(1)
  <2>1. Q \cap {0, 1} = IF 1 \in Q THEN (Q \cap {0}) \cup {1} ELSE Q \cap {0}
    OBVIOUS
  <2> QED BY <1>2, <1>3, <2>1
<1>5. /\ IsFiniteSet(Q \cap {0, 1, 2})
      /\ Cardinality(Q \cap {0, 1, 2}) = c(0) + c(1) + c(2)
  <2>1. Q \cap {0, 1, 2} = IF 2 \in Q THEN (Q \cap {0, 1}) \cup {2} ELSE Q \cap {0, 1}
    OBVIOUS
  <2> QED BY <1>2, <1>4, <2>1
<1>6. /\ IsFiniteSet(Q \cap {0, 1, 2, 3})
      /\ Cardinality(Q \cap {0, 1, 2, 3}) = c(0) + c(1) + c(2) + c(3)
  <2>1. Q \cap {0, 1, 2, 3} = IF 3 \in Q THEN (Q \cap {0, 1, 2}) \cup {3} ELSE Q \cap {0, 1, 2}
    OBVIOUS
  <2> QED BY <1>2, <1>5, <2>1
<1>7. CountIn(InOrder(R), S) = c(0) + c(1) + c(2) + c(3)
  <2>1. \A k : One(k, R) \in Seq(R)
    BY DEF One
  <2>2. \A k : CountIn(One(k, R), S) = c(k)
    BY CountOne
  <2>0. ASSUME NEW u \in Seq(R), NEW v \in Seq(R)
        PROVE  u \o v \in Seq(R) /\ CountIn(u \o v, S) = CountIn(u, S) + CountIn(v, S)
    BY CountConcat, ConcatProperties
  <2> DEFINE a == One(0, R) \o One(1, R)
             b == a \o One(2, R)
  <2>3. a \in Seq(R) /\ CountIn(a, S) = c(0) + c(1)
    BY <2>0, <2>1, <2>2
  <2> HIDE DEF a
  <2>4. b \in Seq(R) /\ CountIn(b, S) = c(0) + c(1) + c(2)
    BY <2>0, <2>1, <2>2, <2>3
  <2> HIDE DEF b
  <2>5. CountIn(b \o One(3, R), S) = c(0) + c(1) + c(2) + c(3)
    BY <2>0, <2>1, <2>2, <2>4
  <2>6. InOrder(R) = b \o One(3, R)
    BY DEF InOrder, a, b
  <2> QED BY <2>5, <2>6
<1>8. Q = Q \cap {0, 1, 2, 3}
  BY <1>1
<1> QED BY <1>6, <1>7, <1>8

-----------------------------------------------------------------------------
(* MovesPaired, axis by axis: the steps made, the moves on their way and   *)
(* the keys recorded down.                                                 *)

InBuffer     == IF conn \in Slots THEN buffer[conn] ELSE <<>>
Waiting(A)   == CountIn(m_bInputQueue, A) + CountIn(up, A) + CountIn(InBuffer, A)
KeysDown(A)  == Cardinality(m_bKeyState \cap A)
Paired(A, d) == Odd((d \div Step) + Waiting(A)) <=> Odd(KeysDown(A))

Vertical == Keys \ Horizontal

PairedBoth ==
  /\ Paired(Horizontal, Standing.x - Start)
  /\ Paired(Vertical, Standing.y - Start)

LEMMA InBufferType == TypeOK => InBuffer \in Seq(Keys) /\ Standing \in Place
<1>1. <<>> \in Seq(Keys)
  OBVIOUS
<1> QED BY <1>1, OriginIsShown DEF TypeOK, ServerOK, InBuffer, Standing

LEMMA CountsAreNumbers ==
  ASSUME TypeOK, NEW A
  PROVE  /\ CountIn(m_bInputQueue, A) \in Nat /\ CountIn(up, A) \in Nat
         /\ CountIn(InBuffer, A) \in Nat /\ Waiting(A) \in Nat /\ KeysDown(A) \in Nat
         /\ IsFiniteSet(m_bKeyState \cap A)
<1>1. IsFiniteSet(m_bKeyState \cap A)
  BY InOrderCount DEF TypeOK, ClientOK
<1> QED BY <1>1, InBufferType, CountTypes, FS_CardinalityType
        DEF TypeOK, ClientOK, Waiting, KeysDown

PairedAxes == conn \in Slots \cup {Backlog} => PairedBoth

LEMMA PairedForm == TypeOK => (MovesPaired <=> PairedAxes)
<1> SUFFICES ASSUME TypeOK PROVE MovesPaired <=> PairedAxes
  OBVIOUS
<1>1. \A A : CountIn(Pending, A) = Waiting(A)
  <2> SUFFICES ASSUME NEW A PROVE CountIn(Pending, A) = Waiting(A)
    OBVIOUS
  <2>1. m_bInputQueue \in Seq(Keys) /\ up \in Seq(Keys) /\ InBuffer \in Seq(Keys)
    BY InBufferType DEF TypeOK, ClientOK
  <2>2. /\ m_bInputQueue \o up \in Seq(Keys)
        /\ CountIn(m_bInputQueue \o up, A) = CountIn(m_bInputQueue, A) + CountIn(up, A)
    BY <2>1, CountConcat, ConcatProperties
  <2>3. Pending = (m_bInputQueue \o up) \o InBuffer
    BY DEF Pending, InBuffer
  <2>4. CountIn(Pending, A) = CountIn(m_bInputQueue \o up, A) + CountIn(InBuffer, A)
    BY <2>1, <2>2, <2>3, CountConcat
  <2> QED BY <2>2, <2>4 DEF Waiting
<1>2. m_bKeyState \ Horizontal = m_bKeyState \cap Vertical
  BY DEF TypeOK, ClientOK, Vertical
<1> QED BY <1>1, <1>2 DEF MovesPaired, PairedAxes, PairedBoth, Paired, OddSteps, KeysDown, Vertical

LEMMA PairedFormNext == TypeOK' => (MovesPaired' <=> PairedAxes')
  BY PairedForm, PTL

(* n moves are put on their way as n keys of the axis change.              *)
Pushes(A) == \E n \in Nat : /\ Waiting(A)' = Waiting(A) + n
                            /\ KeysDown(A)' \in {KeysDown(A) + n, KeysDown(A) - n}

LEMMA AxisKept ==
  ASSUME TypeOK, NEW A, NEW d \in Int, Pushes(A), Paired(A, d)
  PROVE  Odd((d \div Step) + Waiting(A)') <=> Odd(KeysDown(A)')
<1>1. Waiting(A) \in Nat /\ KeysDown(A) \in Nat
  BY CountsAreNumbers
<1>2. (d \div Step) \in Int
  BY EchoAssumption
<1>3. PICK n \in Nat : /\ Waiting(A)' = Waiting(A) + n
                       /\ KeysDown(A)' \in {KeysDown(A) + n, KeysDown(A) - n}
  BY DEF Pushes
<1> DEFINE q == d \div Step
           w == Waiting(A)
           k == KeysDown(A)
           j == KeysDown(A)'
           v == Waiting(A)'
<1>4. q \in Int /\ w \in Nat /\ k \in Nat /\ v = w + n /\ j \in {k + n, k - n}
  BY <1>1, <1>2, <1>3
<1>5. Odd(q + w) <=> Odd(k)
  BY DEF Paired
<1> HIDE DEF q, w, k, j, v
<1>6. Odd(q + v) <=> Odd(j)
  BY <1>4, <1>5 DEF Odd
<1> QED BY <1>6 DEF q, v, j

LEMMA PushedPaired ==
  ASSUME TypeOK, TypeOK', PairedAxes, conn \in Slots \cup {Backlog},
         UNCHANGED <<conn, place>>, Pushes(Horizontal), Pushes(Vertical)
  PROVE  PairedAxes'
<1>1. Standing' = Standing /\ Standing.x - Start \in Int /\ Standing.y - Start \in Int
  BY InBufferType, EchoAssumption DEF Standing
<1>2. PairedBoth
  BY DEF PairedAxes
<1> QED BY <1>1, <1>2, AxisKept DEF PairedAxes, PairedBoth, Paired

Follows == Faithful /\ MovesPaired

(* Steps that move no event, no move, no player and no recorded key.       *)
counted == <<m_bKeyState, m_bInputQueue, up, conn, buffer, place>>

LEMMA UncountedPaired == MovesPaired /\ UNCHANGED counted => MovesPaired'
  BY DEF counted, MovesPaired, OddSteps, Pending, Standing

LEMMA ApartPaired ==
  ASSUME Follows,
         \/ Hands \/ DispatchKeys \/ ReadPacket \/ NoMessage \/ UNCHANGED vars
         \/ \E p \in Slots : Rearm(p) \/ DisconnectClient(p)
  PROVE  MovesPaired'
<1>1. UNCHANGED counted
  BY DEF Hands, PressKey, RepeatKey, ReleaseKey, LoseFocus, GainFocus, PressPad,
     ReleasePad, TiltStick, RestStick, Plug, Unplug, Still, DispatchKeys, ReadPacket, NoMessage, Rearm, DisconnectClient,
     vars, input, wire, server, counted
<1> QED BY <1>1, UncountedPaired DEF Follows

(* A release: the key is recorded up, and a move is put on the wire.       *)
LEMMA UpdatePaired ==
  ASSUME Follows, TypeOK', Update
  PROVE  MovesPaired'
<1> DEFINE released == IF plugged THEN UpdateGamePad ELSE UpdateKeyBoard
<1>1. released \in SUBSET Keys /\ released \subseteq m_bKeyState
  BY DEF Follows, Faithful, TypeOK, ClientOK, UpdateGamePad, UpdateKeyBoard
<1>2. /\ m_bKeyState' = m_bKeyState \ released /\ m_bInputQueue' = <<>>
      /\ up' = IF conn = Refused THEN up ELSE up \o (m_bInputQueue \o InOrder(released))
      /\ UNCHANGED <<conn, buffer, place>>
  BY DEF Update, server
<1> HIDE DEF released
<1> SUFFICES ASSUME conn \in Slots \cup {Backlog} PROVE PairedAxes'
  BY <1>2, PairedFormNext DEF PairedAxes
<1>0. TypeOK /\ PairedAxes
  BY PairedForm DEF Follows, Faithful
<1>3. m_bInputQueue \in Seq(Keys) /\ up \in Seq(Keys)
  BY <1>0 DEF TypeOK, ClientOK
<1>4. conn # Refused
  OBVIOUS
<1>5. ASSUME NEW A  PROVE Pushes(A)
  <2>1. /\ IsFiniteSet(released \cap A)
        /\ CountIn(InOrder(released), A) = Cardinality(released \cap A)
    BY <1>1, InOrderCount
  <2>2. InOrder(released) \in Seq(Keys)
    BY <1>1, InOrderType
  <2>3. /\ m_bInputQueue \o InOrder(released) \in Seq(Keys)
        /\ CountIn(m_bInputQueue \o InOrder(released), A)
             = CountIn(m_bInputQueue, A) + Cardinality(released \cap A)
    BY <1>3, <2>1, <2>2, CountConcat, ConcatProperties
  <2>4. CountIn(up', A)
          = CountIn(up, A) + (CountIn(m_bInputQueue, A) + Cardinality(released \cap A))
    <3>1. up' = up \o (m_bInputQueue \o InOrder(released))
      BY <1>2, <1>4
    <3>2. CountIn(up', A) = CountIn(up, A) + CountIn(m_bInputQueue \o InOrder(released), A)
      BY <1>3, <2>3, <3>1, CountConcat
    <3> QED BY <2>3, <3>2
  <2>5. CountIn(m_bInputQueue', A) = 0 /\ InBuffer' = InBuffer
    BY <1>2, CountNone DEF InBuffer
  <2>6. Cardinality(released \cap A) \in Nat
    BY <2>1, FS_CardinalityType
  <2>7. Waiting(A)' = Waiting(A) + Cardinality(released \cap A)
    <3>1. Waiting(A)' = CountIn(m_bInputQueue', A) + CountIn(up', A) + CountIn(InBuffer', A)
      BY DEF Waiting
    <3>2. /\ CountIn(m_bInputQueue, A) \in Nat /\ CountIn(up, A) \in Nat
          /\ CountIn(InBuffer, A) \in Nat
      BY <1>0, CountsAreNumbers
    <3> QED BY <2>4, <2>5, <2>6, <3>1, <3>2 DEF Waiting
  <2>8. Cardinality((m_bKeyState \cap A) \ (released \cap A))
          = KeysDown(A) - Cardinality((m_bKeyState \cap A) \cap (released \cap A))
    BY <1>0, CountsAreNumbers, FS_Difference DEF KeysDown
  <2>9. /\ (m_bKeyState \cap A) \ (released \cap A) = m_bKeyState' \cap A
        /\ (m_bKeyState \cap A) \cap (released \cap A) = released \cap A
    BY <1>1, <1>2
  <2>10. KeysDown(A)' = KeysDown(A) - Cardinality(released \cap A)
    BY <2>8, <2>9 DEF KeysDown
  <2> QED BY <2>6, <2>7, <2>10 DEF Pushes
<1> QED BY <1>0, <1>2, <1>5, PushedPaired

(* A press: the key is recorded down, and an event is queued.              *)
LEMMA ScenePaired ==
  ASSUME Follows, TypeOK', SceneUpdate
  PROVE  MovesPaired'
<1> DEFINE pressed == IF m_bConnect THEN dpad \cup stick ELSE known
           new     == KeyDown(pressed)
<1>1. new \in SUBSET Keys /\ new = pressed \ m_bKeyState
  BY DEF Follows, Faithful, TypeOK, HandsOK, KeyDown
<1>2. /\ m_bKeyState' = m_bKeyState \cup pressed
      /\ m_bInputQueue' = m_bInputQueue \o InOrder(new)
      /\ UNCHANGED <<conn, up, buffer, place>>
  BY DEF SceneUpdate, wire, server
<1>3. m_bKeyState' = m_bKeyState \cup new
  BY <1>1, <1>2
<1> HIDE DEF pressed, new
<1> SUFFICES ASSUME conn \in Slots \cup {Backlog} PROVE PairedAxes'
  BY <1>2, PairedFormNext DEF PairedAxes
<1>4. TypeOK /\ PairedAxes
  BY PairedForm DEF Follows, Faithful
<1>5. ASSUME NEW A  PROVE Pushes(A)
  <2>1. IsFiniteSet(new \cap A) /\ CountIn(InOrder(new), A) = Cardinality(new \cap A)
    BY <1>1, InOrderCount
  <2>2. InOrder(new) \in Seq(Keys) /\ m_bInputQueue \in Seq(Keys)
    BY <1>1, <1>4, InOrderType DEF TypeOK, ClientOK
  <2>3. CountIn(m_bInputQueue', A) = CountIn(m_bInputQueue, A) + Cardinality(new \cap A)
    BY <1>2, <2>1, <2>2, CountConcat
  <2>4. CountIn(up', A) = CountIn(up, A) /\ InBuffer' = InBuffer
    BY <1>2 DEF InBuffer
  <2>5. Cardinality(new \cap A) \in Nat
    BY <2>1, FS_CardinalityType
  <2>6. Waiting(A)' = Waiting(A) + Cardinality(new \cap A)
    <3>1. Waiting(A)' = CountIn(m_bInputQueue', A) + CountIn(up', A) + CountIn(InBuffer', A)
      BY DEF Waiting
    <3>2. /\ CountIn(m_bInputQueue, A) \in Nat /\ CountIn(up, A) \in Nat
          /\ CountIn(InBuffer, A) \in Nat
      BY <1>4, CountsAreNumbers
    <3> QED BY <2>3, <2>4, <2>5, <3>1, <3>2 DEF Waiting
  <2>7. /\ IsFiniteSet(m_bKeyState \cap A) /\ KeysDown(A) \in Nat
        /\ (m_bKeyState \cap A) \cap (new \cap A) = {}
        /\ (m_bKeyState \cap A) \cup (new \cap A) = m_bKeyState' \cap A
    BY <1>1, <1>3, <1>4, CountsAreNumbers
  <2>8. Cardinality((m_bKeyState \cap A) \cup (new \cap A))
          = KeysDown(A) + Cardinality(new \cap A) - Cardinality({})
    BY <2>1, <2>7, FS_Union DEF KeysDown
  <2>9. KeysDown(A)' = KeysDown(A) + Cardinality(new \cap A)
    <3>1. KeysDown(A)' = Cardinality(m_bKeyState' \cap A)
      BY DEF KeysDown
    <3>2. KeysDown(A)' = KeysDown(A) + Cardinality(new \cap A) - Cardinality({})
      BY <2>7, <2>8, <3>1
    <3>3. Cardinality({}) = 0 /\ KeysDown(A) \in Nat
      BY <2>7, FS_EmptySet
    <3> QED BY <2>5, <3>2, <3>3
  <2> QED BY <2>5, <2>6, <2>9 DEF Pushes
<1> QED BY <1>2, <1>4, <1>5, PushedPaired

(* A new client has pressed nothing and moved nothing; a player that is     *)
(* accepted stands at the origin.                                          *)
LEMMA NoStepMade == Origin.x - Start = 0 /\ Origin.y - Start = 0 /\ 0 \div Step = 0
  BY EchoAssumption DEF Origin

LEMMA LifePaired ==
  ASSUME Follows, TypeOK', Launch \/ Exit \/ AcceptThread
  PROVE  MovesPaired'
<1>0. TypeOK /\ PairedAxes
  BY PairedForm DEF Follows, Faithful
<1>1. CASE Launch
  <2>1. /\ conn' = Backlog /\ m_bKeyState' = {} /\ m_bInputQueue' = <<>> /\ up' = <<>>
        /\ conn' \notin Slots
    BY <1>1 DEF Launch
  <2>2. \A A : Waiting(A)' = 0 /\ KeysDown(A)' = 0
    <3> SUFFICES ASSUME NEW A PROVE Waiting(A)' = 0 /\ KeysDown(A)' = 0
      OBVIOUS
    <3>1. InBuffer' = <<>>
      BY <2>1 DEF InBuffer
    <3>2. m_bKeyState' \cap A = {}
      BY <2>1
    <3> QED BY <2>1, <3>1, <3>2, CountNone, FS_EmptySet DEF Waiting, KeysDown
  <2>3. Standing' = Origin
    BY <2>1 DEF Standing
  <2>4. PairedBoth'
    BY <2>2, <2>3, NoStepMade DEF PairedBoth, Paired, Odd
  <2> QED BY <2>4, PairedFormNext DEF PairedAxes
<1>2. CASE Exit
  <2>1. conn' = None
    BY <1>2 DEF Exit
  <2> QED BY <2>1, PairedFormNext DEF PairedAxes
<1>3. CASE AcceptThread
  <2>1. conn = Backlog /\ UNCHANGED <<m_bKeyState, m_bInputQueue, buffer>>
    BY <1>3 DEF AcceptThread, input
  <2>2. CASE conn' = Refused
    BY <2>2, PairedFormNext DEF PairedAxes
  <2>3. CASE conn' # Refused
    <3>1. PICK p \in Slots : /\ conn' = p /\ up' = up
                             /\ place' = [place EXCEPT ![p] = Origin]
      BY <1>3, <2>3 DEF AcceptThread, StartPlace
    <3>2. place'[p] = Origin /\ buffer[p] = <<>>
      BY <2>1, <3>1 DEF Follows, Faithful, Linked, TypeOK, ServerOK
    <3>3. Standing' = Standing /\ InBuffer' = InBuffer
      BY <2>1, <3>1, <3>2 DEF Standing, InBuffer
    <3>4. PairedBoth
      BY <1>0, <2>1 DEF PairedAxes
    <3>5. PairedBoth'
      BY <2>1, <3>1, <3>3, <3>4 DEF PairedBoth, Paired, Waiting, KeysDown
    <3> QED BY <3>5, PairedFormNext DEF PairedAxes
  <2> QED BY <2>2, <2>3
<1> QED BY <1>1, <1>2, <1>3

(* A move takes one step on its own axis, and none on the other.           *)
LEMMA MovedAxes ==
  ASSUME NEW at \in Place, NEW k \in Keys
  PROVE  /\ Moved(at, k) \in Place
         /\ k \in Horizontal => /\ Moved(at, k).y = at.y
                                /\ Moved(at, k).x \in {at.x + Step, at.x - Step}
         /\ k \notin Horizontal => /\ Moved(at, k).x = at.x
                                   /\ Moved(at, k).y \in {at.y + Step, at.y - Step}
<1>1. k \in {YK_LEFT, YK_RIGHT, YK_UP, YK_DOWN} /\ Step \in Nat
  BY EchoAssumption
<1> QED
  BY <1>1, MovedType DEF Moved, Horizontal, YK_LEFT, YK_RIGHT, YK_UP, YK_DOWN

(* One step more or less and one move less on its way.                     *)
LEMMA StepTaken ==
  ASSUME NEW d \in Int, NEW e \in {d + Step, d - Step}, NEW w \in Int
  PROVE  Odd((e \div Step) + (w - 1)) <=> Odd((d \div Step) + w)
<1>1. Step \in Nat \ {0} /\ e \in Int /\ d - Step \in Int
  BY EchoAssumption
<1>2. (d \div Step) \in Int /\ (e \div Step) \in Int
  BY <1>1
<1>3. (d + Step) \div Step = (d \div Step) + 1
  BY <1>1, DivStep
<1>4. ((d - Step) + Step) \div Step = ((d - Step) \div Step) + 1
  BY <1>1, DivStep
<1>5. (d - Step) + Step = d
  BY <1>1
<1>6. (e \div Step) = (d \div Step) + 1 \/ (d \div Step) = (e \div Step) + 1
  BY <1>3, <1>4, <1>5
<1> DEFINE q == d \div Step
           r == e \div Step
<1>7. q \in Int /\ r \in Int /\ (r = q + 1 \/ q = r + 1)
  BY <1>2, <1>6
<1> HIDE DEF q, r
<1>8. Odd(r + (w - 1)) <=> Odd(q + w)
  BY <1>7 DEF Odd
<1> QED BY <1>8 DEF q, r

LEMMA ReceivePaired ==
  ASSUME Follows, TypeOK', NEW p \in Slots, Receive(p)
  PROVE  MovesPaired'
<1>0. TypeOK /\ Linked /\ PairedAxes
  BY PairedForm DEF Follows, Faithful
<1>1. PICK n \in 1 .. Len(up) :
        /\ buffer' = [buffer EXCEPT ![p] = SubSeq(up, 1, n)]
        /\ up' = SubSeq(up, n + 1, Len(up))
  BY DEF Receive
<1>2. conn = p /\ p \in posted /\ UNCHANGED <<m_bKeyState, m_bInputQueue, conn, place>>
  BY DEF Receive, input
<1>3. InBuffer = <<>> /\ InBuffer' = SubSeq(up, 1, n) /\ Standing' = Standing
  BY <1>0, <1>1, <1>2 DEF Linked, TypeOK, ServerOK, InBuffer, Standing
<1>4. up \in Seq(Keys) /\ Len(up) \in Nat
  BY <1>0 DEF TypeOK, ClientOK
<1>5. SubSeq(up, 1, n) \in Seq(Keys) /\ SubSeq(up, n + 1, Len(up)) \in Seq(Keys)
  BY <1>4, FrontAndRest
<1>6. up = SubSeq(up, 1, n) \o SubSeq(up, n + 1, Len(up))
  <2>1. SubSeq(up, 1, n) \o SubSeq(up, n + 1, Len(up)) = SubSeq(up, 1, Len(up))
    BY <1>4, ConcatAdjacentSubSeq
  <2> QED BY <1>4, <2>1, SubSeqFull
<1>7. ASSUME NEW A  PROVE Waiting(A)' = Waiting(A) /\ KeysDown(A)' = KeysDown(A)
  <2>1. CountIn(up, A) = CountIn(InBuffer', A) + CountIn(up', A)
    BY <1>1, <1>3, <1>5, <1>6, CountConcat
  <2>2. CountIn(InBuffer, A) = 0
    BY <1>3, CountNone
  <2>3. /\ CountIn(m_bInputQueue, A) \in Nat /\ CountIn(up, A) \in Nat
        /\ CountIn(InBuffer', A) \in Nat /\ CountIn(up', A) \in Nat
    BY <1>0, <1>1, <1>3, <1>5, CountsAreNumbers, CountTypes
  <2>4. Waiting(A)' = CountIn(m_bInputQueue, A) + CountIn(up', A) + CountIn(InBuffer', A)
    BY <1>2 DEF Waiting
  <2>5. Waiting(A)' = Waiting(A)
    BY <2>1, <2>2, <2>3, <2>4 DEF Waiting
  <2> QED BY <1>2, <2>5 DEF KeysDown
<1>8. PairedBoth'
  BY <1>0, <1>2, <1>3, <1>7 DEF PairedAxes, PairedBoth, Paired
<1> QED BY <1>8, PairedFormNext DEF PairedAxes

LEMMA PacketPaired ==
  ASSUME Follows, TypeOK', NEW p \in Slots, ProcessPacket(p)
  PROVE  MovesPaired'
<1> DEFINE h == Head(buffer[p])
<1>0. TypeOK /\ Linked /\ PairedAxes
  BY PairedForm DEF Follows, Faithful
<1>1. /\ buffer[p] # <<>>
      /\ place' = [place EXCEPT ![p] = Moved(place[p], h)]
      /\ buffer' = [buffer EXCEPT ![p] = Tail(buffer[p])]
      /\ UNCHANGED <<m_bKeyState, m_bInputQueue, conn, up>>
  BY DEF ProcessPacket, input
<1>2. /\ conn = p /\ InBuffer = buffer[p] /\ InBuffer' = Tail(buffer[p])
      /\ Standing = place[p] /\ Standing' = Moved(place[p], h)
      /\ buffer[p] \in Seq(Keys) /\ place[p] \in Place
  BY <1>0, <1>1 DEF Linked, TypeOK, ServerOK, InBuffer, Standing
<1>3. h \in Keys /\ Tail(buffer[p]) \in Seq(Keys) /\ buffer[p] = <<h>> \o Tail(buffer[p])
  <2>1. h \in Keys /\ Tail(buffer[p]) \in Seq(Keys)
    BY <1>1, <1>2, HeadTailProperties
  <2>2. Len(buffer[p]) \in Nat \ {0}
    BY <1>1, <1>2, EmptySeq
  <2>3. SubSeq(buffer[p], 1, Len(buffer[p]))
          = <<buffer[p][1]>> \o SubSeq(buffer[p], 1 + 1, Len(buffer[p]))
    BY <1>2, <2>2, SubSeqRecursiveFirst
  <2>4. buffer[p][1] = h /\ SubSeq(buffer[p], 1 + 1, Len(buffer[p])) = Tail(buffer[p])
    BY <1>1, <1>2, TailIsSubSeq
  <2> QED BY <1>2, <2>1, <2>3, <2>4, SubSeqFull
<1> HIDE DEF h
<1>4. ASSUME NEW A
      PROVE  /\ Waiting(A)' = IF h \in A THEN Waiting(A) - 1 ELSE Waiting(A)
             /\ KeysDown(A)' = KeysDown(A) /\ Waiting(A) \in Nat
  <2>1. <<h>> \in Seq(Keys) /\ CountIn(<<h>>, A) = IF h \in A THEN 1 ELSE 0
    BY <1>3, CountSingle
  <2>2. CountIn(InBuffer, A) = CountIn(<<h>>, A) + CountIn(InBuffer', A)
    BY <1>2, <1>3, <2>1, CountConcat
  <2>3. /\ CountIn(m_bInputQueue, A) \in Nat /\ CountIn(up, A) \in Nat
        /\ CountIn(InBuffer', A) \in Nat /\ CountIn(InBuffer, A) \in Nat /\ Waiting(A) \in Nat
    BY <1>0, <1>2, <1>3, CountsAreNumbers, CountTypes
  <2>4. Waiting(A)' = CountIn(m_bInputQueue, A) + CountIn(up, A) + CountIn(InBuffer', A)
    BY <1>1 DEF Waiting
  <2>5. Waiting(A)' = IF h \in A THEN Waiting(A) - 1 ELSE Waiting(A)
    BY <2>1, <2>2, <2>3, <2>4 DEF Waiting
  <2> QED BY <1>1, <2>3, <2>5 DEF KeysDown
<1>5. PairedBoth
  BY <1>0, <1>2 DEF PairedAxes
<1>6. ASSUME NEW A, NEW d \in Int, NEW e \in Int, Paired(A, d),
             IF h \in A THEN e \in {d + Step, d - Step} ELSE e = d
      PROVE  Odd((e \div Step) + Waiting(A)') <=> Odd(KeysDown(A)')
  <2>1. CASE h \in A
    <3>1. Odd((e \div Step) + (Waiting(A) - 1)) <=> Odd((d \div Step) + Waiting(A))
      BY <1>4, <1>6, <2>1, StepTaken
    <3> QED BY <1>4, <1>6, <2>1, <3>1 DEF Paired
  <2>2. CASE h \notin A
    BY <1>4, <1>6, <2>2 DEF Paired
  <2> QED BY <2>1, <2>2
<1> DEFINE a == place[p]
           b == Moved(a, h)
<1>7. /\ Standing = a /\ Standing' = b /\ a \in Place /\ b \in Place
      /\ h \in Horizontal => b.y = a.y /\ b.x \in {a.x + Step, a.x - Step}
      /\ h \notin Horizontal => b.x = a.x /\ b.y \in {a.y + Step, a.y - Step}
  BY <1>2, <1>3, MovedAxes
<1> HIDE DEF a, b
<1>8. /\ a.x \in Int /\ a.y \in Int /\ b.x \in Int /\ b.y \in Int
      /\ Start \in Int /\ Step \in Int
  BY <1>7, EchoAssumption
<1>9. /\ a.x - Start \in Int /\ b.x - Start \in Int
       /\ IF h \in Horizontal
            THEN b.x - Start \in {(a.x - Start) + Step, (a.x - Start) - Step}
            ELSE b.x - Start = a.x - Start
  BY <1>7, <1>8
<1>10. /\ a.y - Start \in Int /\ b.y - Start \in Int
       /\ IF h \in Vertical
            THEN b.y - Start \in {(a.y - Start) + Step, (a.y - Start) - Step}
            ELSE b.y - Start = a.y - Start
  BY <1>3, <1>7, <1>8 DEF Vertical
<1>11. PairedBoth'
  BY <1>5, <1>6, <1>7, <1>9, <1>10 DEF PairedBoth, Paired
<1> QED BY <1>11, PairedFormNext DEF PairedAxes

LEMMA InitPaired == Init => MovesPaired
  BY DEF Init, MovesPaired

(* From the key to the board no single move is lost, doubled or made up,   *)
(* whatever the hands and the focus do and however moves are packed: the   *)
(* steps and the moves on their way have the parity of the keys recorded   *)
(* down, for any number of slots and any step.                             *)
THEOREM MovesStayPaired == Spec => []MovesPaired
<1>1. TypeOK' /\ Faithful /\ MovesPaired /\ [Next]_vars => MovesPaired'
  BY ApartPaired, UpdatePaired, ScenePaired, LifePaired, ReceivePaired, PacketPaired
  DEF Next, Client, WorkerThread, Follows
<1>2. Faithful /\ [Next]_vars => Linked' /\ DisplayFollows'
  BY ApartFaithful, ReadFaithful, LifeFaithful, WorkerFaithful DEF Next, Client
<1> QED BY <1>1, <1>2, InitFaithful, InitPaired, TypesHold, PTL DEF Spec, Faithful
=============================================================================
