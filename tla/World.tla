-------------------------------- MODULE World --------------------------------
(***************************************************************************)
(* The board the 2017Server programs play on: the identifiers of the       *)
(* gclients array, the coordinates, the sight test, and the two ways an    *)
(* object moves (a player's packet, an NPC's heartbeat).                   *)
(*                                                                         *)
(* A slot of gclients serves a player when its index is below MAX_USER and *)
(* an NPC when it is at least NPC_START.  Nothing in the code keeps the    *)
(* two ranges apart, so nothing here does.                                 *)
(***************************************************************************)
EXTENDS Integers

CONSTANTS
  MaxUser,      \* MAX_USER: player slots are 0 .. MaxUser-1
  NpcStart,     \* NPC_START: first NPC slot
  NumOfNpc,     \* NUM_OF_NPC: length of gclients
  BoardWidth,   \* BOARD_WIDTH
  BoardHeight,  \* BOARD_HEIGHT
  ViewMax       \* VIEW_MAX: sight radius

ASSUME SlotsAssumption ==
  /\ MaxUser \in Nat \ {0} /\ NpcStart \in Nat /\ NumOfNpc \in Nat
  /\ MaxUser <= NumOfNpc

ASSUME BoardAssumption ==
  /\ BoardWidth \in Nat \ {0} /\ BoardHeight \in Nat \ {0} /\ ViewMax \in Nat

Objects == 0 .. NumOfNpc - 1
Users   == 0 .. MaxUser - 1
NPCs    == NpcStart .. NumOfNpc - 1

IsPlayer(id) == id < MaxUser
isNPC(id)    == id >= NpcStart

Columns == 0 .. BoardWidth - 1
Rows    == 0 .. BoardHeight - 1

-----------------------------------------------------------------------------
(* Sight.  The radius is a Euclidean distance, compared in squares.        *)

Square(n) == n * n

Within(dx, dy) == Square(dx) + Square(dy) <= Square(ViewMax)

-----------------------------------------------------------------------------
(* The four move packets of protocol.h, and the step each one asks for.    *)
(* A player's step is refused at the edge of the board.                    *)

Moves == {"CS_UP", "CS_DOWN", "CS_LEFT", "CS_RIGHT"}

MoveX(m, px) ==
  CASE m = "CS_LEFT"  /\ 0 < px              -> px - 1
    [] m = "CS_RIGHT" /\ BoardWidth - 1 > px -> px + 1
    [] OTHER                                 -> px

MoveY(m, py) ==
  CASE m = "CS_UP"   /\ 0 < py               -> py - 1
    [] m = "CS_DOWN" /\ BoardHeight - 1 > py -> py + 1
    [] OTHER                                 -> py

(* The heartbeat's rand() % 4.  The step is taken first and the clamp is a *)
(* second look at the coordinate.  The clamp of direction 1 looks at y but *)
(* writes x, as the code does.                                             *)

Directions == 0 .. 3

StepOf(dir) == IF dir \in {0, 1} THEN 1 ELSE -1

ClampX(dir, px, py) ==
  CASE dir = 0 /\ px >= BoardWidth  -> BoardWidth - 1
    [] dir = 1 /\ py >= BoardHeight -> BoardHeight - 1
    [] dir = 2 /\ px < 0            -> 0
    [] OTHER                        -> px

ClampY(dir, py) == IF dir = 3 /\ py < 0 THEN 0 ELSE py
=============================================================================
