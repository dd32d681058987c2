----------------------------- MODULE CampusDesk -----------------------------
(***************************************************************************)
(* Buildings, floors and rooms as the office keeps them (web/ifo.py,       *)
(* campus/services.py, load_room_master): creating, editing, rotating a    *)
(* room's scan code, taking it out of service, deleting.  Every form reads *)
(* its row first and writes later; two operators work at the same time,    *)
(* while classes are scheduled and shifts reserve rooms.                   *)
(***************************************************************************)
EXTENDS Integers, FiniteSets

CONSTANTS Clerks,        \* requests in flight
          CBuildings, CFloors,   \* building codes; floors as <<building, number>>
          RoomCodes,     \* room codes
          ShiftItems,    \* approved shift items that may reserve a room
          MaxRotations

ASSUME CampusConstants == CFloors \subseteq CBuildings \X Nat /\ MaxRotations \in Nat

NoRoomYet == "no room"

VARIABLES
  buildingRows, floorRows,   \* the rows there are
  roomRow,      \* room rows by code: floor, credentials, in service
  history,      \* rooms a schedule, session, booking or validation refers to
  reserved,     \* the room each shift item reserves
  clerk,        \* per clerk: the operation, its target, the row it read
  minted,       \* credentials minted so far
  retired       \* credentials replaced by a rotation

campusVars == <<buildingRows, floorRows, roomRow, history, reserved, clerk, minted, retired>>

NoForm == [op |-> "none", on |-> <<>>, row |-> <<>>]

CampusInit ==
  /\ buildingRows = CBuildings /\ floorRows = CFloors
  /\ roomRow = <<>> /\ history = {} /\ reserved = [h \in ShiftItems |-> NoRoomYet]
  /\ clerk = [c \in Clerks |-> NoForm]
  /\ minted = 0 /\ retired = {}

-----------------------------------------------------------------------------
RoomRows == DOMAIN roomRow
RoomsOn(f) == {r \in RoomRows : roomRow[r].floor = f}
ReservedBy(r) == {h \in ShiftItems : reserved[h] = r}
AddRoom(r, row) == roomRow' = [x \in RoomRows \union {r} |-> IF x = r THEN row ELSE roomRow[x]]

FreeClerk(c) == clerk[c].op = "none"
Opens(c, op, on, row) == clerk' = [clerk EXCEPT ![c] = [op |-> op, on |-> <<on>>, row |-> row]]
Closes(c) == clerk' = [clerk EXCEPT ![c] = NoForm]
Doing(c, op) == clerk[c].op = op
StructureKept == UNCHANGED <<buildingRows, floorRows>>
RecordsKept == UNCHANGED <<history, reserved>>
CodesKept == UNCHANGED <<minted, retired>>

\* A room form, a rotation and the service switch each read the room first.
room_form(c, op, r) ==
  /\ FreeClerk(c) /\ r \in RoomRows
  /\ Opens(c, op, r, roomRow[r])
  /\ UNCHANGED roomRow /\ StructureKept /\ RecordsKept /\ CodesKept

\* room_new: no room of that code, and the floor there; the room gets new credentials.
room_new(c, r, f) ==
  /\ FreeClerk(c) /\ r \notin RoomRows /\ f \in floorRows /\ minted < MaxRotations
  /\ AddRoom(r, [floor |-> f, code |-> minted, service |-> TRUE])
  /\ minted' = minted + 1
  /\ UNCHANGED <<clerk, retired>> /\ StructureKept /\ RecordsKept

\* Mutant: the form saves the whole row it had read.
room_edit_whole(c, f) ==
  LET r == clerk[c].on[1]
  IN  /\ Doing(c, "edit") /\ f \in floorRows
      /\ IF r \in RoomRows
         THEN roomRow' = [roomRow EXCEPT ![r] = [clerk[c].row EXCEPT !.floor = f]]
         ELSE UNCHANGED roomRow
      /\ Closes(c) /\ StructureKept /\ RecordsKept /\ CodesKept

\* room_edit: the floor (and name and seats), and nothing else of the row.
room_edit(c, f) ==
  LET r == clerk[c].on[1]
  IN  /\ Doing(c, "edit") /\ f \in floorRows
      /\ IF r \in RoomRows
         THEN roomRow' = [roomRow EXCEPT ![r].floor = f]
         ELSE UNCHANGED roomRow
      /\ Closes(c) /\ StructureKept /\ RecordsKept /\ CodesKept

\* room_rotate: a fresh code and token in one transaction.
room_rotate(c) ==
  LET r == clerk[c].on[1]
  IN  /\ Doing(c, "rotate") /\ minted < MaxRotations
      /\ IF r \in RoomRows
         THEN /\ roomRow' = [roomRow EXCEPT ![r].code = minted]
              /\ retired' = retired \union {roomRow[r].code} /\ minted' = minted + 1
         ELSE UNCHANGED <<roomRow, retired, minted>>
      /\ Closes(c) /\ StructureKept /\ RecordsKept

\* room_toggle_service: the opposite of what was read.
room_toggle_service(c) ==
  LET r == clerk[c].on[1]
  IN  /\ Doing(c, "toggle")
      /\ IF r \in RoomRows
         THEN roomRow' = [roomRow EXCEPT ![r].service = ~clerk[c].row.service] ELSE UNCHANGED roomRow
      /\ Closes(c) /\ StructureKept /\ RecordsKept /\ CodesKept

-----------------------------------------------------------------------------
\* Deletes: first the check that names what is in the way, then the delete.  Rows that
\* protect a room or a floor make the delete itself fail; a reservation is only emptied.
room_delete_blockers(r) == (history \intersect {r}) \union ReservedBy(r)

room_delete_check(c, r) ==
  /\ FreeClerk(c) /\ r \in RoomRows /\ room_delete_blockers(r) = {}
  /\ Opens(c, "delete", r, roomRow[r])
  /\ UNCHANGED roomRow /\ StructureKept /\ RecordsKept /\ CodesKept

room_delete(c) ==
  LET r == clerk[c].on[1]
      gone == r \in RoomRows /\ r \notin history
  IN  /\ Doing(c, "delete")
      /\ roomRow' = IF gone THEN [x \in RoomRows \ {r} |-> roomRow[x]] ELSE roomRow
      /\ reserved' = IF gone THEN [h \in ShiftItems |-> IF reserved[h] = r THEN NoRoomYet ELSE reserved[h]] ELSE reserved
      /\ Closes(c) /\ StructureKept /\ CodesKept /\ UNCHANGED history

floor_delete_blockers(f) == RoomsOn(f)

floor_delete_check(c, f) ==
  /\ FreeClerk(c) /\ f \in floorRows /\ floor_delete_blockers(f) = {}
  /\ Opens(c, "floor", f, <<>>)
  /\ UNCHANGED roomRow /\ StructureKept /\ RecordsKept /\ CodesKept

\* Mutant: the floor takes its rooms with it.
floor_delete_cascade(c) ==
  LET f == clerk[c].on[1]
  IN  /\ Doing(c, "floor")
      /\ floorRows' = floorRows \ {f}
      /\ roomRow' = [x \in RoomRows \ RoomsOn(f) |-> roomRow[x]]
      /\ Closes(c) /\ RecordsKept /\ CodesKept /\ UNCHANGED buildingRows

floor_delete(c) ==
  LET f == clerk[c].on[1]
  IN  /\ Doing(c, "floor")
      /\ floorRows' = IF RoomsOn(f) = {} THEN floorRows \ {f} ELSE floorRows
      /\ Closes(c) /\ RecordsKept /\ CodesKept /\ UNCHANGED <<buildingRows, roomRow>>

\* A building takes its empty floors with it, and fails on a floor with rooms.
building_delete_blockers(b) == [floors |-> {f \in floorRows : f[1] = b},
                                rooms  |-> {r \in RoomRows : roomRow[r].floor[1] = b}]

building_delete_check(c, b) ==
  /\ FreeClerk(c) /\ b \in buildingRows /\ building_delete_blockers(b) = [floors |-> {}, rooms |-> {}]
  /\ Opens(c, "building", b, <<>>)
  /\ UNCHANGED roomRow /\ StructureKept /\ RecordsKept /\ CodesKept

building_delete(c) ==
  LET b == clerk[c].on[1]
      blocked == \E r \in RoomRows : roomRow[r].floor[1] = b
  IN  /\ Doing(c, "building")
      /\ buildingRows' = IF blocked THEN buildingRows ELSE buildingRows \ {b}
      /\ floorRows' = IF blocked THEN floorRows ELSE {f \in floorRows : f[1] # b}
      /\ Closes(c) /\ RecordsKept /\ CodesKept /\ UNCHANGED roomRow

building_create(b) ==
  /\ b \in CBuildings \ buildingRows
  /\ buildingRows' = buildingRows \union {b}
  /\ UNCHANGED <<floorRows, roomRow, clerk>> /\ RecordsKept /\ CodesKept

floor_create(f) ==
  /\ f \in CFloors \ floorRows /\ f[1] \in buildingRows
  /\ floorRows' = floorRows \union {f}
  /\ UNCHANGED <<buildingRows, roomRow, clerk>> /\ RecordsKept /\ CodesKept

\* load_room_master: every listed room is there afterwards, its building and floor too;
\* a room that was there only has its name and seats refreshed.
load_room_master(r, f) ==
  /\ buildingRows' = buildingRows \union {f[1]}
  /\ floorRows' = floorRows \union {f}
  /\ IF r \in RoomRows
     THEN UNCHANGED <<roomRow, minted>>
     ELSE /\ minted < MaxRotations
          /\ AddRoom(r, [floor |-> f, code |-> minted, service |-> TRUE])
          /\ minted' = minted + 1
  /\ UNCHANGED <<clerk, retired>> /\ RecordsKept

\* Meanwhile classes are scheduled in rooms, and approved shifts reserve them.
schedule_in(r) ==
  /\ r \in RoomRows /\ history' = history \union {r}
  /\ UNCHANGED <<roomRow, reserved, clerk>> /\ StructureKept /\ CodesKept
reserve(h, r) ==
  /\ r \in RoomRows /\ reserved[h] = NoRoomYet
  /\ reserved' = [reserved EXCEPT ![h] = r]
  /\ UNCHANGED <<roomRow, history, clerk>> /\ StructureKept /\ CodesKept

CampusNext ==
  \/ \E c \in Clerks :
       \/ \E r \in RoomCodes : \/ \E op \in {"edit", "rotate", "toggle"} : room_form(c, op, r)
                               \/ \E f \in CFloors : room_new(c, r, f)
                               \/ room_delete_check(c, r)
       \/ \E f \in CFloors : room_edit(c, f) \/ floor_delete_check(c, f)
       \/ room_rotate(c) \/ room_toggle_service(c)
       \/ \E b \in CBuildings : building_delete_check(c, b)
       \/ room_delete(c) \/ floor_delete(c) \/ building_delete(c)
  \/ \E b \in CBuildings : building_create(b)
  \/ \E f \in CFloors : floor_create(f) \/ \E r \in RoomCodes : load_room_master(r, f)
  \/ \E r \in RoomCodes : schedule_in(r) \/ \E h \in ShiftItems : reserve(h, r)

-----------------------------------------------------------------------------
\* A poster that was rotated away never opens a room again, whatever forms were open
\* on the room while its code was rotated.
RetiredCodesDead == \A r \in RoomRows : roomRow[r].code \notin retired

\* Nothing is left hanging: what refers to a room, a floor or a building finds it, in
\* whatever order operators delete and others create.
RecordsHoused ==
  /\ history \subseteq RoomRows
  /\ \A h \in ShiftItems : reserved[h] \in RoomRows \union {NoRoomYet}
  /\ \A r \in RoomRows : roomRow[r].floor \in floorRows
  /\ \A f \in floorRows : f[1] \in buildingRows
=============================================================================
